--------------------------- MODULE ArchiveProofs ---------------------------
(***************************************************************************)
(* Proofs about Archive, for any requests, days, batch limit, jobs and     *)
(* interruptions, as long as `lens archive run` stays out of the           *)
(* maintenance pass (~Overlap): with it the code does lose a body.         *)
(***************************************************************************)
EXTENDS Archive, TLAPS

\* Only one of the two archive loops is at work.
Alone ==
  "serve" \in Jobs /\ "run" \in Jobs => pc["serve"] = "idle" \/ pc["run"] = "idle"

\* The two jobs that archive.
Archivers ==
  \A j \in Jobs : pc[j] \in {"archive", "days"} => j \in {"serve", "run"}

\* What an archive loop holds was not moved by anyone since it was selected, and
\* is in the day files of the days the loop is done with.
Batches ==
  \A j \in Jobs : pc[j] = "days" =>
    \A r \in held[j] :
      /\ marker[r] = 0
      /\ hot[r] # "null"
      /\ r \in Present => Day[r] \in days[j] \/ r \in bodies

\* The day rows a purge has still to delete are of deleted requests.
Purges ==
  \A j \in Jobs : pc[j] = "purged" => \A r \in held[j] : r \notin Present

\* What a restore has still to do keeps its marker until the restore unmarks it,
\* and a body goes from the day file only when the hot row has it back.
Restores ==
  /\ \A r \in Requests : todo[r] <= 1
  /\ \A r \in Present : todo[r] > 0 => marker[r] > 0
  /\ cur \in Requests => todo[cur] = 0
  /\ cur \in Present => marker[cur] > 0
  /\ "restore" \in Jobs =>
       (pc["restore"] \in {"drop", "unmark"} /\ cur \in Present => hot[cur] = "body")

\* The collector knows every marker of the day it is about to sweep.
Sweeps ==
  "serve" \in Jobs /\ pc["serve"] = "sweep" =>
    \A r \in Present : Day[r] = gc.day /\ marker[r] > 0 => r \in held["serve"]

\* The inductive invariant.
IInv ==
  /\ TypeOK /\ Alone /\ Archivers /\ Batches /\ Purges /\ Restores /\ Sweeps
  /\ OneMarker /\ BodyNeverLost
-----------------------------------------------------------------------------

\* How a read ends is of the type of a read.
LEMMA ReadTypes ==
  ASSUME TypeOK, Found \/ FoundNone
  PROVE  read' \in [phase : {"row", "marker", "day"}, id : Requests \cup {NoRequest},
                    row : {"body", "null", "gone"}, restored : BOOLEAN, empty : BOOLEAN]
<1>1. CASE Found
  <2>1. NoRead \in [phase : {"row", "marker", "day"}, id : Requests \cup {NoRequest},
                    row : {"body", "null", "gone"}, restored : BOOLEAN, empty : BOOLEAN]
    BY DEF NoRead
  <2> QED BY <1>1, <2>1 DEF Found
<1>2. CASE FoundNone
  BY <1>2 DEF TypeOK, FoundNone
<1> QED BY <1>1, <1>2

(***************************************************************************)
(* Every action keeps the invariant: one lemma for each, and in it one     *)
(* step for each conjunct, which says what it takes.                       *)
(***************************************************************************)

LEMMA KeepsPurgeRows ==
  ASSUME ~Overlap, IInv, NEW j \in Jobs, NEW S \in SUBSET Requests,
         pc[j] = "idle", j \in {"serve", "purge"}, j = "serve" => Apart("run"),
         PurgeRows(j, S)
  PROVE  IInv'
<1> USE ArchiveAssumption DEF IInv, vars, hotVars, fileVars, timeVars, localVars
<1>1. TypeOK'
  <2>1. /\ pc' \in [Jobs -> Phases]
        /\ held' \in [Jobs -> SUBSET Requests]
        /\ days' \in [Jobs -> SUBSET Days]
    BY DEF TypeOK, PurgeRows, Goto, Phases, DaysOf, Days
  <2>2. hot' \in [Requests -> {"body", "null", "gone"}] /\ marker' \in [Requests -> Nat]
    BY DEF TypeOK, PurgeRows
  <2>3. "restore" \in Jobs => (cur' \in Requests <=> pc'["restore"] \in {"put", "drop", "unmark"})
    BY DEF TypeOK, PurgeRows, Goto
  <2> QED BY <2>1, <2>2, <2>3 DEF TypeOK, PurgeRows, HasTable
<1>2. Alone' BY DEF Alone, PurgeRows, Goto, Apart
<1>3. Archivers' BY DEF Archivers, PurgeRows, Goto
<1>4. Batches' BY DEF Batches, TypeOK, Present, PurgeRows, Goto
<1>5. Purges' BY DEF Purges, TypeOK, Present, PurgeRows, Goto
<1>6. Restores' BY DEF Restores, Present, PurgeRows, Goto
<1>7. Sweeps' BY DEF Sweeps, Present, PurgeRows, Goto
<1>8. OneMarker' BY DEF OneMarker, PurgeRows
<1>9. BodyNeverLost' BY DEF BodyNeverLost, Present, PurgeRows
<1> QED BY <1>1, <1>2, <1>3, <1>4, <1>5, <1>6, <1>7, <1>8, <1>9 DEF IInv

LEMMA KeepsDeleteDayRows ==
  ASSUME ~Overlap, IInv, NEW j \in Jobs, DeleteDayRows(j)
  PROVE  IInv'
<1> USE ArchiveAssumption DEF IInv, vars, hotVars, fileVars, timeVars, localVars
<1>1. TypeOK'
  <2>1. PICK d \in days[j] :
          /\ file' = Opened(d)
          /\ IF HasTable(d)
             THEN /\ bodies' = bodies \ OnDay(held[j], d)
                  /\ Goto(j, "purged", held[j], days[j] \ {d})
                  /\ before' = before
             ELSE bodies' = bodies /\ EndPurge(j)
    BY DEF DeleteDayRows
  <2>2. /\ pc' \in [Jobs -> Phases]
        /\ held' \in [Jobs -> SUBSET Requests]
        /\ days' \in [Jobs -> SUBSET Days]
    <3>1. CASE HasTable(d) BY <2>1, <3>1 DEF TypeOK, Goto, Phases
    <3>2. CASE ~HasTable(d) BY <2>1, <3>2 DEF TypeOK, Goto, EndPurge, Phases
    <3> QED BY <3>1, <3>2
  <2>3. before' \in [Jobs -> Nat] BY <2>1 DEF TypeOK, EndPurge
  <2>4. /\ file' \in [Days -> {"absent", "bare", "bodies"}]
        /\ bodies' \subseteq {r \in Requests : HasTable(Day[r])'}
    BY <2>1, ZenonT(40) DEF TypeOK, Opened, HasTable
  <2>5. "restore" \in Jobs => (cur' \in Requests <=> pc'["restore"] \in {"put", "drop", "unmark"})
    <3>1. cur' = cur /\ pc[j] = "purged" BY DEF DeleteDayRows
    <3>2. \E p \in {"purged", "archive", "idle"} : pc' = [pc EXCEPT ![j] = p]
      BY <2>1 DEF Goto, EndPurge
    <3> QED BY <3>1, <3>2 DEF TypeOK
  <2> QED BY <2>2, <2>3, <2>4, <2>5 DEF TypeOK, DeleteDayRows
<1>2. Alone' BY DEF Alone, TypeOK, DeleteDayRows, Goto, EndPurge
<1>3. Archivers' BY DEF Archivers, TypeOK, DeleteDayRows, Goto, EndPurge
<1>4. Batches'
  <2>1. \A i \in Jobs : pc'[i] = "days" =>
          pc[i] = "days" /\ held'[i] = held[i] /\ days'[i] = days[i]
    BY DEF TypeOK, DeleteDayRows, Goto, EndPurge
  <2>2. bodies \ bodies' \subseteq held[j] /\ \A r \in held[j] : r \notin Present
    BY DEF TypeOK, DeleteDayRows, OnDay, Purges
  <2> QED BY <2>1, <2>2 DEF Batches, DeleteDayRows, Present
<1>5. Purges'
  <2>1. \A i \in Jobs : pc'[i] = "purged" => pc[i] = "purged" /\ held'[i] = held[i]
    BY DEF TypeOK, DeleteDayRows, Goto, EndPurge
  <2> QED BY <2>1 DEF Purges, DeleteDayRows, Present
<1>6. Restores' BY DEF Restores, TypeOK, Present, DeleteDayRows, Goto, EndPurge
<1>7. Sweeps' BY DEF Sweeps, TypeOK, Present, DeleteDayRows, Goto, EndPurge
<1>8. OneMarker' BY DEF OneMarker, DeleteDayRows
<1>9. BodyNeverLost' BY DEF BodyNeverLost, Present, Purges, DeleteDayRows, OnDay
<1> QED BY <1>1, <1>2, <1>3, <1>4, <1>5, <1>6, <1>7, <1>8, <1>9 DEF IInv

LEMMA KeepsPurgeDone ==
  ASSUME ~Overlap, IInv, NEW j \in Jobs, PurgeDone(j)
  PROVE  IInv'
<1> USE ArchiveAssumption DEF IInv, vars, hotVars, fileVars, timeVars, localVars
<1>1. TypeOK' BY DEF TypeOK, HasTable, Phases, PurgeDone, Goto, EndPurge
<1>2. Alone' BY DEF Alone, TypeOK, PurgeDone, Goto, EndPurge
<1>3. Archivers' BY DEF Archivers, TypeOK, PurgeDone, Goto, EndPurge
<1>4. Batches'
  <2>1. \A i \in Jobs : pc'[i] = "days" =>
          pc[i] = "days" /\ held'[i] = held[i] /\ days'[i] = days[i]
    BY DEF TypeOK, PurgeDone, Goto, EndPurge
  <2> QED BY <2>1 DEF Batches, PurgeDone, Present
<1>5. Purges'
  <2>1. \A i \in Jobs : pc'[i] = "purged" => pc[i] = "purged" /\ held'[i] = held[i]
    BY DEF TypeOK, PurgeDone, Goto, EndPurge
  <2> QED BY <2>1 DEF Purges, PurgeDone, Present
<1>6. Restores' BY DEF Restores, TypeOK, Present, PurgeDone, Goto, EndPurge
<1>7. Sweeps' BY DEF Sweeps, TypeOK, Present, PurgeDone, Goto, EndPurge
<1>8. OneMarker' BY DEF OneMarker, PurgeDone
<1>9. BodyNeverLost' BY DEF BodyNeverLost, Present, PurgeDone
<1> QED BY <1>1, <1>2, <1>3, <1>4, <1>5, <1>6, <1>7, <1>8, <1>9 DEF IInv

LEMMA KeepsStartRun ==
  ASSUME ~Overlap, IInv, StartRun
  PROVE  IInv'
<1> USE ArchiveAssumption DEF IInv, vars, hotVars, fileVars, timeVars, localVars
<1>1. TypeOK' BY DEF TypeOK, HasTable, Phases, StartRun, Goto
<1>2. Alone' BY DEF Alone, StartRun, Goto, Apart
<1>3. Archivers' BY DEF Archivers, StartRun, Goto
<1>4. Batches' BY DEF Batches, Present, StartRun, Goto
<1>5. Purges' BY DEF Purges, Present, StartRun, Goto
<1>6. Restores' BY DEF Restores, Present, StartRun, Goto
<1>7. Sweeps' BY DEF Sweeps, Present, StartRun, Goto
<1>8. OneMarker' BY DEF OneMarker, StartRun
<1>9. BodyNeverLost' BY DEF BodyNeverLost, Present, StartRun
<1> QED BY <1>1, <1>2, <1>3, <1>4, <1>5, <1>6, <1>7, <1>8, <1>9 DEF IInv

LEMMA KeepsSelectBatch ==
  ASSUME ~Overlap, IInv, NEW j \in Jobs, SelectBatch(j)
  PROVE  IInv'
<1> USE ArchiveAssumption DEF IInv, vars, hotVars, fileVars, timeVars, localVars
<1>1. TypeOK'
  <2>1. NextBatch(before[j]) \subseteq Requests /\ DaysOf(NextBatch(before[j])) \subseteq Days
    BY DEF NextBatch, Oldest, Archivable, DaysOf, Days
  <2>2. /\ pc' \in [Jobs -> Phases]
        /\ held' \in [Jobs -> SUBSET Requests]
        /\ days' \in [Jobs -> SUBSET Days]
    <3>1. CASE NextBatch(before[j]) = {}
      BY <2>1, <3>1 DEF TypeOK, SelectBatch, Goto, AfterArchive, Phases
    <3>2. CASE NextBatch(before[j]) # {}
      BY <2>1, <3>2 DEF TypeOK, SelectBatch, Goto, Phases
    <3> QED BY <3>1, <3>2
  <2>3. before' \in [Jobs -> Nat] BY DEF TypeOK, SelectBatch
  <2>4. "restore" \in Jobs => (cur' \in Requests <=> pc'["restore"] \in {"put", "drop", "unmark"})
    <3>1. cur' = cur /\ pc[j] = "archive" BY DEF SelectBatch
    <3>2. \E p \in {"days", "gc", "idle"} : pc' = [pc EXCEPT ![j] = p]
      BY DEF SelectBatch, Goto, AfterArchive
    <3> QED BY <3>1, <3>2 DEF TypeOK
  <2> QED BY <2>2, <2>3, <2>4 DEF TypeOK, SelectBatch, HasTable
<1>2. Alone' BY DEF Alone, TypeOK, SelectBatch, Goto
<1>3. Archivers' BY DEF Archivers, TypeOK, SelectBatch, Goto
<1>4. Batches'
  <2>1. \A r \in NextBatch(before[j]) : hot[r] = "body" /\ marker[r] = 0 /\ r \in Requests
    BY DEF NextBatch, Oldest, Archivable
  <2>2. \A i \in Jobs : pc'[i] = "days" /\ i # j =>
          pc[i] = "days" /\ held'[i] = held[i] /\ days'[i] = days[i]
    BY DEF TypeOK, SelectBatch, Goto
  <2>3. pc'[j] = "days" => held'[j] = NextBatch(before[j]) /\ days'[j] = DaysOf(held'[j])
    BY DEF TypeOK, SelectBatch, Goto, AfterArchive
  <2> QED BY <2>1, <2>2, <2>3 DEF Batches, SelectBatch, Present, DaysOf
<1>5. Purges' BY DEF Purges, TypeOK, Present, SelectBatch, Goto, DaysOf
<1>6. Restores' BY DEF Restores, TypeOK, Present, SelectBatch, Goto
<1>7. Sweeps' BY DEF Sweeps, TypeOK, Present, SelectBatch, Goto, AfterArchive
<1>8. OneMarker' BY DEF OneMarker, SelectBatch
<1>9. BodyNeverLost' BY DEF BodyNeverLost, Present, SelectBatch
<1> QED BY <1>1, <1>2, <1>3, <1>4, <1>5, <1>6, <1>7, <1>8, <1>9 DEF IInv

LEMMA KeepsWriteDay ==
  ASSUME ~Overlap, IInv, NEW j \in Jobs, WriteDay(j)
  PROVE  IInv'
<1> USE ArchiveAssumption DEF IInv, vars, hotVars, fileVars, timeVars, localVars
<1>1. TypeOK'
  <2>1. PICK d \in days[j] :
          /\ file' = [file EXCEPT ![d] = "bodies"]
          /\ bodies' = bodies \cup OnDay(held[j], d)
          /\ Goto(j, "days", held[j], days[j] \ {d})
    BY DEF WriteDay
  <2>2. /\ pc' \in [Jobs -> Phases]
        /\ held' \in [Jobs -> SUBSET Requests]
        /\ days' \in [Jobs -> SUBSET Days]
    BY <2>1 DEF TypeOK, Goto, Phases
  <2>3. /\ file' \in [Days -> {"absent", "bare", "bodies"}]
        /\ bodies' \subseteq {r \in Requests : HasTable(Day[r])'}
    BY <2>1 DEF TypeOK, OnDay, HasTable
  <2>4. "restore" \in Jobs => (cur' \in Requests <=> pc'["restore"] \in {"put", "drop", "unmark"})
    BY <2>1 DEF TypeOK, WriteDay, Goto
  <2> QED BY <2>2, <2>3, <2>4 DEF TypeOK, WriteDay
<1>2. Alone' BY DEF Alone, WriteDay, Goto
<1>3. Archivers' BY DEF Archivers, WriteDay, Goto
<1>4. Batches' BY DEF Batches, Present, WriteDay, Goto, OnDay
<1>5. Purges' BY DEF Purges, Present, WriteDay, Goto
<1>6. Restores' BY DEF Restores, Present, WriteDay, Goto
<1>7. Sweeps' BY DEF Sweeps, Present, WriteDay, Goto
<1>8. OneMarker' BY DEF OneMarker, WriteDay
<1>9. BodyNeverLost' BY DEF BodyNeverLost, Present, WriteDay
<1> QED BY <1>1, <1>2, <1>3, <1>4, <1>5, <1>6, <1>7, <1>8, <1>9 DEF IInv

LEMMA KeepsCommitHot ==
  ASSUME ~Overlap, IInv, NEW j \in Jobs, CommitHot(j)
  PROVE  IInv'
<1> USE ArchiveAssumption DEF IInv, vars, hotVars, fileVars, timeVars, localVars
<1>1. TypeOK' BY DEF TypeOK, HasTable, Phases, CommitHot, Goto
<1>2. Alone' BY DEF Alone, CommitHot, Goto
<1>3. Archivers' BY DEF Archivers, CommitHot, Goto
<1>4. Batches' BY DEF Batches, TypeOK, Alone, Archivers, CommitHot, Goto
<1>5. Purges' BY DEF Purges, Present, CommitHot, Goto
<1>6. Restores' BY DEF Restores, Present, Batches, CommitHot, Goto
<1>7. Sweeps' BY DEF Sweeps, Alone, Archivers, CommitHot, Goto
<1>. DEFINE Kept == \A r \in held[j] : marker[r] = 0 /\ (r \in Present => r \in bodies)
<1>8. OneMarker'
  <2>1. Kept BY DEF Batches, CommitHot, EveryDayWritten
  <2>2. marker' = [r \in Requests |-> IF r \in held[j] THEN marker[r] + 1 ELSE marker[r]]
    BY DEF CommitHot
  <2> SUFFICES ASSUME NEW r \in Requests PROVE marker'[r] <= 1
    BY DEF OneMarker
  <2>3. CASE r \in held[j]
    <3>1. marker'[r] = 0 + 1 BY <2>1, <2>2, <2>3
    <3> QED BY <3>1
  <2>4. CASE r \notin held[j] BY <2>2, <2>4 DEF OneMarker
  <2> QED BY <2>3, <2>4
<1>9. BodyNeverLost'
  <2>1. Kept BY DEF Batches, CommitHot, EveryDayWritten
  <2>2. hot' = [r \in Requests |-> IF r \in held[j] \cap Present THEN "null" ELSE hot[r]]
    BY DEF CommitHot
  <2>3. marker' = [r \in Requests |-> IF r \in held[j] THEN marker[r] + 1 ELSE marker[r]]
    BY DEF CommitHot
  <2>4. bodies' = bodies BY DEF CommitHot
  <2> SUFFICES ASSUME NEW r \in Requests, hot'[r] # "gone"
               PROVE  hot'[r] = "body" \/ (marker'[r] > 0 /\ r \in bodies')
    BY DEF BodyNeverLost, Present
  <2>5. CASE r \in held[j] BY <2>1, <2>2, <2>3, <2>4, <2>5 DEF Present
  <2>6. CASE r \notin held[j] BY <2>2, <2>3, <2>4, <2>6 DEF BodyNeverLost, Present
  <2> QED BY <2>5, <2>6
<1> QED BY <1>1, <1>2, <1>3, <1>4, <1>5, <1>6, <1>7, <1>8, <1>9 DEF IInv

LEMMA KeepsListFiles ==
  ASSUME ~Overlap, IInv, "serve" \in Jobs, ListFiles
  PROVE  IInv'
<1> USE ArchiveAssumption DEF IInv, vars, hotVars, fileVars, timeVars, localVars
<1>1. TypeOK'
  <2>1. gc' \in [known : SUBSET Days, day : Days \cup {NoPass.day}]
    <3>1. DaysOf(Archived) \in SUBSET Days BY DEF DaysOf, Archived, Days
    <3> QED BY <3>1 DEF TypeOK, ListFiles
  <2>2. /\ pc' \in [Jobs -> Phases]
        /\ held' \in [Jobs -> SUBSET Requests]
        /\ days' \in [Jobs -> SUBSET Days]
    BY DEF TypeOK, ListFiles, Goto, Phases
  <2>3. "restore" \in Jobs => (cur' \in Requests <=> pc'["restore"] \in {"put", "drop", "unmark"})
    BY DEF TypeOK, ListFiles, Goto
  <2> QED BY <2>1, <2>2, <2>3 DEF TypeOK, ListFiles, HasTable
<1>2. Alone' BY DEF Alone, ListFiles, Goto
<1>3. Archivers' BY DEF Archivers, ListFiles, Goto
<1>4. Batches' BY DEF Batches, Present, ListFiles, Goto
<1>5. Purges' BY DEF Purges, Present, ListFiles, Goto
<1>6. Restores' BY DEF Restores, Present, ListFiles, Goto
<1>7. Sweeps' BY DEF Sweeps, ListFiles, Goto
<1>8. OneMarker' BY DEF OneMarker, ListFiles
<1>9. BodyNeverLost' BY DEF BodyNeverLost, Present, ListFiles
<1> QED BY <1>1, <1>2, <1>3, <1>4, <1>5, <1>6, <1>7, <1>8, <1>9 DEF IInv

LEMMA KeepsOpenFile ==
  ASSUME ~Overlap, IInv, "serve" \in Jobs, OpenFile
  PROVE  IInv'
<1> USE ArchiveAssumption DEF IInv, vars, hotVars, fileVars, timeVars, localVars
<1>1. TypeOK' BY DEF TypeOK, HasTable, Phases, OpenFile, Goto, OnDay, Archived
<1>2. Alone' BY DEF Alone, OpenFile, Goto
<1>3. Archivers' BY DEF Archivers, OpenFile, Goto
<1>4. Batches' BY DEF Batches, Present, OpenFile, Goto
<1>5. Purges' BY DEF Purges, Present, OpenFile, Goto
<1>6. Restores' BY DEF Restores, Present, OpenFile, Goto
<1>7. Sweeps' BY DEF Sweeps, TypeOK, Present, OpenFile, Goto, OnDay, Archived
<1>8. OneMarker' BY DEF OneMarker, OpenFile
<1>9. BodyNeverLost' BY DEF BodyNeverLost, Present, OpenFile
<1> QED BY <1>1, <1>2, <1>3, <1>4, <1>5, <1>6, <1>7, <1>8, <1>9 DEF IInv

LEMMA KeepsSweep ==
  ASSUME ~Overlap, IInv, "serve" \in Jobs, Sweep
  PROVE  IInv'
<1> USE ArchiveAssumption DEF IInv, vars, hotVars, fileVars, timeVars, localVars
<1>1. TypeOK'
  BY DEF TypeOK, HasTable, Phases, Sweep, SweepFile, EndPass, Goto, OnDay, NoPass
<1>2. Alone' BY DEF Alone, TypeOK, Sweep, EndPass, Goto
<1>3. Archivers' BY DEF Archivers, TypeOK, Sweep, EndPass, Goto
<1>4. Batches' BY DEF Batches, TypeOK, Alone, Archivers, Sweep, EndPass, Goto
<1>5. Purges' BY DEF Purges, TypeOK, Present, Sweep, EndPass, Goto
<1>6. Restores' BY DEF Restores, TypeOK, Present, Sweep, EndPass, Goto
<1>7. Sweeps' BY DEF Sweeps, TypeOK, Sweep, EndPass, Goto
<1>8. OneMarker' BY DEF OneMarker, Sweep
<1>9. BodyNeverLost' BY DEF BodyNeverLost, Present, Sweeps, Sweep, SweepFile, OnDay, Orphans
<1> QED BY <1>1, <1>2, <1>3, <1>4, <1>5, <1>6, <1>7, <1>8, <1>9 DEF IInv

LEMMA KeepsPassDone ==
  ASSUME ~Overlap, IInv, "serve" \in Jobs, PassDone
  PROVE  IInv'
<1> USE ArchiveAssumption DEF IInv, vars, hotVars, fileVars, timeVars, localVars
<1>1. TypeOK' BY DEF TypeOK, HasTable, Phases, PassDone, EndPass, Goto, NoPass
<1>2. Alone' BY DEF Alone, PassDone, EndPass, Goto
<1>3. Archivers' BY DEF Archivers, PassDone, EndPass, Goto
<1>4. Batches' BY DEF Batches, Present, PassDone, EndPass, Goto
<1>5. Purges' BY DEF Purges, Present, PassDone, EndPass, Goto
<1>6. Restores' BY DEF Restores, Present, PassDone, EndPass, Goto
<1>7. Sweeps' BY DEF Sweeps, PassDone, EndPass, Goto
<1>8. OneMarker' BY DEF OneMarker, PassDone
<1>9. BodyNeverLost' BY DEF BodyNeverLost, Present, PassDone
<1> QED BY <1>1, <1>2, <1>3, <1>4, <1>5, <1>6, <1>7, <1>8, <1>9 DEF IInv

LEMMA KeepsStartRestore ==
  ASSUME ~Overlap, IInv, StartRestore
  PROVE  IInv'
<1> USE ArchiveAssumption DEF IInv, vars, hotVars, fileVars, timeVars, localVars
<1>1. TypeOK' BY DEF TypeOK, HasTable, Phases, StartRestore, Restoring, Goto
<1>2. Alone' BY DEF Alone, StartRestore, Goto
<1>3. Archivers' BY DEF Archivers, StartRestore, Goto
<1>4. Batches' BY DEF Batches, TypeOK, Present, StartRestore, Goto
<1>5. Purges' BY DEF Purges, Present, StartRestore, Goto
<1>6. Restores' BY DEF Restores, TypeOK, Present, OneMarker, StartRestore, Restoring
<1>7. Sweeps' BY DEF Sweeps, Present, StartRestore, Goto
<1>8. OneMarker' BY DEF OneMarker, StartRestore
<1>9. BodyNeverLost' BY DEF BodyNeverLost, Present, StartRestore
<1> QED BY <1>1, <1>2, <1>3, <1>4, <1>5, <1>6, <1>7, <1>8, <1>9 DEF IInv

LEMMA KeepsLoadBody ==
  ASSUME ~Overlap, IInv, LoadBody
  PROVE  IInv'
<1> USE ArchiveAssumption DEF IInv, vars, hotVars, fileVars, timeVars, localVars
<1>1. TypeOK' BY DEF TypeOK, HasTable, Phases, NoRequest, LoadBody, EndRestore, Goto, Opened
<1>2. Alone' BY DEF Alone, TypeOK, LoadBody, EndRestore, Goto
<1>3. Archivers' BY DEF Archivers, TypeOK, LoadBody, EndRestore, Goto
<1>4. Batches'
  <2>1. \A i \in Jobs : pc'[i] = "days" =>
          pc[i] = "days" /\ held'[i] = held[i] /\ days'[i] = days[i]
    BY DEF TypeOK, LoadBody, Restoring, Goto, EndRestore
  <2> QED BY <2>1 DEF Batches, LoadBody, Present
<1>5. Purges'
  <2>1. \A i \in Jobs : pc'[i] = "purged" => pc[i] = "purged" /\ held'[i] = held[i]
    BY DEF TypeOK, LoadBody, Restoring, Goto, EndRestore
  <2> QED BY <2>1 DEF Purges, LoadBody, Present
<1>6. Restores' BY DEF Restores, TypeOK, Present, NoRequest, LoadBody, EndRestore, Goto
<1>7. Sweeps'
  <2>1. "serve" \in Jobs => pc'["serve"] = pc["serve"] /\ held'["serve"] = held["serve"]
    BY DEF TypeOK, LoadBody, Restoring, Goto, EndRestore
  <2> QED BY <2>1 DEF Sweeps, LoadBody, Present
<1>8. OneMarker' BY DEF OneMarker, LoadBody
<1>9. BodyNeverLost' BY DEF BodyNeverLost, Present, LoadBody
<1> QED BY <1>1, <1>2, <1>3, <1>4, <1>5, <1>6, <1>7, <1>8, <1>9 DEF IInv

LEMMA KeepsPutBack ==
  ASSUME ~Overlap, IInv, PutBack
  PROVE  IInv'
<1> USE ArchiveAssumption DEF IInv, vars, hotVars, fileVars, timeVars, localVars
<1>1. TypeOK' BY DEF TypeOK, HasTable, Phases, PutBack, Restoring, Goto
<1>2. Alone' BY DEF Alone, PutBack, Goto
<1>3. Archivers' BY DEF Archivers, PutBack, Goto
<1>4. Batches' BY DEF Batches, TypeOK, Present, PutBack, Goto
<1>5. Purges' BY DEF Purges, Present, PutBack, Goto
<1>6. Restores' BY DEF Restores, TypeOK, Present, PutBack
<1>7. Sweeps' BY DEF Sweeps, Present, PutBack, Goto
<1>8. OneMarker' BY DEF OneMarker, PutBack
<1>9. BodyNeverLost' BY DEF BodyNeverLost, Present, PutBack
<1> QED BY <1>1, <1>2, <1>3, <1>4, <1>5, <1>6, <1>7, <1>8, <1>9 DEF IInv

LEMMA KeepsDropDayRow ==
  ASSUME ~Overlap, IInv, DropDayRow
  PROVE  IInv'
<1> USE ArchiveAssumption DEF IInv, vars, hotVars, fileVars, timeVars, localVars
<1>1. TypeOK'
  BY DEF TypeOK, HasTable, Phases, NoRequest, DropDayRow, Restoring, EndRestore, Goto, Opened
<1>2. Alone' BY DEF Alone, TypeOK, DropDayRow, EndRestore, Goto
<1>3. Archivers' BY DEF Archivers, TypeOK, DropDayRow, EndRestore, Goto
<1>4. Batches'
  <2>1. \A i \in Jobs : pc'[i] = "days" =>
          pc[i] = "days" /\ held'[i] = held[i] /\ days'[i] = days[i]
    BY DEF TypeOK, DropDayRow, Restoring, Goto, EndRestore
  <2>2. cur \in Present => marker[cur] > 0 BY DEF Restores
  <2>3. hot' = hot /\ marker' = marker /\ Present' = Present /\ bodies' = bodies \ {cur}
    BY DEF DropDayRow, Present
  <2> SUFFICES ASSUME NEW i \in Jobs, pc'[i] = "days", NEW r \in held'[i]
               PROVE  /\ marker'[r] = 0
                      /\ hot'[r] # "null"
                      /\ r \in Present' => Day[r] \in days'[i] \/ r \in bodies'
    BY DEF Batches
  <2>4. marker[r] = 0 /\ hot[r] # "null" /\ (r \in Present =>
          Day[r] \in days[i] \/ r \in bodies)
    BY <2>1 DEF Batches
  <2> QED BY <2>1, <2>2, <2>3, <2>4
<1>5. Purges'
  <2>1. \A i \in Jobs : pc'[i] = "purged" => pc[i] = "purged" /\ held'[i] = held[i]
    BY DEF TypeOK, DropDayRow, Restoring, Goto, EndRestore
  <2> QED BY <2>1 DEF Purges, DropDayRow, Present
<1>6. Restores' BY DEF Restores, Present, NoRequest, DropDayRow, Restoring, EndRestore
<1>7. Sweeps' BY DEF Sweeps, TypeOK, Present, DropDayRow, EndRestore, Goto
<1>8. OneMarker' BY DEF OneMarker, DropDayRow
<1>9. BodyNeverLost' BY DEF BodyNeverLost, Present, Restores, DropDayRow, Restoring
<1> QED BY <1>1, <1>2, <1>3, <1>4, <1>5, <1>6, <1>7, <1>8, <1>9 DEF IInv

LEMMA KeepsUnmark ==
  ASSUME ~Overlap, IInv, Unmark
  PROVE  IInv'
<1> USE ArchiveAssumption DEF IInv, vars, hotVars, fileVars, timeVars, localVars
<1>1. TypeOK' BY ZenonT(40) DEF TypeOK, HasTable, Phases, NoRequest, Unmark, Goto
<1>2. Alone' BY DEF Alone, Unmark, Goto
<1>3. Archivers' BY DEF Archivers, Unmark, Goto
<1>4. Batches' BY DEF Batches, TypeOK, Present, Unmark, Goto
<1>5. Purges' BY DEF Purges, Present, Unmark, Goto
<1>6. Restores' BY DEF Restores, Present, NoRequest, Unmark
<1>7. Sweeps' BY DEF Sweeps, Present, Unmark, Goto
<1>8. OneMarker' BY DEF OneMarker, Unmark
<1>9. BodyNeverLost' BY DEF BodyNeverLost, Present, Restores, Unmark, Restoring
<1> QED BY <1>1, <1>2, <1>3, <1>4, <1>5, <1>6, <1>7, <1>8, <1>9 DEF IInv

LEMMA KeepsRestoreDone ==
  ASSUME ~Overlap, IInv, RestoreDone
  PROVE  IInv'
<1> USE ArchiveAssumption DEF IInv, vars, hotVars, fileVars, timeVars, localVars
<1>1. TypeOK' BY ZenonT(40) DEF TypeOK, HasTable, Phases, NoRequest, RestoreDone, EndRestore, Goto
<1>2. Alone' BY DEF Alone, RestoreDone, EndRestore, Goto
<1>3. Archivers' BY DEF Archivers, RestoreDone, EndRestore, Goto
<1>4. Batches' BY DEF Batches, TypeOK, Present, RestoreDone, EndRestore, Goto
<1>5. Purges' BY DEF Purges, Present, RestoreDone, EndRestore, Goto
<1>6. Restores' BY DEF Restores, Present, NoRequest, RestoreDone, EndRestore
<1>7. Sweeps' BY DEF Sweeps, Present, RestoreDone, EndRestore, Goto
<1>8. OneMarker' BY DEF OneMarker, RestoreDone
<1>9. BodyNeverLost' BY DEF BodyNeverLost, Present, RestoreDone
<1> QED BY <1>1, <1>2, <1>3, <1>4, <1>5, <1>6, <1>7, <1>8, <1>9 DEF IInv

LEMMA KeepsReadRow ==
  ASSUME ~Overlap, IInv, ReadRow
  PROVE  IInv'
<1> USE ArchiveAssumption DEF IInv, vars, hotVars, fileVars, timeVars, localVars
<1>1. TypeOK'
  <2>1. read' \in [phase : {"row", "marker", "day"}, id : Requests \cup {NoRequest},
                   row : {"body", "null", "gone"}, restored : BOOLEAN, empty : BOOLEAN]
    BY ZenonT(40) DEF TypeOK, ReadRow, NoRead, Present
  <2> QED BY <2>1 DEF TypeOK, ReadRow, HasTable
<1>2. Alone' BY DEF Alone, ReadRow
<1>3. Archivers' BY DEF Archivers, ReadRow
<1>4. Batches' BY DEF Batches, Present, ReadRow
<1>5. Purges' BY DEF Purges, Present, ReadRow
<1>6. Restores' BY DEF Restores, Present, ReadRow
<1>7. Sweeps' BY DEF Sweeps, Present, ReadRow
<1>8. OneMarker' BY DEF OneMarker, ReadRow
<1>9. BodyNeverLost' BY DEF BodyNeverLost, Present, ReadRow
<1> QED BY <1>1, <1>2, <1>3, <1>4, <1>5, <1>6, <1>7, <1>8, <1>9 DEF IInv

LEMMA KeepsReadMarker ==
  ASSUME ~Overlap, IInv, ReadMarker
  PROVE  IInv'
<1> USE ArchiveAssumption DEF IInv, vars, hotVars, fileVars, timeVars, localVars
<1>1. TypeOK'
  <2>1. read' \in [phase : {"row", "marker", "day"}, id : Requests \cup {NoRequest},
                    row : {"body", "null", "gone"}, restored : BOOLEAN, empty : BOOLEAN]
    <3>1. CASE marker[read.id] > 0
      BY <3>1 DEF TypeOK, ReadMarker
    <3>2. CASE ~(marker[read.id] > 0)
      BY <3>2, ReadTypes DEF ReadMarker, RowSays
    <3> QED BY <3>1, <3>2
  <2> QED BY <2>1 DEF TypeOK, ReadMarker, HasTable
<1>2. Alone' BY DEF Alone, ReadMarker
<1>3. Archivers' BY DEF Archivers, ReadMarker
<1>4. Batches' BY DEF Batches, Present, ReadMarker
<1>5. Purges' BY DEF Purges, Present, ReadMarker
<1>6. Restores' BY DEF Restores, Present, ReadMarker
<1>7. Sweeps' BY DEF Sweeps, Present, ReadMarker
<1>8. OneMarker' BY DEF OneMarker, ReadMarker
<1>9. BodyNeverLost' BY DEF BodyNeverLost, Present, ReadMarker
<1> QED BY <1>1, <1>2, <1>3, <1>4, <1>5, <1>6, <1>7, <1>8, <1>9 DEF IInv

LEMMA KeepsReadDay ==
  ASSUME ~Overlap, IInv, ReadDay
  PROVE  IInv'
<1> USE ArchiveAssumption DEF IInv, vars, hotVars, fileVars, timeVars, localVars
<1>1. TypeOK'
  <2>1. read' \in [phase : {"row", "marker", "day"}, id : Requests \cup {NoRequest},
                    row : {"body", "null", "gone"}, restored : BOOLEAN, empty : BOOLEAN]
    BY ReadTypes DEF ReadDay, RowSays
  <2>2. /\ file' \in [Days -> {"absent", "bare", "bodies"}]
        /\ bodies' \subseteq {r \in Requests : HasTable(Day[r])'}
    BY DEF TypeOK, ReadDay, Opened, HasTable
  <2> QED BY <2>1, <2>2 DEF TypeOK, ReadDay
<1>2. Alone' BY DEF Alone, ReadDay
<1>3. Archivers' BY DEF Archivers, ReadDay
<1>4. Batches' BY DEF Batches, Present, ReadDay
<1>5. Purges' BY DEF Purges, Present, ReadDay
<1>6. Restores' BY DEF Restores, Present, ReadDay
<1>7. Sweeps' BY DEF Sweeps, Present, ReadDay
<1>8. OneMarker' BY DEF OneMarker, ReadDay
<1>9. BodyNeverLost' BY DEF BodyNeverLost, Present, ReadDay
<1> QED BY <1>1, <1>2, <1>3, <1>4, <1>5, <1>6, <1>7, <1>8, <1>9 DEF IInv

LEMMA KeepsAge ==
  ASSUME ~Overlap, IInv, Age
  PROVE  IInv'
<1> USE ArchiveAssumption DEF IInv, vars, hotVars, fileVars, timeVars, localVars
<1>1. TypeOK' BY DEF TypeOK, HasTable, Age
<1>2. Alone' BY DEF Alone, Age
<1>3. Archivers' BY DEF Archivers, Age
<1>4. Batches' BY DEF Batches, Present, Age
<1>5. Purges' BY DEF Purges, Present, Age
<1>6. Restores' BY DEF Restores, Present, Age
<1>7. Sweeps' BY DEF Sweeps, Present, Age
<1>8. OneMarker' BY DEF OneMarker, Age
<1>9. BodyNeverLost' BY DEF BodyNeverLost, Present, Age
<1> QED BY <1>1, <1>2, <1>3, <1>4, <1>5, <1>6, <1>7, <1>8, <1>9 DEF IInv

LEMMA KeepsInterrupt ==
  ASSUME ~Overlap, IInv, NEW j \in Jobs, Interrupt(j)
  PROVE  IInv'
<1> USE ArchiveAssumption DEF IInv, vars, hotVars, fileVars, timeVars, localVars
<1>1. TypeOK' BY DEF TypeOK, HasTable, Phases, NoRequest, Interrupt, Goto, NoPass
<1>2. Alone' BY DEF Alone, Interrupt, Goto
<1>3. Archivers' BY DEF Archivers, Interrupt, Goto
<1>4. Batches' BY DEF Batches, TypeOK, Present, Interrupt, Goto
<1>5. Purges' BY DEF Purges, Present, Interrupt, Goto
<1>6. Restores' BY DEF Restores, Present, NoRequest, Interrupt, Goto
<1>7. Sweeps' BY DEF Sweeps, TypeOK, Present, Interrupt, Goto
<1>8. OneMarker' BY DEF OneMarker, Interrupt
<1>9. BodyNeverLost' BY DEF BodyNeverLost, Present, Interrupt
<1> QED BY <1>1, <1>2, <1>3, <1>4, <1>5, <1>6, <1>7, <1>8, <1>9 DEF IInv

LEMMA KeepsStutter ==
  ASSUME ~Overlap, IInv, UNCHANGED vars
  PROVE  IInv'
<1> USE ArchiveAssumption DEF IInv, vars, hotVars, fileVars, timeVars, localVars
<1>1. TypeOK' BY DEF TypeOK, HasTable
<1>2. Alone' BY DEF Alone
<1>3. Archivers' BY DEF Archivers
<1>4. Batches' BY DEF Batches, Present
<1>5. Purges' BY DEF Purges, Present
<1>6. Restores' BY DEF Restores, Present
<1>7. Sweeps' BY DEF Sweeps, Present
<1>8. OneMarker' BY DEF OneMarker
<1>9. BodyNeverLost' BY DEF BodyNeverLost, Present
<1> QED BY <1>1, <1>2, <1>3, <1>4, <1>5, <1>6, <1>7, <1>8, <1>9 DEF IInv

(***************************************************************************)
(* The invariant holds.                                                    *)
(***************************************************************************)

LEMMA InitIInv ==
  ASSUME Init
  PROVE  IInv
<1> USE ArchiveAssumption DEF Init
<1>1. TypeOK
  <2>1. NoPass \in [known : SUBSET Days, day : Days \cup {NoPass.day}]
    BY DEF NoPass
  <2>2. NoRead \in [phase : {"row", "marker", "day"}, id : Requests \cup {NoRequest},
                    row : {"body", "null", "gone"}, restored : BOOLEAN, empty : BOOLEAN]
    BY DEF NoRead
  <2> QED BY <2>1, <2>2 DEF TypeOK, Phases, NoRequest
<1>2. Alone /\ Archivers /\ Batches /\ Purges /\ Sweeps
  BY DEF Alone, Archivers, Batches, Purges, Sweeps
<1>3. Restores
  BY DEF Restores, NoRequest, Present
<1>4. OneMarker /\ BodyNeverLost
  BY DEF OneMarker, BodyNeverLost, Present
<1> QED BY <1>1, <1>2, <1>3, <1>4 DEF IInv

LEMMA NextIInv ==
  ASSUME ~Overlap, IInv, [Next]_vars
  PROVE  IInv'
<1>1. CASE StartPass
  <2>1. PICK k \in Cutoffs \cup {0} : PurgeRows("serve", {r \in Requests : r < k})
    BY <1>1 DEF StartPass
  <2> QED BY <1>1, <2>1, KeepsPurgeRows DEF StartPass
<1>2. CASE StartRun BY <1>2, KeepsStartRun
<1>3. CASE Purge
  <2>1. PICK S \in Selections : PurgeRows("purge", S) BY <1>3 DEF Purge
  <2>2. S \in SUBSET Requests BY ArchiveAssumption DEF Selections
  <2> QED BY <1>3, <2>1, <2>2, KeepsPurgeRows DEF Purge
<1>4. CASE StartRestore BY <1>4, KeepsStartRestore
<1>5. CASE ReadRow BY <1>5, KeepsReadRow
<1>6. CASE Age BY <1>6, KeepsAge
<1>7. ASSUME NEW j \in Jobs, PurgeSteps(j) PROVE IInv'
  BY <1>7, KeepsDeleteDayRows, KeepsPurgeDone DEF PurgeSteps
<1>8. ASSUME NEW j \in Jobs, ArchiveSteps(j) PROVE IInv'
  BY <1>8, KeepsSelectBatch, KeepsWriteDay, KeepsCommitHot DEF ArchiveSteps
<1>9. CASE CollectSteps
  BY <1>9, KeepsListFiles, KeepsOpenFile, KeepsSweep, KeepsPassDone DEF CollectSteps
<1>10. CASE RestoreSteps
  BY <1>10, KeepsLoadBody, KeepsPutBack, KeepsDropDayRow, KeepsUnmark, KeepsRestoreDone
     DEF RestoreSteps
<1>11. ASSUME NEW j \in Jobs, Interrupt(j) PROVE IInv'
  BY <1>11, KeepsInterrupt
<1>12. CASE ReadSteps
  BY <1>12, KeepsReadMarker, KeepsReadDay DEF ReadSteps
<1>13. CASE UNCHANGED vars
  BY <1>13, KeepsStutter
<1> QED
  BY <1>1, <1>2, <1>3, <1>4, <1>5, <1>6, <1>7, <1>8, <1>9, <1>10, <1>11, <1>12, <1>13
     DEF Next, Continue

LEMMA Invariance ==
  ASSUME ~Overlap
  PROVE  Spec => []IInv
<1>1. Init => IInv BY InitIInv
<1>2. IInv /\ [Next]_vars => IInv' BY NextIInv
<1> QED BY <1>1, <1>2, PTL DEF Spec

\* Every variable of the archive keeps its type, the rows of bodies are in files
\* that have the table, and a restore knows its request as long as it needs it.
THEOREM ArchiveTypeCorrect ==
  ASSUME ~Overlap
  PROVE  Spec => []TypeOK
<1>1. IInv => TypeOK BY DEF IInv
<1> QED BY <1>1, Invariance, PTL

\* While one archive loop runs at a time, no interleaving of the archiver, the
\* collector, the restore, the purges and the reads, and no interruption between
\* two of their transactions, loses the body of a request that was not purged.
THEOREM NoBodyIsLost ==
  ASSUME ~Overlap
  PROVE  Spec => []BodyNeverLost
<1>1. IInv => BodyNeverLost BY DEF IInv
<1> QED BY <1>1, Invariance, PTL

\* No request gets a second marker row from the archive loops, although
\* body_archive has no key that would refuse it.
THEOREM NoSecondMarker ==
  ASSUME ~Overlap
  PROVE  Spec => []OneMarker
<1>1. IInv => OneMarker BY DEF IInv
<1> QED BY <1>1, Invariance, PTL

(***************************************************************************)
(* A read against the jobs.  None of its three queries sees the body only  *)
(* when the body was put back between them, or the request purged.         *)
(***************************************************************************)

\* What a read under way knows of its request still stands, as long as no restore
\* came between: a row it saw without a body has not got one since.
ReadStands ==
  read.phase # "row" =>
    /\ read.id \in Requests
    /\ ~read.empty
    /\ read.row \in {"body", "null"}
    /\ read.row = "null" /\ ~read.restored => hot[read.id] # "body"

\* The inductive invariant of a read, on top of IInv.
ReadInv ==
  /\ ReadStands
  /\ read.empty => read.id \in Requests
  /\ ReadsHydrate

\* A body comes back to the hot row by a restore only, and nothing else but the
\* read's own queries moves the read.
LEMMA OnlyRestoresPutBack ==
  ASSUME TypeOK, [Next]_vars
  PROVE  \/ /\ read' = read
            /\ \A r \in Requests : /\ hot'[r] = "body" => hot[r] = "body"
                                   /\ hot[r] = "gone" => hot'[r] = "gone"
         \/ PutBack \/ ReadRow \/ ReadMarker \/ ReadDay
<1> USE DEF vars, hotVars, fileVars, timeVars, localVars
<1>1. CASE StartPass BY <1>1 DEF StartPass, PurgeRows
<1>2. CASE Purge BY <1>2 DEF Purge, PurgeRows
<1>3. CASE StartRun \/ StartRestore \/ Age BY <1>3 DEF StartRun, StartRestore, Age
<1>4. ASSUME NEW j \in Jobs, PurgeSteps(j) PROVE read' = read /\ hot' = hot
  BY <1>4 DEF PurgeSteps, DeleteDayRows, PurgeDone
<1>5. ASSUME NEW j \in Jobs, SelectBatch(j) \/ WriteDay(j) PROVE read' = read /\ hot' = hot
  BY <1>5 DEF SelectBatch, WriteDay
<1>6. ASSUME NEW j \in Jobs, CommitHot(j)
      PROVE  /\ read' = read
             /\ \A r \in Requests : /\ hot'[r] = "body" => hot[r] = "body"
                                    /\ hot[r] = "gone" => hot'[r] = "gone"
  BY <1>6 DEF CommitHot, Present
<1>7. CASE CollectSteps
  BY <1>7 DEF CollectSteps, ListFiles, OpenFile, Sweep, PassDone
<1>8. CASE LoadBody \/ DropDayRow \/ Unmark \/ RestoreDone
  BY <1>8 DEF LoadBody, DropDayRow, Unmark, RestoreDone
<1>9. ASSUME NEW j \in Jobs, Interrupt(j) PROVE read' = read /\ hot' = hot
  BY <1>9 DEF Interrupt
<1>10. CASE UNCHANGED vars BY <1>10
<1> QED
  BY <1>1, <1>2, <1>3, <1>4, <1>5, <1>6, <1>7, <1>8, <1>9, <1>10
     DEF Next, Continue, ArchiveSteps, RestoreSteps, ReadSteps

\* A read that ends without a body, of a request whose row it saw without one,
\* while nothing put it back: the request is gone, or a copy would be lost.
LEMMA FindsNone ==
  ASSUME TypeOK, BodyNeverLost, ReadInv, read.phase # "row", hot' = hot,
         marker[read.id] = 0 \/ read.id \notin bodies,
         RowSays
  PROVE  ReadInv'
<1>1. read.id \in Requests /\ read.row \in {"body", "null"} BY DEF ReadInv, ReadStands
<1>2. read \in [phase : {"row", "marker", "day"}, id : Requests \cup {NoRequest},
                row : {"body", "null", "gone"}, restored : BOOLEAN, empty : BOOLEAN]
  BY DEF TypeOK
<1>3. CASE read.row = "body"
  BY <1>3 DEF RowSays, Found, NoRead, ReadInv, ReadStands, ReadsHydrate
<1>4. CASE read.row = "null"
  <2>1. hot[read.id] = "gone" \/ read.restored
    <3>1. hot[read.id] \in {"body", "null", "gone"} /\ marker[read.id] \in Nat
      BY <1>1 DEF TypeOK
    <3>2. ~read.restored => hot[read.id] # "body" BY <1>4 DEF ReadInv, ReadStands
    <3>3. hot[read.id] # "gone" => hot[read.id] = "body" \/ (marker[read.id] > 0 /\ read.id \in bodies)
      BY <1>1 DEF BodyNeverLost, Present
    <3> QED BY <3>1, <3>2, <3>3
  <2>2. /\ read'.phase = "row" /\ read'.id = read.id
        /\ read'.restored = read.restored /\ read'.empty = TRUE
    BY <1>2, <1>4 DEF RowSays, FoundNone
  <2> QED BY <1>1, <2>1, <2>2 DEF ReadInv, ReadStands, ReadsHydrate
<1> QED BY <1>1, <1>3, <1>4

LEMMA NextReadInv ==
  ASSUME TypeOK, BodyNeverLost, ReadInv, [Next]_vars
  PROVE  ReadInv'
<1> DEFINE Reads == [phase : {"row", "marker", "day"}, id : Requests \cup {NoRequest},
                     row : {"body", "null", "gone"}, restored : BOOLEAN, empty : BOOLEAN]
<1>0. read \in Reads BY DEF TypeOK
<1>1. ASSUME read' = read,
             \A r \in Requests : /\ hot'[r] = "body" => hot[r] = "body"
                                 /\ hot[r] = "gone" => hot'[r] = "gone"
      PROVE  ReadInv'
  BY <1>1 DEF ReadInv, ReadStands, ReadsHydrate
<1>2. CASE PutBack
  <2>1. cur \in Requests BY <1>2 DEF PutBack, Restoring, TypeOK
  <2>2. /\ read'.phase = read.phase /\ read'.id = read.id
        /\ read'.row = read.row /\ read'.empty = read.empty
        /\ read'.restored = (read.restored \/ (read.id = cur /\ read.phase # "row"))
    BY <1>0, <1>2 DEF PutBack
  <2>3. \A r \in Requests : /\ hot[r] = "gone" => hot'[r] = "gone"
                            /\ r # cur => hot'[r] = hot[r]
    BY <1>2, <2>1 DEF PutBack, TypeOK
  <2>4. ReadStands' BY <2>1, <2>2, <2>3 DEF ReadInv, ReadStands
  <2>5. read'.empty => read'.id \in Requests /\ (hot'[read'.id] = "gone" \/ read'.restored)
    BY <2>2, <2>3 DEF ReadInv, ReadsHydrate
  <2> QED BY <2>4, <2>5 DEF ReadInv, ReadsHydrate
<1>3. CASE ReadRow
  <2>1. PICK r \in Present :
          read' = [NoRead EXCEPT !.phase = "marker", !.id = r, !.row = hot[r]]
    BY <1>3 DEF ReadRow
  <2>2. r \in Requests /\ hot[r] \in {"body", "null"} BY DEF Present, TypeOK
  <2>3. hot' = hot BY <1>3 DEF ReadRow, hotVars
  <2>4. /\ read'.phase = "marker" /\ read'.id = r /\ read'.row = hot[r]
        /\ read'.restored = FALSE /\ read'.empty = FALSE
    BY <2>1 DEF NoRead
  <2> QED BY <2>2, <2>3, <2>4 DEF ReadInv, ReadStands, ReadsHydrate
<1>4. CASE ReadMarker
  <2>1. hot' = hot /\ read.phase = "marker" BY <1>4 DEF ReadMarker, hotVars, Reading
  <2>2. CASE marker[read.id] > 0
    <3>1. /\ read'.phase = "day" /\ read'.id = read.id /\ read'.row = read.row
          /\ read'.restored = read.restored /\ read'.empty = read.empty
      BY <1>0, <1>4, <2>2 DEF ReadMarker
    <3> QED BY <2>1, <3>1 DEF ReadInv, ReadStands, ReadsHydrate
  <2>3. CASE ~(marker[read.id] > 0)
    <3>1. marker[read.id] = 0 BY <2>1, <2>3 DEF ReadInv, ReadStands, TypeOK
    <3>2. RowSays BY <1>4, <2>3 DEF ReadMarker
    <3> QED BY <2>1, <3>1, <3>2, FindsNone
  <2> QED BY <2>2, <2>3
<1>5. CASE ReadDay
  <2>1. hot' = hot /\ read.phase = "day" BY <1>5 DEF ReadDay, hotVars, Reading
  <2>2. CASE read.id \in bodies \/ ~HasTable(Day[read.id])
    <3>1. read' = NoRead BY <1>5, <2>2 DEF ReadDay, Found
    <3> QED BY <3>1 DEF NoRead, ReadInv, ReadStands, ReadsHydrate
  <2>3. CASE ~(read.id \in bodies \/ ~HasTable(Day[read.id]))
    <3>1. RowSays BY <1>5, <2>3 DEF ReadDay
    <3> QED BY <2>1, <2>3, <3>1, FindsNone
  <2> QED BY <2>2, <2>3
<1> QED BY <1>1, <1>2, <1>3, <1>4, <1>5, OnlyRestoresPutBack

\* A read of a request that was neither purged nor put back in the meantime never
\* comes back without the body, wherever the archiver, the collector and the
\* restore are between its three queries: archiving alone hides nothing.
THEOREM NoReadComesBackEmpty ==
  ASSUME ~Overlap
  PROVE  Spec => []ReadsHydrate
<1>1. Init => ReadInv
  BY DEF Init, NoRead, ReadInv, ReadStands, ReadsHydrate
<1>2. IInv /\ ReadInv /\ [Next]_vars => ReadInv'
  BY NextReadInv DEF IInv
<1>3. ReadInv => ReadsHydrate BY DEF ReadInv
<1> QED BY <1>1, <1>2, <1>3, Invariance, PTL DEF Spec

(***************************************************************************)
(* Archive implements BodyStore.                                           *)
(***************************************************************************)

\* No step touches a hot row and a day row at once, and only a purge deletes a row.
LEMMA OneSideAtATime ==
  ASSUME TypeOK, [Next]_vars
  PROVE  \/ Present' = Present /\ (hot' = hot \/ bodies' = bodies)
         \/ \E S \in SUBSET Requests :
              /\ hot' = [r \in Requests |-> IF r \in S THEN "gone" ELSE hot[r]]
              /\ bodies' = bodies
<1> USE DEF vars, hotVars, fileVars, timeVars, localVars
<1>1. CASE StartPass BY <1>1 DEF StartPass, PurgeRows
<1>2. CASE Purge
  <2>1. PICK S \in Selections : PurgeRows("purge", S) BY <1>2 DEF Purge
  <2>2. S \in SUBSET Requests BY ArchiveAssumption DEF Selections
  <2> QED BY <2>1, <2>2 DEF PurgeRows
<1>3. CASE StartRun \/ StartRestore \/ Age BY <1>3 DEF StartRun, StartRestore, Age, Present
<1>4. CASE ReadRow \/ ReadSteps
  BY <1>4 DEF ReadRow, ReadSteps, ReadMarker, ReadDay, Present
<1>5. ASSUME NEW j \in Jobs, PurgeSteps(j)
      PROVE  Present' = Present /\ (hot' = hot \/ bodies' = bodies)
  BY <1>5 DEF PurgeSteps, DeleteDayRows, PurgeDone, Present
<1>6. ASSUME NEW j \in Jobs, ArchiveSteps(j)
      PROVE  Present' = Present /\ (hot' = hot \/ bodies' = bodies)
  <2>1. CASE SelectBatch(j) \/ WriteDay(j)
    BY <2>1 DEF SelectBatch, WriteDay, Present
  <2>2. CASE CommitHot(j)
    BY <2>2 DEF CommitHot, Present
  <2> QED BY <1>6, <2>1, <2>2 DEF ArchiveSteps
<1>7. CASE CollectSteps
  BY <1>7 DEF CollectSteps, ListFiles, OpenFile, Sweep, PassDone, Present
<1>8. CASE RestoreSteps
  <2>1. CASE LoadBody \/ DropDayRow \/ Unmark \/ RestoreDone
    BY <2>1 DEF LoadBody, DropDayRow, Unmark, RestoreDone, Present
  <2>2. CASE PutBack
    BY <2>2 DEF PutBack, Present, TypeOK
  <2> QED BY <1>8, <2>1, <2>2 DEF RestoreSteps
<1>9. ASSUME NEW j \in Jobs, Interrupt(j)
      PROVE  Present' = Present /\ (hot' = hot \/ bodies' = bodies)
  BY <1>9 DEF Interrupt, Present
<1>10. CASE UNCHANGED vars BY <1>10 DEF Present
<1> QED
  BY <1>1, <1>2, <1>3, <1>4, <1>5, <1>6, <1>7, <1>8, <1>9, <1>10 DEF Next, Continue

\* Such a step is a step of the abstract store: no body lost its last copy.
LEMMA StepImplementsStore ==
  ASSUME IInv, IInv', [Next]_vars
  PROVE  [Store!StoreNext]_(Store!storeVars)
<1> USE DEF IInv, TypeOK, Present
<1>1. CASE Present' = Present /\ (hot' = hot \/ bodies' = bodies)
  <2> DEFINE C == [r \in Requests |-> (IF hot[r] = "body" THEN {"hot"} ELSE {})
                                       \cup (IF r \in bodies THEN {"cold"} ELSE {})]
             D == [r \in Requests |-> (IF hot'[r] = "body" THEN {"hot"} ELSE {})
                                       \cup (IF r \in bodies' THEN {"cold"} ELSE {})]
  <2>1. D \in [Requests -> SUBSET {"hot", "cold"}] OBVIOUS
  <2>2. \A r \in Present : D[r] # {} BY <1>1 DEF BodyNeverLost
  <2>3. ASSUME NEW r \in Present, D[r] # C[r] PROVE {"hot", "cold"} \in {C[r], D[r]}
    <3>1. C[r] # {} BY DEF BodyNeverLost
    <3>2. CASE hot' = hot
      <4>1. ("hot" \in C[r]) <=> ("hot" \in D[r]) BY <3>2
      <4> QED BY <2>2, <2>3, <3>1, <4>1
    <3>3. CASE bodies' = bodies
      <4>1. ("cold" \in C[r]) <=> ("cold" \in D[r]) BY <3>3
      <4> QED BY <2>2, <2>3, <3>1, <4>1
    <3> QED BY <1>1, <3>2, <3>3
  <2>4. \A r \in Requests \ Present : "hot" \notin D[r] BY <1>1
  <2>5. (Requests \ Present)' = Requests \ Present BY <1>1
  <2>6. Store!Move BY <2>1, <2>2, <2>3, <2>4, <2>5 DEF Store!Move, Store!Sides
  <2> QED BY <2>6 DEF Store!StoreNext
<1>2. ASSUME NEW S \in SUBSET Requests,
             hot' = [r \in Requests |-> IF r \in S THEN "gone" ELSE hot[r]],
             bodies' = bodies
      PROVE  Store!StoreNext
  <2> DEFINE T == S \cap Present
  <2>1. T \in SUBSET (Requests \ (Requests \ Present)) OBVIOUS
  <2>2. (Requests \ Present)' = (Requests \ Present) \cup T BY <1>2
  <2> DEFINE C == [r \in Requests |-> (IF hot[r] = "body" THEN {"hot"} ELSE {})
                                       \cup (IF r \in bodies THEN {"cold"} ELSE {})]
             D == [r \in Requests |-> (IF hot'[r] = "body" THEN {"hot"} ELSE {})
                                       \cup (IF r \in bodies' THEN {"cold"} ELSE {})]
  <2>3. D = [r \in Requests |-> IF r \in T THEN C[r] \ {"hot"} ELSE C[r]]
    <3>1. ASSUME NEW r \in Requests
          PROVE  D[r] = IF r \in T THEN C[r] \ {"hot"} ELSE C[r]
      <4>1. CASE r \in T BY <1>2, <4>1
      <4>2. CASE r \in S \ T BY <1>2, <4>2
      <4>3. CASE r \notin S BY <1>2, <4>3
      <4> QED BY <4>1, <4>2, <4>3
    <3> QED BY <3>1
  <2>4. Store!Purge BY <2>1, <2>2, <2>3 DEF Store!Purge
  <2> QED BY <2>4 DEF Store!StoreNext
<1> QED BY <1>1, <1>2, OneSideAtATime

\* Archiver, collector, restore and purges together implement the promise "archive
\* copy first, hot NULL last": a body moves only by way of both copies.
THEOREM ArchiveImplementsBodyStore ==
  ASSUME ~Overlap
  PROVE  Spec => CopyFirstDropLast
<1>1. Init => Store!StoreInit
  BY DEF Init, Store!StoreInit, Present
<1>2. IInv /\ IInv' /\ [Next]_vars => [Store!StoreNext]_(Store!storeVars)
  BY StepImplementsStore
<1> QED BY <1>1, <1>2, Invariance, PTL DEF Spec, CopyFirstDropLast, Store!StoreSpec
=============================================================================
