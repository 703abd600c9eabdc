------------------------------ MODULE Archive ------------------------------
(***************************************************************************)
(* Body archival: internal/store's archiver, its garbage collector, the    *)
(* restore, the purges and the reads that hydrate a body, over the hot     *)
(* database and the day files, which no transaction spans.                 *)
(*                                                                         *)
(* Concurrency.  A job is a goroutine or a process of its own: "serve" is  *)
(* the maintenance goroutine (purge, archive, collect), "run" and          *)
(* "restore" are `lens archive run` and `lens archive restore`, "purge" is *)
(* POST /api/purge or `lens purge`, and a read is GET /api/requests/{id}.  *)
(* The hot database serialises transactions, each day file its own: one    *)
(* action is one transaction, one query or one file operation.  Any job    *)
(* may be interrupted before any of them, by a crash, a cancelled context  *)
(* or a store error: what it committed stays, what it held is forgotten.   *)
(*                                                                         *)
(* Data.  Requests are numbered in the order they started and have a body  *)
(* when the story starts; those below the clock are older than the hot     *)
(* window.  A body is only ever written under its own request's id, so     *)
(* what matters is where it is, never what it says.                        *)
(***************************************************************************)
EXTENDS Naturals, FiniteSets

CONSTANTS
  Requests,       \* request ids, in started_at order
  Day,            \* the UTC day a request started on
  BatchLimit,     \* archiveBatch
  Unpriced,       \* requests PurgeUnpriced selects
  Cutoffs,        \* bound: the retention cutoffs purges use, as request ids
  FirstBoundary,  \* the hot boundary at the start, as a request id
  Jobs,           \* the jobs that take part
  Overlap,        \* `lens archive run` may run during a maintenance pass
  MaxInterrupts   \* bound: interruptions

Days == {Day[r] : r \in Requests}

ASSUME ArchiveAssumption ==
  /\ Requests \subseteq Nat \ {0} /\ IsFiniteSet(Requests)
  /\ Day \in [Requests -> Days]
  /\ BatchLimit \in Nat \ {0}
  /\ Unpriced \subseteq Requests
  /\ Cutoffs \subseteq Nat
  /\ FirstBoundary \in Nat
  /\ Jobs \subseteq {"serve", "run", "purge", "restore", "read"}
  /\ Overlap \in BOOLEAN
  /\ MaxInterrupts \in Nat

VARIABLES
  hot,         \* requests: the row holds its body, has NULL bodies, or is deleted
  marker,      \* body_archive: how many marker rows a request has
  bodies,      \* day files: requests with a row in bodies
  file,        \* day files: absent, created by a bare open, or with a table
  clock,       \* the hot boundary as of now
  before,      \* the hot boundary an archive loop took when it began, else 0
  pc,          \* what each job is about to do
  held,        \* requests each job holds: a batch, purge targets, marker ids
  days,        \* days each job still has to visit
  gc,          \* GCArchive: the days that had markers, the day it is on
  todo,        \* RestoreBetween: marker rows it selected and has not restored
  cur,         \* RestoreBetween: the request it is on
  read,        \* one GetRequest
  interrupts   \* interruptions so far

hotVars == <<hot, marker>>
fileVars == <<bodies, file>>
timeVars == <<clock, before>>
localVars == <<gc, todo, cur>>
vars == <<hotVars, fileVars, timeVars, pc, held, days, localVars, read, interrupts>>

Phases == {"idle", "purged", "archive", "days", "gc", "collect", "sweep",
           "load", "put", "drop", "unmark"}
NoRequest == 0
NoPass == [known |-> {}, day |-> CHOOSE d \in Days : TRUE]
NoRead == [phase |-> "row", id |-> NoRequest, row |-> "gone",
           restored |-> FALSE, empty |-> FALSE]

Archived == {r \in Requests : marker[r] > 0}
Present == {r \in Requests : hot[r] # "gone"}
DaysOf(S) == {Day[r] : r \in S}
OnDay(S, d) == {r \in S : Day[r] = d}

Init ==
  /\ hot = [r \in Requests |-> "body"]
  /\ marker = [r \in Requests |-> 0]
  /\ bodies = {}
  /\ file = [d \in Days |-> "absent"]
  /\ clock = FirstBoundary
  /\ before = [j \in Jobs |-> 0]
  /\ pc = [j \in Jobs |-> "idle"]
  /\ held = [j \in Jobs |-> {}]
  /\ days = [j \in Jobs |-> {}]
  /\ gc = NoPass
  /\ todo = [r \in Requests |-> 0]
  /\ cur = NoRequest
  /\ read = NoRead
  /\ interrupts = 0

\* Job j goes on to phase p holding the requests S, with the days D to visit.
Goto(j, p, S, D) ==
  /\ pc' = [pc EXCEPT ![j] = p]
  /\ held' = [held EXCEPT ![j] = S]
  /\ days' = [days EXCEPT ![j] = D]

\* Job j is not at work, or Overlap lets it: nothing in the code keeps two archive
\* loops apart.
Apart(j) == j \in Jobs /\ ~Overlap => pc[j] = "idle"

\* A maintenance pass goes from the purge to the archive loop, with the hot
\* boundary of that moment, and from there to the collector.
EndPurge(j) ==
  IF j = "serve"
  THEN Goto(j, "archive", {}, {}) /\ before' = [before EXCEPT ![j] = clock]
  ELSE Goto(j, "idle", {}, {}) /\ before' = before
AfterArchive(j) == IF j = "serve" THEN "gc" ELSE "idle"

\* [mutant] the day file is created, not opened
CreatedAfresh(d) == [file EXCEPT ![d] = "bare"]

\* sql.Open of a day file that does not exist leaves an empty one behind.
Opened(d) == [file EXCEPT ![d] = IF @ = "absent" THEN "bare" ELSE @]

\* A statement on table bodies of day d works.
HasTable(d) == file[d] = "bodies"

(***************************************************************************)
(* purgeWhere.                                                             *)
(***************************************************************************)

\* What the two predicates select: started_at < cutoff, and the unpriced rows.
Selections == {{r \in Requests : r < k} : k \in Cutoffs} \cup {Unpriced}

\* One transaction: the targets are noted, markers and rows deleted.
PurgeRows(j, S) ==
  /\ hot' = [r \in Requests |-> IF r \in S THEN "gone" ELSE hot[r]]
  /\ marker' = [r \in Requests |-> IF r \in S \cap Present THEN 0 ELSE marker[r]]
  /\ LET targets == S \cap Present \cap Archived
     IN Goto(j, "purged", targets, DaysOf(targets))
  /\ UNCHANGED <<fileVars, timeVars, localVars, read, interrupts>>

\* POST /api/purge and `lens purge`: either predicate.
Purge ==
  /\ "purge" \in Jobs /\ pc["purge"] = "idle"
  /\ \E S \in Selections : PurgeRows("purge", S)

\* runMaintenancePass starts with purgeOnStartup, which selects by age, or
\* nothing at all when retention is off.
StartPass ==
  /\ "serve" \in Jobs /\ pc["serve"] = "idle"
  /\ Apart("run")
  /\ \E k \in Cutoffs \cup {0} : PurgeRows("serve", {r \in Requests : r < k})

\* deleteDayRows, one day at a time after the commit.  A day file that is gone
\* ends the purge with an error; the maintenance pass goes on all the same.
DeleteDayRows(j) ==
  /\ pc[j] = "purged"
  /\ \E d \in days[j] :
       /\ file' = Opened(d)
       /\ IF HasTable(d)
          THEN /\ bodies' = bodies \ OnDay(held[j], d)
               /\ Goto(j, "purged", held[j], days[j] \ {d})
               /\ before' = before
          ELSE /\ bodies' = bodies
               /\ EndPurge(j)
  /\ UNCHANGED <<hotVars, clock, localVars, read, interrupts>>

PurgeDone(j) ==
  /\ pc[j] = "purged"
  /\ days[j] = {}
  /\ EndPurge(j)
  /\ UNCHANGED <<hotVars, fileVars, clock, localVars, read, interrupts>>

(***************************************************************************)
(* archiveOlderThan.                                                       *)
(***************************************************************************)

\* `lens archive run --yes`.
StartRun ==
  /\ "run" \in Jobs /\ pc["run"] = "idle"
  /\ Apart("serve")
  /\ Goto("run", "archive", {}, {})
  /\ before' = [before EXCEPT !["run"] = clock]
  /\ UNCHANGED <<hotVars, fileVars, clock, localVars, read, interrupts>>

\* [mutant] the select forgets the marker subquery
HotBodies(k) == {r \in Requests : r < k /\ hot[r] = "body"}

Archivable(k) == {r \in Requests : r < k /\ hot[r] = "body" /\ marker[r] = 0}

\* The n oldest requests of S, or all of them.
Oldest(n, S) == {r \in S : Cardinality({q \in S : q < r}) < n}

\* [mutant] LIMIT is applied before the rows are filtered
LimitThenFilter(k) == Oldest(BatchLimit, Present) \cap Archivable(k)

NextBatch(k) == Oldest(BatchLimit, Archivable(k))

\* The select at the top of the loop; an empty batch ends it.
SelectBatch(j) ==
  /\ pc[j] = "archive"
  /\ LET batch == NextBatch(before[j])
     IN IF batch = {}
        THEN Goto(j, AfterArchive(j), {}, {}) /\ before' = [before EXCEPT ![j] = 0]
        ELSE Goto(j, "days", batch, DaysOf(batch)) /\ before' = before
  /\ UNCHANGED <<hotVars, fileVars, clock, localVars, read, interrupts>>

\* writeDay: the day file of one day of the batch, made and committed.
WriteDay(j) ==
  /\ pc[j] = "days"
  /\ \E d \in days[j] :
       /\ file' = [file EXCEPT ![d] = "bodies"]
       /\ bodies' = bodies \cup OnDay(held[j], d)
       /\ Goto(j, "days", held[j], days[j] \ {d})
  /\ UNCHANGED <<hotVars, timeVars, localVars, read, interrupts>>

\* [mutant] the hot transaction does not wait for the last day file
SomeDayWritten(j) == days[j] # DaysOf(held[j])

EveryDayWritten(j) == days[j] = {}

\* The hot transaction: a marker for every row of the batch, and its bodies
\* NULL.  No foreign key ties the marker to the row, which may be gone.
CommitHot(j) ==
  /\ pc[j] = "days"
  /\ EveryDayWritten(j)
  /\ marker' = [r \in Requests |-> IF r \in held[j] THEN marker[r] + 1 ELSE marker[r]]
  /\ hot' = [r \in Requests |-> IF r \in held[j] \cap Present THEN "null" ELSE hot[r]]
  /\ Goto(j, "archive", {}, {})
  /\ UNCHANGED <<fileVars, timeVars, localVars, read, interrupts>>

(***************************************************************************)
(* GCArchive.                                                              *)
(***************************************************************************)

\* The days with markers, then the files of the archive directory.
ListFiles ==
  /\ pc["serve"] = "gc"
  /\ gc' = [gc EXCEPT !.known = DaysOf(Archived)]
  /\ Goto("serve", "collect", {}, {d \in Days : file[d] # "absent"})
  /\ UNCHANGED <<hotVars, fileVars, timeVars, todo, cur, read, interrupts>>

\* The next file, and markerIDs of its day.
OpenFile ==
  /\ pc["serve"] = "collect"
  /\ \E d \in days["serve"] :
       /\ gc' = [gc EXCEPT !.day = d]
       /\ Goto("serve", "sweep", OnDay(Archived, d), days["serve"] \ {d})
  /\ UNCHANGED <<hotVars, fileVars, timeVars, todo, cur, read, interrupts>>

\* [mutant] IN where NOT IN was meant
Referenced(d, ids) == OnDay(bodies, d) \cap ids

\* The rows of day d that no marker of ids references.
Orphans(d, ids) == OnDay(bodies, d) \ ids

\* [mutant] a day without a marker is left alone, its file with it
SweepFileKeepingLast ==
  IF held["serve"] = {} \/ ~HasTable(gc.day)
  THEN UNCHANGED fileVars
  ELSE /\ bodies' = bodies \ Orphans(gc.day, held["serve"])
       /\ file' = file

\* The file of a day that had no marker and has none is removed; otherwise the
\* orphans are deleted, unless there is no marker to name what stays.
SweepFile ==
  IF held["serve"] = {}
  THEN IF gc.day \in gc.known
       THEN UNCHANGED fileVars
       ELSE /\ file' = [file EXCEPT ![gc.day] = "absent"]
            /\ bodies' = bodies \ OnDay(bodies, gc.day)
  ELSE /\ bodies' = bodies \ Orphans(gc.day, held["serve"])
       /\ file' = file

EndPass == Goto("serve", "idle", {}, {}) /\ gc' = NoPass

\* A file without the table fails the DELETE, and the pass ends there.
Sweep ==
  /\ pc["serve"] = "sweep"
  /\ IF held["serve"] # {} /\ ~HasTable(gc.day)
     THEN UNCHANGED fileVars /\ EndPass
     ELSE /\ SweepFile
          /\ gc' = [gc EXCEPT !.day = NoPass.day]
          /\ Goto("serve", "collect", {}, days["serve"])
  /\ UNCHANGED <<hotVars, timeVars, todo, cur, read, interrupts>>

PassDone ==
  /\ pc["serve"] = "collect"
  /\ days["serve"] = {}
  /\ EndPass
  /\ UNCHANGED <<hotVars, fileVars, timeVars, todo, cur, read, interrupts>>

(***************************************************************************)
(* RestoreBetween.                                                         *)
(***************************************************************************)

Restoring(p) == "restore" \in Jobs /\ pc["restore"] = p
EndRestore ==
  /\ Goto("restore", "idle", {}, {})
  /\ todo' = [r \in Requests |-> 0]
  /\ cur' = NoRequest

\* The marker rows of the window, which takes every request; one whose request
\* was purged is not joined.
StartRestore ==
  /\ Restoring("idle")
  /\ todo' = [r \in Requests |-> IF r \in Present THEN marker[r] ELSE 0]
  /\ Goto("restore", "load", {}, {})
  /\ UNCHANGED <<hotVars, fileVars, timeVars, gc, cur, read, interrupts>>

\* loadDayBodies of the next row; without one the restore ends in an error.
LoadBody ==
  /\ Restoring("load")
  /\ \E r \in Requests :
       /\ todo[r] > 0
       /\ file' = Opened(Day[r])
       /\ IF r \in bodies
          THEN /\ Goto("restore", "put", {}, {})
               /\ todo' = [todo EXCEPT ![r] = @ - 1]
               /\ cur' = r
          ELSE EndRestore
  /\ UNCHANGED <<hotVars, bodies, timeVars, gc, read, interrupts>>

\* The UPDATE of the row, which a purge may have deleted since.
PutBack ==
  /\ Restoring("put")
  /\ hot' = [hot EXCEPT ![cur] = IF @ = "gone" THEN "gone" ELSE "body"]
  /\ Goto("restore", "drop", {}, {})
  /\ read' = [read EXCEPT !.restored = @ \/ (read.id = cur /\ read.phase # "row")]
  /\ UNCHANGED <<marker, fileVars, timeVars, localVars, interrupts>>

\* execDay: the day row goes once the hot row has its body again.
DropDayRow ==
  /\ Restoring("drop")
  /\ file' = Opened(Day[cur])
  /\ bodies' = bodies \ {cur}
  /\ IF HasTable(Day[cur])
     THEN Goto("restore", "unmark", {}, {}) /\ UNCHANGED <<todo, cur>>
     ELSE EndRestore
  /\ UNCHANGED <<hotVars, timeVars, gc, read, interrupts>>

\* The marker rows of the request go last, all of them at once.
Unmark ==
  /\ Restoring("unmark")
  /\ marker' = [marker EXCEPT ![cur] = 0]
  /\ Goto("restore", "load", {}, {})
  /\ cur' = NoRequest
  /\ UNCHANGED <<hot, fileVars, timeVars, gc, todo, read, interrupts>>

RestoreDone ==
  /\ Restoring("load")
  /\ \A r \in Requests : todo[r] = 0
  /\ EndRestore
  /\ UNCHANGED <<hotVars, fileVars, timeVars, gc, read, interrupts>>

(***************************************************************************)
(* GetRequest and hydrateBodies: three queries, no transaction.       *)
(***************************************************************************)

Reading(p) == "read" \in Jobs /\ read.phase = p

\* How the read ends.  One that found a body, no row, or a day file without the
\* table (an error) leaves nothing behind; one without a body is remembered.
Found == read' = NoRead
FoundNone == read' = [read EXCEPT !.phase = "row", !.row = "gone", !.empty = TRUE]

\* What the row alone says.
RowSays == IF read.row = "body" THEN Found ELSE FoundNone

ReadRow ==
  /\ Reading("row")
  /\ \E r \in Present :
       read' = [NoRead EXCEPT !.phase = "marker", !.id = r, !.row = hot[r]]
  /\ UNCHANGED <<hotVars, fileVars, timeVars, pc, held, days, localVars, interrupts>>

\* Without a marker the row is the answer.
ReadMarker ==
  /\ Reading("marker")
  /\ IF marker[read.id] > 0 THEN read' = [read EXCEPT !.phase = "day"] ELSE RowSays
  /\ UNCHANGED <<hotVars, fileVars, timeVars, pc, held, days, localVars, interrupts>>

\* A row of the day file overrides the hot row.
ReadDay ==
  /\ Reading("day")
  /\ file' = Opened(Day[read.id])
  /\ IF read.id \in bodies \/ ~HasTable(Day[read.id]) THEN Found ELSE RowSays
  /\ UNCHANGED <<hotVars, bodies, timeVars, pc, held, days, localVars, interrupts>>

(***************************************************************************)
(* The system.                                                             *)
(***************************************************************************)

\* Time passes: one more request is older than the hot window.
Age ==
  /\ clock \in Requests
  /\ clock' = clock + 1
  /\ UNCHANGED <<hotVars, fileVars, before, pc, held, days, localVars, read, interrupts>>

\* A crash, a cancelled context or a store error, before any step.
Interrupt(j) ==
  /\ pc[j] # "idle"
  /\ interrupts < MaxInterrupts
  /\ interrupts' = interrupts + 1
  /\ Goto(j, "idle", {}, {})
  /\ IF j = "restore"
     THEN todo' = [r \in Requests |-> 0] /\ cur' = NoRequest
     ELSE UNCHANGED <<todo, cur>>
  /\ gc' = IF j = "serve" THEN NoPass ELSE gc
  /\ before' = [before EXCEPT ![j] = 0]
  /\ UNCHANGED <<hotVars, fileVars, clock, read>>

PurgeSteps(j) == DeleteDayRows(j) \/ PurgeDone(j)
ArchiveSteps(j) == SelectBatch(j) \/ WriteDay(j) \/ CommitHot(j)
CollectSteps == "serve" \in Jobs /\ (ListFiles \/ OpenFile \/ Sweep \/ PassDone)
RestoreSteps == LoadBody \/ PutBack \/ DropDayRow \/ Unmark \/ RestoreDone
ReadSteps == ReadMarker \/ ReadDay

\* What a job does on its own once it is started.
Continue(j) ==
  \/ PurgeSteps(j)
  \/ ArchiveSteps(j)
  \/ j = "serve" /\ CollectSteps
  \/ j = "restore" /\ RestoreSteps

Next ==
  \/ StartPass \/ StartRun \/ Purge \/ StartRestore \/ ReadRow \/ Age
  \/ \E j \in Jobs : Continue(j) \/ Interrupt(j)
  \/ ReadSteps

Spec == Init /\ [][Next]_vars

\* Time passes, serve's 24 h ticker always comes round again, and a job that was
\* started goes on until it ends or is interrupted.
FairSpec ==
  Spec /\ WF_vars(Age) /\ WF_vars(StartPass) /\ \A j \in Jobs : WF_vars(Continue(j))

(***************************************************************************)
(* Properties.                                                             *)
(***************************************************************************)

\* Every variable has its type, a day row is in a file with the table, and the
\* restore knows its request from the load to the unmark.
TypeOK ==
  /\ hot \in [Requests -> {"body", "null", "gone"}]
  /\ marker \in [Requests -> Nat]
  /\ bodies \subseteq {r \in Requests : HasTable(Day[r])}
  /\ file \in [Days -> {"absent", "bare", "bodies"}]
  /\ clock \in Nat
  /\ before \in [Jobs -> Nat]
  /\ pc \in [Jobs -> Phases]
  /\ held \in [Jobs -> SUBSET Requests]
  /\ days \in [Jobs -> SUBSET Days]
  /\ gc \in [known : SUBSET Days, day : Days \cup {NoPass.day}]
  /\ todo \in [Requests -> Nat]
  /\ cur \in Requests \cup {NoRequest}
  /\ "restore" \in Jobs =>
       (cur \in Requests <=> pc["restore"] \in {"put", "drop", "unmark"})
  /\ read \in [phase : {"row", "marker", "day"}, id : Requests \cup {NoRequest},
               row : {"body", "null", "gone"}, restored : BOOLEAN, empty : BOOLEAN]
  /\ interrupts \in 0..MaxInterrupts

\* A body of a request that was not purged can always be read: it is in the hot
\* row, or in the day file a marker points to ("Both leave the body recoverable
\* from one side"), wherever the archiver, the restore or the collector stopped.
BodyNeverLost ==
  \A r \in Present : hot[r] = "body" \/ (marker[r] > 0 /\ r \in bodies)

\* body_archive has no unique key, yet no request gets a second marker row: the
\* select of the archiver keeps out the rows whose restore stopped half way.
OneMarker == \A r \in Requests : marker[r] <= 1

\* A read that comes back without a body, although the row, its marker and its
\* day file were read one after the other, is of a request that was purged or
\* put back in the meantime: archiving alone never hides a body.
ReadsHydrate ==
  read.empty => hot[read.id] = "gone" \/ read.restored

\* The promise every one of these jobs keeps together: bodies move copy first.
Store == INSTANCE BodyStore WITH
  copies <- [r \in Requests |-> (IF hot[r] = "body" THEN {"hot"} ELSE {})
                                  \cup (IF r \in bodies THEN {"cold"} ELSE {})],
  purged <- Requests \ Present

CopyFirstDropLast == Store!StoreSpec

\* What a purge leaves in the day files, because it stopped before it got there
\* or because an archive run put it there late, the collector deletes one day.
PurgedBodyCollected ==
  \A r \in Requests : hot[r] = "gone" ~> r \notin bodies

\* A body older than the hot boundary leaves the hot database one day: the loop
\* ends on an empty batch only when no archivable row is left, whatever rows
\* archived, restored or purged before stand in front.
OldBodyArchived ==
  \A r \in Requests : hot[r] = "body" ~> hot[r] # "body"
=============================================================================
