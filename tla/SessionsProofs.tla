--------------------------- MODULE SessionsProofs ---------------------------
(***************************************************************************)
(* What the sessions keep, for every kind of call, gap, batch size and     *)
(* number of calls, purges and faults.                                     *)
(***************************************************************************)
EXTENDS Sessions, SequenceTheorems, FiniteSetTheorems, TLAPS

-----------------------------------------------------------------------------
(***************************************************************************)
(* Sessions and their keys.                                                *)
(***************************************************************************)

\* The key of the calls that a session groups, read off its id.
GroupKey(sid) == IF sid[1] = "h" THEN sid ELSE <<"p", sid[3]>>

Grouping == SessionIds \cup {NoSession}

LEMMA IdShapes ==
  ASSUME NEW sid \in SessionIds
  PROVE  /\ sid # NoSession
         /\ \/ \E h : sid = <<"h", h>> /\ GroupKey(sid) = sid /\ sid[1] = "h"
            \/ \E t \in 0..MaxTime : \E p : /\ sid = <<"s", t, p>> /\ GroupKey(sid) = <<"p", p>>
                                            /\ sid[1] # "h" /\ sid[3] = p
  BY DEF SessionIds, KeyOf, NoSession, GroupKey

LEMMA KeyShapes ==
  ASSUME NEW k \in Kinds
  PROVE  /\ k.header # NoHeader =>
              /\ KeyOf(k) = <<"h", k.header>> /\ KeyOf(k) \in SessionIds
              /\ GroupKey(KeyOf(k)) = KeyOf(k)
         /\ k.header = NoHeader => KeyOf(k) = <<"p", k.prefix>>
         /\ \A t \in 0..MaxTime : /\ <<"s", t, k.prefix>> \in SessionIds
                                  /\ GroupKey(<<"s", t, k.prefix>>) = <<"p", k.prefix>>
<1>1. ASSUME k.header # NoHeader
      PROVE  /\ KeyOf(k) = <<"h", k.header>> /\ KeyOf(k) \in SessionIds
             /\ GroupKey(KeyOf(k)) = KeyOf(k)
  <2>1. KeyOf(k) = <<"h", k.header>>
    BY <1>1 DEF KeyOf
  <2>2. KeyOf(k) \in SessionIds
    BY <1>1 DEF SessionIds
  <2>3. <<"h", k.header>>[1] = "h"
    OBVIOUS
  <2>4. QED
    BY <2>1, <2>2, <2>3 DEF GroupKey
<1>2. k.header = NoHeader => KeyOf(k) = <<"p", k.prefix>>
  BY DEF KeyOf
<1>3. ASSUME NEW t \in 0..MaxTime
      PROVE  /\ <<"s", t, k.prefix>> \in SessionIds
             /\ GroupKey(<<"s", t, k.prefix>>) = <<"p", k.prefix>>
  <2>1. <<"s", t, k.prefix>> \in SessionIds
    BY DEF SessionIds
  <2>2. <<"s", t, k.prefix>>[1] # "h" /\ <<"s", t, k.prefix>>[3] = k.prefix
    OBVIOUS
  <2>3. QED
    BY <2>1, <2>2 DEF GroupKey
<1>4. QED
  BY <1>1, <1>2, <1>3

-----------------------------------------------------------------------------
(***************************************************************************)
(* Types.                                                                  *)
(***************************************************************************)

\* The kinds of warnings (the provers do not see that a literal is in STRING).
Codes == STRING \cup {"analyzer_panic", "upstream_error"}

\* A prepared call, when the clock shows t and n is the next id.
PreparedCalls(t, n) ==
  [kind : Kinds, started : 0..t, session : Grouping, replayOf : 0..(n - 1),
   id : 0..(n - 1), at : 0..t, warns : Seq(Codes), lost : BOOLEAN]

\* The row of id i, when the clock shows t.
RowsAt(i, t) ==
  [kind : Kinds, started : 0..t, session : Grouping, replayOf : 0..(i - 1)]

Counters ==
  /\ now \in 0..MaxTime /\ calls \in 0..MaxCalls
  /\ purges \in 0..MaxPurges /\ faults \in 0..MaxFaults
  /\ nextId \in Nat \ {0} /\ nextWarn \in Nat \ {0}

TablesTyped ==
  /\ DOMAIN rows \subseteq 1..(nextId - 1)
  /\ \A i \in DOMAIN rows : rows[i] \in RowsAt(i, now)
  /\ \A w \in warnings : w.id \in 1..(nextWarn - 1) /\ w.at \in 0..now
  /\ DOMAIN sessions \subseteq SessionIds /\ skewed \subseteq SessionIds
  /\ \A s \in DOMAIN sessions : sessions[s].prefix \in Prefixes

FlushTyped ==
  /\ phase \in {"prepare", "insert", "warn", "fold"}
  /\ pend \in Seq(PreparedCalls(now, nextId)) /\ Len(pend) <= BatchSize
  /\ cursor \in 1..BatchSize
  /\ phase # "prepare" => cursor <= Len(pend)
  /\ \A k \in DOMAIN seen : seen[k] \in SessionIds

\* Every call takes one id at most.
WaitingIds ==
  CASE phase = "prepare" -> Len(pend)
    [] phase = "insert"  -> Len(pend) - cursor + 1
    [] OTHER             -> 0

IdsSuffice == nextId - 1 + WaitingIds <= calls

Typed == Counters /\ TablesTyped /\ FlushTyped /\ IdsSuffice

LEMMA Bounds ==
  /\ BatchSize \in Nat \ {0} /\ MaxCalls \in Nat /\ MaxTime \in Nat
  /\ MaxPurges \in Nat /\ MaxFaults \in Nat /\ Gap \in Nat /\ NullWindow \in Nat
  /\ Backdate \in Nat /\ NullWindow <= Gap
  /\ \A k \in Kinds : k.raises \in Seq(STRING) /\ k.prefix # HeaderKey
  BY SessionsAssumption

LEMMA PreparedCallsGrow ==
  ASSUME NEW t \in Nat, NEW u \in Nat, t <= u, NEW n \in Nat, NEW m \in Nat, n <= m
  PROVE  /\ PreparedCalls(t, n) \subseteq PreparedCalls(u, m)
         /\ \A i \in Nat : RowsAt(i, t) \subseteq RowsAt(i, u)
<1>1. 0..t \subseteq 0..u /\ 0..(n - 1) \subseteq 0..(m - 1)
  OBVIOUS
<1>2. QED
  BY <1>1 DEF PreparedCalls, RowsAt

LEMMA SeqGrows ==
  ASSUME NEW S, NEW T, S \subseteq T, NEW s \in Seq(S)
  PROVE  s \in Seq(T)
<1>1. s \in [1..Len(s) -> S] /\ Len(s) \in Nat
  BY LenProperties
<1>2. QED
  BY <1>1, IsASeq, LenProperties

\* The sequence a prepared call is added to, or one of whose calls is amended.
LEMMA PendElement ==
  ASSUME Typed
  PROVE  /\ Len(pend) \in Nat /\ DOMAIN pend = 1..Len(pend)
         /\ \A i \in 1..Len(pend) : pend[i] \in PreparedCalls(now, nextId)
         /\ phase # "prepare" => /\ cursor \in 1..Len(pend)
                                 /\ pend[cursor] \in PreparedCalls(now, nextId)
  BY LenProperties, ElementOfSeq, Bounds DEF Typed, FlushTyped

LEMMA TypedInit == Init => Typed
<1> SUFFICES ASSUME Init PROVE Typed
  OBVIOUS
<1>1. Counters
  BY Bounds DEF Init, Counters
<1>2. << >> \in Seq(PreparedCalls(0, 1)) /\ Len(<< >>) = 0 /\ DOMAIN << >> = {}
  BY EmptySeq
<1>3. TablesTyped
  BY <1>2 DEF Init, TablesTyped
<1>4. FlushTyped /\ IdsSuffice
  BY <1>2, Bounds DEF Init, FlushTyped, IdsSuffice, WaitingIds
<1>5. QED
  BY <1>1, <1>3, <1>4 DEF Typed

LEMMA TypedTick == Typed /\ Tick => Typed'
<1> SUFFICES ASSUME Typed, Tick PROVE Typed'
  OBVIOUS
<1>1. /\ now' = now + 1 /\ now < MaxTime /\ now \in Nat /\ now' \in Nat /\ now <= now'
      /\ UNCHANGED <<rows, warnings, sessions, nextId, nextWarn, phase, pend, cursor, seen,
                     calls, log, skewed, purges, faults>>
  BY Bounds DEF Tick, tables, flush, Typed, Counters
<1>2. Counters'
  BY <1>1, Bounds DEF Typed, Counters
<1>3. TablesTyped'
  <2>1. \A i \in DOMAIN rows : rows[i] \in RowsAt(i, now')
    BY <1>1, PreparedCallsGrow DEF Typed, TablesTyped, Counters
  <2>2. \A w \in warnings : w.at \in 0..now'
    BY <1>1 DEF Typed, TablesTyped
  <2>3. QED
    BY <1>1, <2>1, <2>2 DEF Typed, TablesTyped
<1>4. FlushTyped'
  <2>1. PreparedCalls(now, nextId) \subseteq PreparedCalls(now', nextId)
    BY <1>1, PreparedCallsGrow DEF Typed, Counters
  <2>2. pend \in Seq(PreparedCalls(now', nextId))
    BY <2>1, SeqGrows DEF Typed, FlushTyped
  <2>3. QED
    BY <1>1, <2>2 DEF Typed, FlushTyped
<1>5. IdsSuffice'
  BY <1>1 DEF Typed, IdsSuffice, WaitingIds
<1>6. QED
  BY <1>2, <1>3, <1>4, <1>5 DEF Typed

\* Whatever Resolve answers is a session id.
LEMMA ResolveTyped ==
  ASSUME Typed, NEW kind \in Kinds
  PROVE  Resolve(kind) \subseteq SessionIds
<1>1. LatestSessions(sessions, kind.prefix) \subseteq SessionIds
  BY DEF LatestSessions, Typed, TablesTyped
<1>2. NewID(kind.prefix) \in SessionIds
  BY KeyShapes DEF NewID, Typed, Counters
<1>3. kind.header # NoHeader => KeyOf(kind) \in SessionIds
  BY KeyShapes
<1>4. QED
  BY <1>1, <1>2, <1>3 DEF Resolve

LEMMA TypedPrepareCall == Typed /\ PrepareCall => Typed'
<1> SUFFICES ASSUME Typed, PrepareCall PROVE Typed'
  OBVIOUS
<1>1. /\ phase = "prepare" /\ Len(pend) < BatchSize /\ calls < MaxCalls /\ calls' = calls + 1
      /\ UNCHANGED <<now, rows, warnings, sessions, nextId, nextWarn, phase, cursor, log,
                     skewed, purges>>
  BY DEF PrepareCall, tables
<1>2. PICK kind \in Kinds, age \in 0..Backdate :
        \E of \in (IF kind.replay THEN DOMAIN rows ELSE {NoId}) :
          /\ age <= now
          /\ \E sid \in (IF KeyOf(kind) \in DOMAIN seen THEN {seen[KeyOf(kind)]}
                         ELSE Resolve(kind) \cup {NoSession}) :
               /\ IF sid = NoSession THEN kind.header = NoHeader /\ Fault ELSE UNCHANGED faults
               /\ seen' = Remember(KeyOf(kind), sid)
               /\ pend' = Append(pend,
                    [kind |-> kind, started |-> now - age, session |-> sid, replayOf |-> of,
                     id |-> NoId, at |-> now, warns |-> <<>>, lost |-> FALSE])
  BY DEF PrepareCall
<1>3. PICK of \in (IF kind.replay THEN DOMAIN rows ELSE {NoId}),
           sid \in (IF KeyOf(kind) \in DOMAIN seen THEN {seen[KeyOf(kind)]}
                    ELSE Resolve(kind) \cup {NoSession}) :
        /\ age <= now
        /\ IF sid = NoSession THEN kind.header = NoHeader /\ Fault ELSE UNCHANGED faults
        /\ seen' = Remember(KeyOf(kind), sid)
        /\ pend' = Append(pend,
             [kind |-> kind, started |-> now - age, session |-> sid, replayOf |-> of,
              id |-> NoId, at |-> now, warns |-> <<>>, lost |-> FALSE])
  BY <1>2
<1> DEFINE p == [kind |-> kind, started |-> now - age, session |-> sid, replayOf |-> of,
                 id |-> NoId, at |-> now, warns |-> <<>>, lost |-> FALSE]
<1>4. sid \in Grouping
  BY <1>3, ResolveTyped DEF Grouping, Typed, FlushTyped
<1>5. p \in PreparedCalls(now, nextId)
  <2>1. of \in 0..(nextId - 1) /\ NoId \in 0..(nextId - 1)
    BY <1>3 DEF Typed, TablesTyped, Counters, NoId
  <2>2. now - age \in 0..now /\ now \in 0..now
    BY <1>3, Bounds DEF Typed, Counters
  <2>3. << >> \in Seq(Codes)
    BY EmptySeq
  <2>4. QED
    BY <1>4, <2>1, <2>2, <2>3 DEF PreparedCalls
<1>6. /\ pend' \in Seq(PreparedCalls(now, nextId))
      /\ Len(pend') = Len(pend) + 1 /\ Len(pend) \in Nat
  BY <1>3, <1>5, AppendProperties, LenProperties DEF Typed, FlushTyped
<1>7. \A k \in DOMAIN seen' : seen'[k] \in SessionIds
  BY <1>3, <1>4 DEF Remember, Typed, FlushTyped, Grouping
<1>8. faults' \in 0..MaxFaults
  BY <1>3, Bounds DEF Fault, Typed, Counters
<1>9. Counters'
  BY <1>1, <1>8, Bounds DEF Typed, Counters
<1>10. TablesTyped'
  BY <1>1 DEF Typed, TablesTyped
<1>11. FlushTyped'
  BY <1>1, <1>6, <1>7, Bounds DEF Typed, FlushTyped
<1>12. IdsSuffice'
  BY <1>1, <1>6 DEF Typed, Counters, IdsSuffice, WaitingIds
<1>13. QED
  BY <1>9, <1>10, <1>11, <1>12 DEF Typed

\* The grouped insert gives every call of the flush the next ids, in order.
LEMMA TypedInsertRequests == Typed /\ InsertRequests => Typed'
<1> SUFFICES ASSUME Typed, InsertRequests PROVE Typed'
  OBVIOUS
<1> DEFINE k == Len(pend)
<1>1. /\ phase = "prepare" /\ \A i \in DOMAIN pend : References(pend[i])
      /\ rows' = [id \in DOMAIN rows \cup (nextId .. nextId + k - 1) |->
                    IF id \in DOMAIN rows THEN rows[id] ELSE RowOf(pend[id - nextId + 1])]
      /\ pend' = [i \in DOMAIN pend |-> [pend[i] EXCEPT !.id = nextId + i - 1]]
      /\ nextId' = nextId + k /\ phase' = "warn" /\ cursor' = 1
      /\ UNCHANGED <<now, warnings, nextWarn, sessions, seen, calls, log, skewed, purges, faults>>
  BY DEF InsertRequests
<1>2. /\ k \in Nat /\ k >= 1 /\ DOMAIN pend = 1..k
      /\ \A i \in 1..k : pend[i] \in PreparedCalls(now, nextId)
  BY PendElement, EmptySeq DEF InsertRequests, Typed, FlushTyped
<1>3. now \in Nat /\ nextId \in Nat \ {0}
  BY DEF Typed, Counters
<1>4. Counters'
  BY <1>1, <1>2 DEF Typed, Counters
<1>5. TablesTyped'
  <2>1. DOMAIN rows' \subseteq 1..(nextId' - 1)
    BY <1>1, <1>2, <1>3 DEF Typed, TablesTyped
  <2>2. ASSUME NEW i \in DOMAIN rows' PROVE rows'[i] \in RowsAt(i, now)
    <3>1. CASE i \in DOMAIN rows
      BY <1>1, <3>1 DEF Typed, TablesTyped
    <3>2. CASE i \notin DOMAIN rows
      <4>1. i \in nextId .. nextId + k - 1 /\ rows'[i] = RowOf(pend[i - nextId + 1])
        BY <1>1, <3>2
      <4>2. pend[i - nextId + 1] \in PreparedCalls(now, nextId)
        BY <1>2, <1>3, <4>1
      <4>3. 0..(nextId - 1) \subseteq 0..(i - 1)
        BY <1>2, <1>3, <4>1
      <4>4. QED
        BY <4>1, <4>2, <4>3 DEF RowOf, RowsAt, PreparedCalls
    <3>3. QED
      BY <3>1, <3>2
  <2>3. QED
    BY <1>1, <2>1, <2>2 DEF Typed, TablesTyped
<1>6. /\ pend' \in Seq(PreparedCalls(now, nextId')) /\ Len(pend') = k
  <2>1. ASSUME NEW i \in 1..k
        PROVE  [pend[i] EXCEPT !.id = nextId + i - 1] \in PreparedCalls(now, nextId')
    <3>1. /\ 0..(nextId - 1) \subseteq 0..(nextId' - 1)
          /\ nextId + i - 1 \in 0..(nextId' - 1)
      BY <1>1, <1>2, <1>3
    <3>2. pend[i] \in PreparedCalls(now, nextId)
      BY <1>2
    <3>3. QED
      BY <3>1, <3>2 DEF PreparedCalls
  <2>2. pend' \in [1..k -> PreparedCalls(now, nextId')]
    BY <1>1, <1>2, <2>1
  <2>3. QED
    BY <1>2, <2>2, IsASeq, LenProperties
<1>7. FlushTyped'
  BY <1>1, <1>2, <1>6, Bounds DEF Typed, FlushTyped
<1>8. IdsSuffice'
  BY <1>1, <1>2, <1>3 DEF Typed, Counters, IdsSuffice, WaitingIds
<1>9. QED
  BY <1>4, <1>5, <1>7, <1>8 DEF Typed

\* A step of the flush that leaves the tables and the prepared calls.
LEMMA NextRowTyped ==
  ASSUME Typed, NextRow, phase = "insert"
  PROVE  /\ phase' \in {"insert", "warn"} /\ cursor' \in 1..Len(pend)
         /\ phase' = "insert" => cursor' = cursor + 1
         /\ cursor \in 1..Len(pend) /\ Len(pend) \in Nat
  BY PendElement DEF NextRow

\* The row-by-row insert spends the id of a call at most.
LEMMA RowDone ==
  ASSUME phase = "insert", cursor \in 1..Len(pend), Len(pend) \in Nat, Len(pend') = Len(pend),
         phase' \in {"insert", "warn"}, phase' = "insert" => cursor' = cursor + 1
  PROVE  WaitingIds' + 1 <= WaitingIds /\ WaitingIds \in Int /\ WaitingIds' \in Int
<1>1. WaitingIds = Len(pend) - cursor + 1
  BY DEF WaitingIds
<1>2. CASE phase' = "insert"
  BY <1>1, <1>2 DEF WaitingIds
<1>3. CASE phase' = "warn"
  BY <1>1, <1>3 DEF WaitingIds
<1>4. QED
  BY <1>2, <1>3

LEMMA FlushStays ==
  ASSUME Typed, pend' \in Seq(PreparedCalls(now', nextId')), Len(pend') = Len(pend),
         phase' \in {"insert", "warn"}, cursor' \in 1..Len(pend), seen' = seen
  PROVE  FlushTyped'
<1>1. Len(pend) <= BatchSize /\ BatchSize \in Nat /\ Len(pend) \in Nat
  BY PendElement, Bounds DEF Typed, FlushTyped
<1>2. cursor' \in 1..BatchSize /\ cursor' <= Len(pend') /\ Len(pend') <= BatchSize
  BY <1>1
<1>3. \A k \in DOMAIN seen' : seen'[k] \in SessionIds
  BY DEF Typed, FlushTyped
<1>4. QED
  BY <1>2, <1>3 DEF FlushTyped

LEMMA TypedFallBack == Typed /\ FallBack => Typed'
<1> SUFFICES ASSUME Typed, FallBack PROVE Typed'
  OBVIOUS
<1>1. /\ phase = "prepare" /\ pend # << >> /\ phase' = "insert" /\ cursor' = 1
      /\ UNCHANGED <<now, rows, warnings, sessions, nextId, nextWarn, pend, seen, calls, log,
                     skewed, purges>>
      /\ Fault \/ UNCHANGED faults
  BY DEF FallBack, tables
<1>2. faults' \in 0..MaxFaults
  BY <1>1, Bounds DEF Fault, Typed, Counters
<1>3. Len(pend) \in Nat /\ Len(pend) >= 1
  BY <1>1, EmptySeq, LenProperties DEF Typed, FlushTyped
<1>4. Counters' /\ TablesTyped'
  BY <1>1, <1>2 DEF Typed, Counters, TablesTyped
<1>5. FlushTyped' /\ IdsSuffice'
  BY <1>1, <1>3, Bounds DEF Typed, FlushTyped, IdsSuffice, WaitingIds, Counters
<1>6. QED
  BY <1>4, <1>5 DEF Typed

LEMMA TypedInsertOne == Typed /\ InsertOne => Typed'
<1> SUFFICES ASSUME Typed, InsertOne PROVE Typed'
  OBVIOUS
<1>1. /\ phase = "insert" /\ NextRow
      /\ rows' = [id \in DOMAIN rows \cup {nextId} |->
                    IF id = nextId THEN RowOf(pend[cursor]) ELSE rows[id]]
      /\ pend' = [pend EXCEPT ![cursor].id = nextId] /\ nextId' = nextId + 1
      /\ UNCHANGED <<now, warnings, nextWarn, sessions, seen, calls, log, skewed, purges, faults>>
  BY DEF InsertOne
<1>2. /\ phase' \in {"insert", "warn"} /\ cursor' \in 1..Len(pend)
      /\ phase' = "insert" => cursor' = cursor + 1
      /\ cursor \in 1..Len(pend) /\ Len(pend) \in Nat
  BY <1>1, NextRowTyped
<1>3. /\ now \in Nat /\ nextId \in Nat \ {0} /\ pend[cursor] \in PreparedCalls(now, nextId)
      /\ \A i \in 1..Len(pend) : pend[i] \in PreparedCalls(now, nextId)
      /\ DOMAIN pend = 1..Len(pend)
  BY <1>1, PendElement DEF Typed, Counters
<1>4. Counters'
  BY <1>1 DEF Typed, Counters
<1>5. TablesTyped'
  <2>1. DOMAIN rows' \subseteq 1..(nextId' - 1)
    BY <1>1, <1>3 DEF Typed, TablesTyped
  <2>2. ASSUME NEW i \in DOMAIN rows' PROVE rows'[i] \in RowsAt(i, now)
    BY <1>1, <1>3 DEF Typed, TablesTyped, RowOf, RowsAt, PreparedCalls
  <2>3. QED
    BY <1>1, <2>1, <2>2 DEF Typed, TablesTyped
<1>6. pend' \in Seq(PreparedCalls(now, nextId')) /\ Len(pend') = Len(pend)
  <2>1. PreparedCalls(now, nextId) \subseteq PreparedCalls(now, nextId')
    BY <1>1, <1>3, PreparedCallsGrow
  <2>2. [pend[cursor] EXCEPT !.id = nextId] \in PreparedCalls(now, nextId')
    <3>1. nextId \in 0..(nextId' - 1) /\ pend[cursor] \in PreparedCalls(now, nextId')
      BY <1>1, <1>3, <2>1
    <3>2. QED
      BY <3>1 DEF PreparedCalls
  <2>3. pend' \in [1..Len(pend) -> PreparedCalls(now, nextId')]
    <3>1. pend \in [1..Len(pend) -> PreparedCalls(now, nextId')]
      BY <2>1, LenProperties DEF Typed, FlushTyped
    <3>2. pend' = [pend EXCEPT ![cursor] = [pend[cursor] EXCEPT !.id = nextId]]
      BY <1>1
    <3>3. QED
      BY <2>2, <3>1, <3>2
  <2>4. QED
    BY <1>2, <2>3, IsASeq, LenProperties
<1>7. FlushTyped'
  BY <1>1, <1>2, <1>6, FlushStays
<1>8. IdsSuffice'
  <2>1. WaitingIds' + 1 <= WaitingIds /\ WaitingIds \in Int /\ WaitingIds' \in Int
    BY <1>1, <1>2, <1>6, RowDone
  <2>2. nextId - 1 + WaitingIds <= calls /\ calls \in Int
    BY DEF Typed, Counters, IdsSuffice
  <2>3. QED
    BY <1>1, <1>3, <2>1, <2>2 DEF IdsSuffice
<1>9. QED
  BY <1>4, <1>5, <1>7, <1>8 DEF Typed

LEMMA TypedRefuseOne == Typed /\ RefuseOne => Typed'
<1> SUFFICES ASSUME Typed, RefuseOne PROVE Typed'
  OBVIOUS
<1>1. /\ phase = "insert" /\ NextRow
      /\ UNCHANGED <<now, rows, warnings, sessions, nextId, nextWarn, pend, seen, calls, log,
                     skewed, purges>>
      /\ Fault \/ UNCHANGED faults
  BY DEF RefuseOne, tables
<1>2. /\ phase' \in {"insert", "warn"} /\ cursor' \in 1..Len(pend)
      /\ phase' = "insert" => cursor' = cursor + 1
      /\ cursor \in 1..Len(pend) /\ Len(pend) \in Nat
  BY <1>1, NextRowTyped
<1>3. faults' \in 0..MaxFaults
  BY <1>1, Bounds DEF Fault, Typed, Counters
<1>4. Counters' /\ TablesTyped'
  BY <1>1, <1>3 DEF Typed, Counters, TablesTyped
<1>5. FlushTyped'
  <2>1. pend' \in Seq(PreparedCalls(now', nextId')) /\ Len(pend') = Len(pend)
    BY <1>1 DEF Typed, FlushTyped
  <2>2. QED
    BY <1>1, <1>2, <2>1, FlushStays
<1>6. IdsSuffice'
  <2>1. WaitingIds' + 1 <= WaitingIds /\ WaitingIds \in Int /\ WaitingIds' \in Int
    BY <1>1, <1>2, RowDone, Zenon
  <2>2. nextId - 1 + WaitingIds <= calls /\ calls \in Int /\ nextId \in Int
    BY DEF Typed, Counters, IdsSuffice
  <2>3. nextId' = nextId /\ calls' = calls
    BY <1>1
  <2>4. \A n, a, b, c \in Int : n - 1 + a <= c /\ b + 1 <= a => n - 1 + b <= c
    OBVIOUS
  <2>5. nextId - 1 + WaitingIds' <= calls
    BY <2>1, <2>2, <2>4
  <2>6. QED
    BY <2>3, <2>5 DEF IdsSuffice
<1>7. QED
  BY <1>4, <1>5, <1>6 DEF Typed

\* The flush moves on to the next call, or ends.
LEMMA NextCallTyped ==
  ASSUME Typed, phase \in {"warn", "fold"}, NEW p, NEW f, NextCall(p, f),
         UNCHANGED <<now, nextId, calls>>
  PROVE  FlushTyped' /\ IdsSuffice'
<1>1. cursor \in 1..Len(pend) /\ Len(pend) \in Nat
  BY PendElement
<1>2. << >> \in Seq(PreparedCalls(now, nextId)) /\ Len(<< >>) = 0 /\ DOMAIN << >> = {}
  BY EmptySeq
<1>3. CASE cursor = Len(pend)
  <2>1. phase' = "prepare" /\ cursor' = 1 /\ pend' = << >> /\ seen' = << >>
    BY <1>3 DEF NextCall
  <2>2. FlushTyped'
    BY <1>2, <2>1, Bounds DEF FlushTyped
  <2>3. nextId - 1 <= calls
    BY <1>1 DEF Typed, Counters, IdsSuffice, WaitingIds
  <2>4. IdsSuffice'
    BY <1>2, <2>1, <2>3 DEF Typed, Counters, IdsSuffice, WaitingIds
  <2>5. QED
    BY <2>2, <2>4
<1>4. CASE cursor # Len(pend)
  <2>1. phase' = "warn" /\ cursor' = cursor + 1 /\ UNCHANGED <<pend, seen>>
    BY <1>4 DEF NextCall
  <2>2. FlushTyped'
    BY <1>1, <1>4, <2>1, Bounds DEF Typed, FlushTyped
  <2>3. IdsSuffice'
    BY <1>1, <2>1 DEF Typed, Counters, IdsSuffice, WaitingIds
  <2>4. QED
    BY <2>2, <2>3
<1>5. QED
  BY <1>3, <1>4

LEMMA TypedSkipCall == Typed /\ SkipCall => Typed'
<1> SUFFICES ASSUME Typed, SkipCall PROVE Typed'
  OBVIOUS
<1>1. /\ phase = "warn" /\ NextCall(pend[cursor], FALSE)
      /\ UNCHANGED <<now, rows, warnings, sessions, nextId, nextWarn, calls, skewed, purges,
                     faults>>
  BY DEF SkipCall, tables
<1>2. Counters' /\ TablesTyped'
  BY <1>1 DEF Typed, Counters, TablesTyped
<1>3. QED
  BY <1>1, <1>2, NextCallTyped DEF Typed

LEMMA SingleInSeq ==
  ASSUME NEW T, NEW x \in T
  PROVE  <<x>> \in Seq(T)
  OBVIOUS

LEMMA WarningsOfTyped ==
  ASSUME NEW kind \in Kinds, NEW panic \in BOOLEAN
  PROVE  WarningsOf(kind, panic) \in Seq(Codes)
<1> DEFINE a == IF panic THEN <<"analyzer_panic">> ELSE kind.raises
           b == IF kind.error THEN <<"upstream_error">> ELSE <<>>
<1>1. a \in Seq(Codes) /\ b \in Seq(Codes)
  <2>1. << >> \in Seq(Codes)
    BY EmptySeq
  <2>2. "analyzer_panic" \in Codes /\ "upstream_error" \in Codes
    BY DEF Codes
  <2>3. <<"analyzer_panic">> \in Seq(Codes) /\ <<"upstream_error">> \in Seq(Codes)
    BY <2>2, SingleInSeq, Zenon
  <2>4. kind.raises \in Seq(Codes)
    BY Bounds, SeqGrows DEF Codes
  <2>5. QED
    BY <2>1, <2>3, <2>4, Zenon
<1>2. a \o b \in Seq(Codes)
  <2> HIDE DEF a, b
  <2>1. QED
    BY <1>1, ConcatProperties
<1>3. QED
  BY <1>2 DEF WarningsOf

LEMMA TypedInsertWarnings == Typed /\ InsertWarnings => Typed'
<1> SUFFICES ASSUME Typed, InsertWarnings PROVE Typed'
  OBVIOUS
<1> DEFINE p == pend[cursor]
<1>1. /\ phase = "warn" /\ phase' = "fold"
      /\ UNCHANGED <<now, rows, sessions, nextId, cursor, seen, calls, log, skewed, purges>>
  BY DEF InsertWarnings
<1>2. PICK panic \in BOOLEAN, lost \in BOOLEAN :
        /\ IF panic \/ (lost /\ p.id \in DOMAIN rows) THEN Fault ELSE UNCHANGED faults
        /\ warnings' = IF lost THEN warnings ELSE warnings \cup
             {[id |-> nextWarn + i - 1, request |-> p.id, kind |-> WarningsOf(p.kind, panic)[i],
               at |-> now] : i \in DOMAIN WarningsOf(p.kind, panic)}
        /\ nextWarn' = IF lost THEN nextWarn ELSE nextWarn + Len(WarningsOf(p.kind, panic))
        /\ pend' = [pend EXCEPT ![cursor].warns = WarningsOf(p.kind, panic), ![cursor].lost = lost]
  BY DEF InsertWarnings
<1> DEFINE ws == WarningsOf(p.kind, panic)
<1>3. /\ cursor \in 1..Len(pend) /\ Len(pend) \in Nat /\ p \in PreparedCalls(now, nextId)
      /\ nextWarn \in Nat \ {0} /\ now \in Nat
  BY <1>1, PendElement DEF Typed, Counters
<1>4. ws \in Seq(Codes) /\ Len(ws) \in Nat /\ DOMAIN ws = 1..Len(ws)
  BY <1>3, WarningsOfTyped, LenProperties DEF PreparedCalls
<1> HIDE DEF ws
<1>5. /\ nextWarn' \in Nat \ {0} /\ nextWarn' >= nextWarn
      /\ \A w \in warnings' : w.id \in 1..(nextWarn' - 1) /\ w.at \in 0..now
  <2>1. nextWarn' \in Nat \ {0} /\ nextWarn' >= nextWarn
    BY <1>2, <1>3, <1>4 DEF ws
  <2>2. ASSUME NEW w \in warnings' PROVE w.id \in 1..(nextWarn' - 1) /\ w.at \in 0..now
    <3>1. CASE w \in warnings
      BY <1>3, <2>1, <3>1 DEF Typed, TablesTyped
    <3>2. CASE w \notin warnings
      <4>1. ~lost /\ nextWarn' = nextWarn + Len(ws)
        BY <1>2, <3>2 DEF ws
      <4>2. PICK i \in 1..Len(ws) : w.id = nextWarn + i - 1 /\ w.at = now
        BY <1>2, <1>4, <3>2 DEF ws
      <4>3. QED
        BY <1>3, <1>4, <4>1, <4>2
    <3>3. QED
      BY <3>1, <3>2
  <2>3. QED
    BY <2>1, <2>2
<1>6. faults' \in 0..MaxFaults
  <2>1. Fault \/ UNCHANGED faults
    BY <1>2, Zenon
  <2>2. QED
    BY <2>1, Bounds DEF Fault, Typed, Counters
<1>7. Counters' /\ TablesTyped'
  BY <1>1, <1>5, <1>6 DEF Typed, Counters, TablesTyped
<1>8. pend' \in Seq(PreparedCalls(now, nextId)) /\ Len(pend') = Len(pend)
  <2>1. pend \in [1..Len(pend) -> PreparedCalls(now, nextId)]
    BY LenProperties DEF Typed, FlushTyped
  <2>2. [p EXCEPT !.warns = ws, !.lost = lost] \in PreparedCalls(now, nextId)
    BY <1>3, <1>4 DEF PreparedCalls
  <2>3. pend' = [pend EXCEPT ![cursor] = [p EXCEPT !.warns = ws, !.lost = lost]]
    BY <1>2, <1>3, <2>1 DEF ws
  <2>4. pend' \in [1..Len(pend) -> PreparedCalls(now, nextId)]
    BY <1>3, <2>1, <2>2, <2>3
  <2>5. QED
    BY <1>3, <2>4, IsASeq, LenProperties
<1>9. FlushTyped' /\ IdsSuffice'
  BY <1>1, <1>3, <1>8, Bounds DEF Typed, FlushTyped, IdsSuffice, WaitingIds, Counters
<1>10. QED
  BY <1>7, <1>9 DEF Typed

\* What a fold adds to the sessions table.
LEMMA UpsertTyped ==
  ASSUME Typed, NEW p \in PreparedCalls(now, nextId), p.session # NoSession
  PROVE  LET upserted == UpsertSession(p.session, Contribution(p))
         IN  /\ DOMAIN upserted \subseteq SessionIds
             /\ \A s \in DOMAIN upserted : upserted[s].prefix \in Prefixes
<1> DEFINE upserted == UpsertSession(p.session, Contribution(p))
<1>1. p.session \in SessionIds /\ p.kind \in Kinds
  BY DEF PreparedCalls, Grouping
<1>2. Contribution(p).prefix \in Prefixes
  BY <1>1 DEF Contribution, Prefixes
<1>3. \A old : Merge(old, Contribution(p)).prefix = old.prefix
  BY DEF Merge
<1>4. /\ DOMAIN upserted = DOMAIN sessions \cup {p.session}
      /\ \A s \in DOMAIN upserted :
           upserted[s] = IF s # p.session THEN sessions[s]
                         ELSE IF s \in DOMAIN sessions THEN Merge(sessions[s], Contribution(p))
                         ELSE Contribution(p)
  BY DEF UpsertSession
<1> HIDE DEF upserted
<1>5. QED
  BY <1>1, <1>2, <1>3, <1>4 DEF Typed, TablesTyped, upserted

LEMMA TypedRecordCall == Typed /\ RecordCall => Typed'
<1> SUFFICES ASSUME Typed, RecordCall PROVE Typed'
  OBVIOUS
<1> DEFINE p == pend[cursor]
<1>1. /\ phase = "fold" /\ NextCall(p, TRUE)
      /\ sessions' = IF p.session = NoSession THEN sessions
                     ELSE UpsertSession(p.session, Contribution(p))
      /\ skewed' = IF p.lost /\ p.session # NoSession THEN skewed \cup {p.session} ELSE skewed
      /\ UNCHANGED <<now, rows, warnings, nextId, nextWarn, calls, purges, faults>>
  BY DEF RecordCall
<1>2. p \in PreparedCalls(now, nextId)
  BY <1>1, PendElement
<1>3. skewed' \subseteq SessionIds
  BY <1>1, <1>2 DEF PreparedCalls, Grouping, Typed, TablesTyped
<1>4. /\ DOMAIN sessions' \subseteq SessionIds
      /\ \A s \in DOMAIN sessions' : sessions'[s].prefix \in Prefixes
  <2>1. CASE p.session = NoSession
    BY <1>1, <2>1 DEF Typed, TablesTyped
  <2>2. CASE p.session # NoSession
    <3> HIDE DEF p
    <3>1. QED
      BY <1>1, <1>2, <2>2, UpsertTyped
  <2>3. QED
    BY <2>1, <2>2
<1>5. Counters' /\ TablesTyped'
  BY <1>1, <1>3, <1>4 DEF Typed, Counters, TablesTyped
<1>6. QED
  BY <1>1, <1>5, NextCallTyped DEF Typed

LEMMA TypedRecordCallFails == Typed /\ RecordCallFails => Typed'
<1> SUFFICES ASSUME Typed, RecordCallFails PROVE Typed'
  OBVIOUS
<1> DEFINE p == pend[cursor]
<1>1. /\ phase = "fold" /\ NextCall(p, FALSE) /\ p.session # NoSession /\ Fault
      /\ skewed' = skewed \cup {p.session}
      /\ UNCHANGED <<now, rows, warnings, sessions, nextId, nextWarn, calls, purges>>
  BY DEF RecordCallFails, tables
<1>2. p \in PreparedCalls(now, nextId)
  BY <1>1, PendElement
<1>3. skewed' \subseteq SessionIds
  BY <1>1, <1>2 DEF PreparedCalls, Grouping, Typed, TablesTyped
<1>4. faults' \in 0..MaxFaults
  BY <1>1, Bounds DEF Fault, Typed, Counters
<1>5. Counters' /\ TablesTyped'
  BY <1>1, <1>3, <1>4 DEF Typed, Counters, TablesTyped
<1>6. QED
  BY <1>1, <1>5, NextCallTyped DEF Typed

\* The sessions that lose a row when S is purged.
Losing(S) == {rows[i].session : i \in S} \ {NoSession}

\* A purge takes sessions away, and rebuilds others under the key they have.
LEMMA PurgeWhereSessions ==
  ASSUME NEW S, PurgeWhere(S)
  PROVE  /\ DOMAIN sessions' =
              DOMAIN sessions \ {s \in Losing(S) : SessionRows(rows, s) \subseteq S}
         /\ \A s \in DOMAIN sessions' :
              /\ sessions'[s].prefix = sessions[s].prefix
              /\ s \notin Losing(S) => sessions'[s] = sessions[s]
              /\ s \in Losing(S) =>
                   sessions'[s] = SessionTotals(sessions[s].prefix, rows, warnings,
                                                SessionRows(rows, s) \ S)
<1> DEFINE rebuilt(s) == SessionTotals(sessions[s].prefix, rows, warnings, SessionRows(rows, s) \ S)
<1>1. \A s : rebuilt(s).prefix = sessions[s].prefix
  BY DEF SessionTotals
<1> HIDE DEF rebuilt
<1>2. sessions' = [s \in DOMAIN sessions \ {s \in Losing(S) : SessionRows(rows, s) \subseteq S} |->
                     IF s \in Losing(S) THEN rebuilt(s) ELSE sessions[s]]
  BY DEF PurgeWhere, rebuilt, Losing
<1>3. /\ DOMAIN sessions' = DOMAIN sessions \ {s \in Losing(S) : SessionRows(rows, s) \subseteq S}
      /\ \A s \in DOMAIN sessions' : /\ sessions'[s].prefix = sessions[s].prefix
                                     /\ s \notin Losing(S) => sessions'[s] = sessions[s]
                                     /\ s \in Losing(S) => sessions'[s] = rebuilt(s)
  BY <1>1, <1>2
<1>4. QED
  BY <1>3 DEF rebuilt

LEMMA PurgeWhereKeys ==
  ASSUME NEW S, PurgeWhere(S)
  PROVE  /\ DOMAIN sessions' \subseteq DOMAIN sessions
         /\ \A s \in DOMAIN sessions' : sessions'[s].prefix = sessions[s].prefix
<1>1. DOMAIN sessions' \subseteq DOMAIN sessions
  BY PurgeWhereSessions
<1>2. ASSUME NEW s \in DOMAIN sessions' PROVE sessions'[s].prefix = sessions[s].prefix
  BY PurgeWhereSessions
<1>3. QED
  BY <1>1, <1>2

\* It takes rows and warnings away, and clears the links to the rows.
LEMMA PurgeWhereRows ==
  ASSUME NEW S, PurgeWhere(S)
  PROVE  /\ DOMAIN rows' = DOMAIN rows \ S
         /\ \A i \in DOMAIN rows' :
              rows'[i] = [rows[i] EXCEPT !.replayOf = IF @ \in S THEN NoId ELSE @]
         /\ warnings' \subseteq warnings
         /\ skewed' \subseteq skewed \cup Losing(S)
<1>1. /\ DOMAIN rows' = DOMAIN rows \ S
      /\ \A i \in DOMAIN rows' :
           rows'[i] = [rows[i] EXCEPT !.replayOf = IF @ \in S THEN NoId ELSE @]
  BY DEF PurgeWhere
<1>2. warnings' \subseteq warnings
  BY DEF PurgeWhere
<1>3. skewed' \subseteq skewed \cup Losing(S)
  BY DEF PurgeWhere, Losing
<1>4. QED
  BY <1>1, <1>2, <1>3

LEMMA PurgeTakesRows ==
  ASSUME Purge
  PROVE  /\ \E S : S \subseteq DOMAIN rows /\ PurgeWhere(S)
         /\ purges < MaxPurges /\ purges' = purges + 1
         /\ UNCHANGED <<now, nextId, nextWarn, phase, pend, cursor, seen, calls, log, faults>>
  BY DEF Purge, OlderThan, UnpricedRows, flush

LEMMA TypedPurge == Typed /\ Purge => Typed'
<1> SUFFICES ASSUME Typed, Purge PROVE Typed'
  OBVIOUS
<1>1. PICK S : S \subseteq DOMAIN rows /\ PurgeWhere(S)
  BY PurgeTakesRows
<1>2. /\ purges < MaxPurges /\ purges' = purges + 1
      /\ UNCHANGED <<now, nextId, nextWarn, phase, pend, cursor, seen, calls, log, faults>>
  BY PurgeTakesRows
<1>3. /\ DOMAIN rows' = DOMAIN rows \ S
      /\ \A i \in DOMAIN rows' :
           rows'[i] = [rows[i] EXCEPT !.replayOf = IF @ \in S THEN NoId ELSE @]
      /\ warnings' \subseteq warnings /\ DOMAIN sessions' \subseteq DOMAIN sessions
      /\ \A s \in DOMAIN sessions' : sessions'[s].prefix = sessions[s].prefix
      /\ skewed' \subseteq skewed \cup Losing(S)
  BY <1>1, PurgeWhereRows, PurgeWhereKeys
<1>4. Counters'
  BY <1>2, Bounds DEF Typed, Counters
<1>5. ASSUME NEW i \in DOMAIN rows' PROVE rows'[i] \in RowsAt(i, now)
  <2>1. rows[i] \in RowsAt(i, now) /\ i \in Nat \ {0}
    BY <1>3 DEF Typed, TablesTyped, Counters
  <2>2. QED
    BY <1>3, <2>1 DEF RowsAt, NoId
<1>6. Losing(S) \subseteq SessionIds
  BY <1>1 DEF Losing, Typed, TablesTyped, RowsAt, Grouping
<1>7. TablesTyped'
  BY <1>2, <1>3, <1>5, <1>6 DEF Typed, TablesTyped
<1>8. FlushTyped' /\ IdsSuffice'
  BY <1>2 DEF Typed, FlushTyped, IdsSuffice, WaitingIds
<1>9. QED
  BY <1>4, <1>7, <1>8 DEF Typed

LEMMA TypedStep == Typed /\ [Next]_vars => Typed'
<1> SUFFICES ASSUME Typed, [Next]_vars PROVE Typed'
  OBVIOUS
<1>1. CASE UNCHANGED vars
  BY <1>1 DEF vars, tables, flush, Typed, Counters, TablesTyped, FlushTyped, IdsSuffice, WaitingIds
<1>2. QED
  BY <1>1, TypedTick, TypedPrepareCall, TypedInsertRequests, TypedFallBack, TypedInsertOne,
     TypedRefuseOne, TypedSkipCall, TypedInsertWarnings, TypedRecordCall, TypedRecordCallFails,
     TypedPurge DEF Next

\* Every reachable state is typed: in particular no call takes two ids, a
\* replay points at an older row, and every session id is one a header named
\* or a flush minted.
THEOREM SessionsTyped == Spec => []TypeOK
<1>1. Typed => TypeOK
  <2> SUFFICES ASSUME Typed PROVE TypeOK
    OBVIOUS
  <2>1. nextId \in 1..(MaxCalls + 1)
    <3>1. WaitingIds \in Nat
      BY PendElement DEF WaitingIds, Typed, FlushTyped
    <3>2. QED
      BY <3>1, Bounds DEF Typed, Counters, IdsSuffice
  <2>2. QED
    BY <2>1 DEF Typed, Counters, TablesTyped, FlushTyped, RowsAt, Grouping, TypeOK
<1>2. QED
  BY <1>1, TypedInit, TypedStep, PTL DEF Spec

-----------------------------------------------------------------------------
(***************************************************************************)
(* What the inserts do to the rows and to the prepared calls.              *)
(***************************************************************************)

\* What of a prepared call is settled when it is prepared.
Prepared(p) == <<p.kind, p.started, p.session, p.replayOf, p.at>>

\* An insert keeps every row and adds rows of calls whose references hold.
LEMMA InsertsAddRows ==
  ASSUME Typed, InsertRequests \/ InsertOne
  PROVE  /\ DOMAIN rows \subseteq DOMAIN rows'
         /\ \A i \in DOMAIN rows : rows'[i] = rows[i]
         /\ \A i \in DOMAIN rows' \ DOMAIN rows :
              \E c \in DOMAIN pend : References(pend[c]) /\ rows'[i] = RowOf(pend[c])
<1>1. nextId \in Nat \ {0} /\ nextId \notin DOMAIN rows
  BY DEF Typed, Counters, TablesTyped
<1>2. Len(pend) \in Nat /\ DOMAIN pend = 1..Len(pend)
  BY PendElement
<1>3. CASE InsertRequests
  <2>1. /\ \A c \in DOMAIN pend : References(pend[c])
        /\ rows' = [id \in DOMAIN rows \cup (nextId .. nextId + Len(pend) - 1) |->
                      IF id \in DOMAIN rows THEN rows[id] ELSE RowOf(pend[id - nextId + 1])]
    BY <1>3 DEF InsertRequests
  <2>2. ASSUME NEW i \in DOMAIN rows' \ DOMAIN rows
        PROVE  \E c \in DOMAIN pend : References(pend[c]) /\ rows'[i] = RowOf(pend[c])
    <3>1. i \in nextId .. nextId + Len(pend) - 1 /\ rows'[i] = RowOf(pend[i - nextId + 1])
      BY <2>1
    <3>2. i - nextId + 1 \in DOMAIN pend
      BY <1>1, <1>2, <3>1
    <3>3. QED
      BY <2>1, <3>1, <3>2
  <2>3. QED
    BY <2>1, <2>2
<1>4. CASE InsertOne
  <2>1. /\ References(pend[cursor])
        /\ rows' = [id \in DOMAIN rows \cup {nextId} |->
                      IF id = nextId THEN RowOf(pend[cursor]) ELSE rows[id]]
    BY <1>4 DEF InsertOne
  <2>2. cursor \in DOMAIN pend
    BY <1>4, PendElement DEF InsertOne
  <2>3. QED
    BY <1>1, <2>1, <2>2
<1>5. QED
  BY <1>3, <1>4

\* Nothing that a call was prepared with changes before the flush is done.
LEMMA PreparedKept ==
  ASSUME Typed, InsertRequests \/ InsertOne \/ InsertWarnings
  PROVE  /\ DOMAIN pend' = DOMAIN pend
         /\ \A c \in DOMAIN pend : Prepared(pend'[c]) = Prepared(pend[c])
         /\ seen' = seen
<1>1. CASE InsertRequests
  <2>1. ASSUME NEW c \in DOMAIN pend
        PROVE  Prepared([pend[c] EXCEPT !.id = nextId + c - 1]) = Prepared(pend[c])
    <3>1. pend[c] \in PreparedCalls(now, nextId)
      BY PendElement
    <3>2. QED
      BY <3>1 DEF Prepared, PreparedCalls
  <2>2. QED
    BY <1>1, <2>1 DEF InsertRequests
<1>2. CASE InsertOne
  <2>1. /\ pend' = [pend EXCEPT ![cursor] = [pend[cursor] EXCEPT !.id = nextId]]
        /\ seen' = seen /\ cursor \in DOMAIN pend /\ pend[cursor] \in PreparedCalls(now, nextId)
    BY <1>2, PendElement DEF InsertOne
  <2>2. Prepared([pend[cursor] EXCEPT !.id = nextId]) = Prepared(pend[cursor])
    BY <2>1 DEF Prepared, PreparedCalls
  <2>3. QED
    BY <2>1, <2>2
<1>3. CASE InsertWarnings
  <2>1. PICK ws, lost : pend' = [pend EXCEPT ![cursor].warns = ws, ![cursor].lost = lost]
    BY <1>3 DEF InsertWarnings
  <2>2. cursor \in DOMAIN pend /\ pend[cursor] \in PreparedCalls(now, nextId) /\ seen' = seen
    BY <1>3, PendElement DEF InsertWarnings
  <2>3. pend' = [pend EXCEPT ![cursor] = [pend[cursor] EXCEPT !.warns = ws, !.lost = lost]]
    BY <2>1, <2>2
  <2>4. Prepared([pend[cursor] EXCEPT !.warns = ws, !.lost = lost]) = Prepared(pend[cursor])
    BY <2>2 DEF Prepared, PreparedCalls
  <2>5. QED
    BY <2>2, <2>3, <2>4
<1>4. QED
  BY <1>1, <1>2, <1>3

\* The steps that finish a call keep the rest of the flush, or end it.
LEMMA FinishingSteps ==
  ASSUME SkipCall \/ RecordCall \/ RecordCallFails
  PROVE  /\ rows' = rows /\ warnings' = warnings /\ nextId' = nextId /\ now' = now
         /\ \/ pend' = pend /\ seen' = seen
            \/ pend' = <<>> /\ seen' = <<>>
  BY DEF SkipCall, RecordCall, RecordCallFails, NextCall, tables

-----------------------------------------------------------------------------
(***************************************************************************)
(* References.                                                             *)
(***************************************************************************)

LEMMA ReferencesInserts ==
  ASSUME Typed, ReferencesIntact, InsertRequests \/ InsertOne
  PROVE  ReferencesIntact'
<1>1. warnings' = warnings
  BY DEF InsertRequests, InsertOne
<1>2. ASSUME NEW i \in DOMAIN rows' PROVE rows'[i].replayOf \in DOMAIN rows' \cup {NoId}
  <2>1. CASE i \in DOMAIN rows
    BY <2>1, InsertsAddRows DEF ReferencesIntact
  <2>2. CASE i \notin DOMAIN rows
    <3>1. PICK c \in DOMAIN pend : References(pend[c]) /\ rows'[i] = RowOf(pend[c])
      BY <2>2, InsertsAddRows
    <3>2. rows'[i].replayOf \in DOMAIN rows \cup {NoId}
      BY <3>1 DEF References, RowOf
    <3>3. QED
      BY <3>2, InsertsAddRows
  <2>3. QED
    BY <2>1, <2>2
<1>3. \A w \in warnings' : w.request \in DOMAIN rows'
  BY <1>1, InsertsAddRows DEF ReferencesIntact
<1>4. QED
  BY <1>2, <1>3 DEF ReferencesIntact

\* A warning is written in the transaction that looks for its row.
LEMMA ReferencesInsertWarnings ==
  ASSUME Typed, ReferencesIntact, InsertWarnings
  PROVE  ReferencesIntact'
<1> DEFINE p == pend[cursor]
<1>1. PICK panic \in BOOLEAN, lost \in BOOLEAN :
        /\ WarningsOf(p.kind, panic) # <<>> /\ p.id \notin DOMAIN rows => lost
        /\ warnings' = IF lost THEN warnings ELSE warnings \cup
             {[id |-> nextWarn + i - 1, request |-> p.id, kind |-> WarningsOf(p.kind, panic)[i],
               at |-> now] : i \in DOMAIN WarningsOf(p.kind, panic)}
  BY DEF InsertWarnings
<1>2. rows' = rows
  BY DEF InsertWarnings
<1> DEFINE ws == WarningsOf(p.kind, panic)
<1>3. ws = <<>> => DOMAIN ws = {}
  BY EmptySeq
<1> HIDE DEF ws
<1>4. ASSUME NEW w \in warnings' PROVE w.request \in DOMAIN rows
  <2>1. CASE w \in warnings
    BY <2>1 DEF ReferencesIntact
  <2>2. CASE w \notin warnings
    <3>1. ~lost /\ w.request = p.id /\ DOMAIN ws # {}
      BY <1>1, <2>2 DEF ws
    <3>2. QED
      BY <1>1, <1>3, <3>1 DEF ws
  <2>3. QED
    BY <2>1, <2>2
<1>5. QED
  BY <1>2, <1>4 DEF ReferencesIntact

\* A purge clears the links to the rows it deletes and drops their warnings.
LEMMA ReferencesPurge ==
  ASSUME Typed, ReferencesIntact, Purge
  PROVE  ReferencesIntact'
<1>1. PICK S : S \subseteq DOMAIN rows /\ PurgeWhere(S)
  BY PurgeTakesRows
<1>2. /\ DOMAIN rows' = DOMAIN rows \ S
      /\ \A i \in DOMAIN rows' :
           rows'[i] = [rows[i] EXCEPT !.replayOf = IF @ \in S THEN NoId ELSE @]
      /\ warnings' = {w \in warnings : w.request \in DOMAIN rows \ S}
  BY <1>1 DEF PurgeWhere
<1>3. ASSUME NEW i \in DOMAIN rows' PROVE rows'[i].replayOf \in DOMAIN rows' \cup {NoId}
  <2>1. rows[i].replayOf \in DOMAIN rows \cup {NoId} /\ rows[i] \in RowsAt(i, now)
    BY <1>2 DEF ReferencesIntact, Typed, TablesTyped
  <2>2. rows'[i].replayOf = IF rows[i].replayOf \in S THEN NoId ELSE rows[i].replayOf
    BY <1>2, <2>1 DEF RowsAt
  <2>3. QED
    BY <1>2, <2>1, <2>2
<1>4. QED
  BY <1>2, <1>3 DEF ReferencesIntact

LEMMA ReferencesStep == Typed /\ ReferencesIntact /\ [Next]_vars => ReferencesIntact'
<1> SUFFICES ASSUME Typed, ReferencesIntact, [Next]_vars PROVE ReferencesIntact'
  OBVIOUS
<1>1. CASE UNCHANGED vars
  BY <1>1 DEF vars, tables, ReferencesIntact
<1>2. CASE Tick \/ PrepareCall \/ FallBack \/ RefuseOne
  BY <1>2 DEF Tick, PrepareCall, FallBack, RefuseOne, tables, ReferencesIntact
<1>3. CASE SkipCall \/ RecordCall \/ RecordCallFails
  BY <1>3, FinishingSteps DEF ReferencesIntact
<1>4. QED
  BY <1>1, <1>2, <1>3, ReferencesInserts, ReferencesInsertWarnings, ReferencesPurge DEF Next

\* No row replays a row that is gone and no warning outlives its request,
\* whatever a purge deletes between the steps of a flush: the insert looks
\* for the original again (foreign_keys, InsertRequest) and the warnings'
\* transaction for the request (InsertWarnings).
THEOREM SessionsReferencesIntact == Spec => []ReferencesIntact
<1>1. Init => ReferencesIntact
  BY EmptySeq DEF Init, ReferencesIntact
<1>2. QED
  BY <1>1, TypedInit, TypedStep, ReferencesStep, PTL DEF Spec

-----------------------------------------------------------------------------
-----------------------------------------------------------------------------
(***************************************************************************)
(* Keys.                                                                   *)
(***************************************************************************)

\* The prefix_hash of a session, read off its id.
PrefixColumn(sid) == IF sid[1] = "h" THEN HeaderKey ELSE sid[3]

\* Every call, memo entry and session agrees with the id of its session.
CallsKeyed ==
  /\ \A i \in DOMAIN rows : rows[i].session # NoSession =>
       GroupKey(rows[i].session) = KeyOf(rows[i].kind)
  /\ \A c \in DOMAIN pend : pend[c].session # NoSession =>
       GroupKey(pend[c].session) = KeyOf(pend[c].kind)
MemoKeyed == \A k \in DOMAIN seen : GroupKey(seen[k]) = k
SessionsKeyed == \A s \in DOMAIN sessions : sessions[s].prefix = PrefixColumn(s)
Keyed == CallsKeyed /\ MemoKeyed /\ SessionsKeyed

\* A lookup by prefix never finds a session that a header named: that one's
\* prefix_hash is NULL.
LEMMA ResolveKeyed ==
  ASSUME Typed, SessionsKeyed, NEW kind \in Kinds, NEW sid \in Resolve(kind)
  PROVE  GroupKey(sid) = KeyOf(kind)
<1>1. CASE kind.header # NoHeader
  BY <1>1, KeyShapes DEF Resolve
<1>2. CASE kind.header = NoHeader /\ sid \in LatestSessions(sessions, kind.prefix)
  <2>1. sid \in DOMAIN sessions /\ sessions[sid].prefix = kind.prefix
    BY <1>2 DEF LatestSessions
  <2>2. kind.prefix # HeaderKey /\ PrefixColumn(sid) = kind.prefix
    BY <2>1, Bounds DEF SessionsKeyed
  <2>3. GroupKey(sid) = <<"p", kind.prefix>>
    BY <2>2 DEF PrefixColumn, GroupKey
  <2>4. QED
    BY <1>2, <2>3, KeyShapes
<1>3. CASE kind.header = NoHeader /\ sid \notin LatestSessions(sessions, kind.prefix)
  <2>1. sid = NewID(kind.prefix)
    BY <1>3 DEF Resolve
  <2>2. now \in 0..MaxTime
    BY DEF Typed, Counters
  <2>3. GroupKey(sid) = <<"p", kind.prefix>>
    BY <2>1, <2>2, KeyShapes DEF NewID
  <2>4. QED
    BY <1>3, <2>3, KeyShapes
<1>4. QED
  BY <1>1, <1>2, <1>3

LEMMA KeyedPrepareCall == ASSUME Typed, Keyed, PrepareCall PROVE Keyed'
<1>1. UNCHANGED <<rows, sessions>>
  BY DEF PrepareCall, tables
<1>2. PICK kind \in Kinds, age \in 0..Backdate :
        \E of \in (IF kind.replay THEN DOMAIN rows ELSE {NoId}) :
          \E sid \in (IF KeyOf(kind) \in DOMAIN seen THEN {seen[KeyOf(kind)]}
                      ELSE Resolve(kind) \cup {NoSession}) :
             /\ seen' = Remember(KeyOf(kind), sid)
             /\ pend' = Append(pend,
                  [kind |-> kind, started |-> now - age, session |-> sid, replayOf |-> of,
                   id |-> NoId, at |-> now, warns |-> <<>>, lost |-> FALSE])
  BY DEF PrepareCall
<1>3. PICK of \in (IF kind.replay THEN DOMAIN rows ELSE {NoId}),
           sid \in (IF KeyOf(kind) \in DOMAIN seen THEN {seen[KeyOf(kind)]}
                    ELSE Resolve(kind) \cup {NoSession}) :
        /\ seen' = Remember(KeyOf(kind), sid)
        /\ pend' = Append(pend,
             [kind |-> kind, started |-> now - age, session |-> sid, replayOf |-> of,
              id |-> NoId, at |-> now, warns |-> <<>>, lost |-> FALSE])
  BY <1>2
<1> DEFINE p == [kind |-> kind, started |-> now - age, session |-> sid, replayOf |-> of,
                 id |-> NoId, at |-> now, warns |-> <<>>, lost |-> FALSE]
<1>4. sid # NoSession => GroupKey(sid) = KeyOf(kind)
  BY <1>3, ResolveKeyed DEF Keyed, MemoKeyed
<1>5. MemoKeyed'
  BY <1>3, <1>4 DEF Remember, Keyed, MemoKeyed
<1>6. /\ Len(pend) \in Nat /\ DOMAIN pend = 1..Len(pend)
      /\ DOMAIN pend' = 1..(Len(pend) + 1)
      /\ \A c \in DOMAIN pend : pend'[c] = pend[c]
      /\ pend'[Len(pend) + 1] = p
  BY <1>3, LenProperties, AppendProperties DEF Typed, FlushTyped
<1>7. ASSUME NEW c \in DOMAIN pend', pend'[c].session # NoSession
      PROVE  GroupKey(pend'[c].session) = KeyOf(pend'[c].kind)
  <2>1. CASE c \in DOMAIN pend
    BY <1>6, <1>7, <2>1 DEF Keyed, CallsKeyed
  <2>2. CASE c \notin DOMAIN pend
    <3>1. pend'[c] = p
      BY <1>6, <2>2
    <3>2. QED
      BY <1>4, <1>7, <3>1
  <2>3. QED
    BY <2>1, <2>2
<1>8. CallsKeyed'
  BY <1>1, <1>7 DEF Keyed, CallsKeyed
<1>9. QED
  BY <1>1, <1>5, <1>8 DEF Keyed, SessionsKeyed

LEMMA KeyedInserts ==
  ASSUME Typed, Keyed, InsertRequests \/ InsertOne \/ InsertWarnings
  PROVE  Keyed'
<1>1. sessions' = sessions
  BY DEF InsertRequests, InsertOne, InsertWarnings
<1>2. /\ DOMAIN pend' = DOMAIN pend /\ seen' = seen
      /\ \A c \in DOMAIN pend : pend'[c].session = pend[c].session /\ pend'[c].kind = pend[c].kind
  BY PreparedKept DEF Prepared
<1>3. ASSUME NEW i \in DOMAIN rows', rows'[i].session # NoSession
      PROVE  GroupKey(rows'[i].session) = KeyOf(rows'[i].kind)
  <2>1. CASE InsertWarnings
    BY <1>3, <2>1 DEF InsertWarnings, Keyed, CallsKeyed
  <2>2. CASE ~ InsertWarnings /\ i \in DOMAIN rows
    BY <1>3, <2>2, InsertsAddRows DEF Keyed, CallsKeyed
  <2>3. CASE ~ InsertWarnings /\ i \notin DOMAIN rows
    <3>1. PICK c \in DOMAIN pend : rows'[i] = RowOf(pend[c])
      BY <2>3, InsertsAddRows
    <3>2. QED
      BY <1>3, <3>1 DEF RowOf, Keyed, CallsKeyed
  <2>4. QED
    BY <2>1, <2>2, <2>3
<1>4. CallsKeyed'
  BY <1>2, <1>3 DEF Keyed, CallsKeyed
<1>5. QED
  BY <1>1, <1>2, <1>4 DEF Keyed, MemoKeyed, SessionsKeyed

\* A fold opens a session under the prefix_hash that its id stands for.
LEMMA ContributionKeyed ==
  ASSUME NEW p, p.kind \in Kinds, p.session \in SessionIds, GroupKey(p.session) = KeyOf(p.kind)
  PROVE  Contribution(p).prefix = PrefixColumn(p.session)
<1>1. Contribution(p).prefix = IF p.kind.header # NoHeader /\ p.session = KeyOf(p.kind)
                               THEN HeaderKey ELSE p.kind.prefix
  BY DEF Contribution
<1>2. CASE p.session[1] = "h"
  <2>1. p.session = KeyOf(p.kind) /\ KeyOf(p.kind)[1] = "h"
    BY <1>2 DEF GroupKey
  <2>2. p.kind.header # NoHeader
    BY <2>1 DEF KeyOf
  <2>3. QED
    BY <1>1, <1>2, <2>1, <2>2 DEF PrefixColumn
<1>3. CASE p.session[1] # "h"
  <2>1. KeyOf(p.kind) = <<"p", p.session[3]>> /\ KeyOf(p.kind)[1] # "h"
    BY <1>3 DEF GroupKey
  <2>2. p.kind.header = NoHeader
    BY <2>1 DEF KeyOf
  <2>3. <<"p", p.kind.prefix>> = <<"p", p.session[3]>>
    BY <2>1, <2>2 DEF KeyOf
  <2>4. p.kind.prefix = p.session[3]
    BY <2>3
  <2>5. QED
    BY <1>1, <1>3, <2>2, <2>4 DEF PrefixColumn
<1>4. QED
  BY <1>2, <1>3

LEMMA KeyedRecordCall == ASSUME Typed, Keyed, RecordCall PROVE SessionsKeyed'
<1> DEFINE p == pend[cursor]
<1>1. /\ phase = "fold"
      /\ sessions' = IF p.session = NoSession THEN sessions
                     ELSE UpsertSession(p.session, Contribution(p))
  BY DEF RecordCall
<1>2. cursor \in DOMAIN pend /\ p \in PreparedCalls(now, nextId)
  BY <1>1, PendElement
<1>3. CASE p.session # NoSession
  <2>1. p.kind \in Kinds /\ p.session \in SessionIds /\ GroupKey(p.session) = KeyOf(p.kind)
    BY <1>2, <1>3 DEF PreparedCalls, Grouping, Keyed, CallsKeyed
  <2> HIDE DEF p
  <2>2. Contribution(p).prefix = PrefixColumn(p.session)
    BY <2>1, ContributionKeyed
  <2>3. \A old : Merge(old, Contribution(p)).prefix = old.prefix
    BY DEF Merge
  <2>4. sessions' = [s \in DOMAIN sessions \cup {p.session} |->
                       IF s # p.session THEN sessions[s]
                       ELSE IF s \in DOMAIN sessions THEN Merge(sessions[s], Contribution(p))
                       ELSE Contribution(p)]
    BY <1>1, <1>3 DEF UpsertSession
  <2>5. QED
    BY <2>2, <2>3, <2>4 DEF Keyed, SessionsKeyed
<1>4. QED
  BY <1>1, <1>3 DEF Keyed, SessionsKeyed

LEMMA KeyedFinish ==
  ASSUME Typed, Keyed, SkipCall \/ RecordCall \/ RecordCallFails
  PROVE  Keyed'
<1>1. CallsKeyed' /\ MemoKeyed'
  <2>1. DOMAIN <<>> = {}
    BY EmptySeq
  <2>2. QED
    BY <2>1, FinishingSteps DEF Keyed, CallsKeyed, MemoKeyed
<1>2. SessionsKeyed'
  BY KeyedRecordCall DEF SkipCall, RecordCallFails, tables, Keyed, SessionsKeyed
<1>3. QED
  BY <1>1, <1>2 DEF Keyed

LEMMA KeyedPurge == ASSUME Typed, Keyed, Purge PROVE Keyed'
<1>1. PICK S : S \subseteq DOMAIN rows /\ PurgeWhere(S)
  BY PurgeTakesRows
<1>2. UNCHANGED <<pend, seen>>
  BY PurgeTakesRows
<1>3. /\ DOMAIN rows' \subseteq DOMAIN rows
      /\ \A i \in DOMAIN rows' :
           rows'[i] = [rows[i] EXCEPT !.replayOf = IF @ \in S THEN NoId ELSE @]
      /\ DOMAIN sessions' \subseteq DOMAIN sessions
      /\ \A s \in DOMAIN sessions' : sessions'[s].prefix = sessions[s].prefix
  BY <1>1, PurgeWhereRows, PurgeWhereKeys
<1>4. ASSUME NEW i \in DOMAIN rows'
      PROVE  rows'[i].session = rows[i].session /\ rows'[i].kind = rows[i].kind
  <2>1. rows[i] \in RowsAt(i, now)
    BY <1>3 DEF Typed, TablesTyped
  <2>2. QED
    BY <1>3, <2>1 DEF RowsAt
<1>5. CallsKeyed' /\ MemoKeyed'
  BY <1>2, <1>3, <1>4 DEF Keyed, CallsKeyed, MemoKeyed
<1>6. SessionsKeyed'
  BY <1>3 DEF Keyed, SessionsKeyed
<1>7. QED
  BY <1>5, <1>6 DEF Keyed

LEMMA KeyedStep == Typed /\ Keyed /\ [Next]_vars => Keyed'
<1> SUFFICES ASSUME Typed, Keyed, [Next]_vars PROVE Keyed'
  OBVIOUS
<1>1. CASE UNCHANGED vars \/ Tick \/ FallBack \/ RefuseOne
  <2>1. UNCHANGED <<rows, sessions, pend, seen>>
    BY <1>1 DEF vars, tables, flush, Tick, FallBack, RefuseOne
  <2>2. QED
    BY <2>1 DEF Keyed, CallsKeyed, MemoKeyed, SessionsKeyed
<1>2. QED
  BY <1>1, KeyedPrepareCall, KeyedInserts, KeyedFinish, KeyedPurge DEF Next

LEMMA KeyedApart == Typed /\ Keyed => KeysApart
<1> SUFFICES ASSUME Typed, Keyed PROVE KeysApart
  OBVIOUS
<1>1. \A i, j \in DOMAIN rows :
        rows[i].session = rows[j].session /\ rows[i].session # NoSession
          => KeyOf(rows[i].kind) = KeyOf(rows[j].kind)
  BY DEF Keyed, CallsKeyed
<1>2. ASSUME NEW i \in DOMAIN rows, rows[i].session \in DOMAIN sessions
      PROVE  (sessions[rows[i].session].prefix = HeaderKey) = (rows[i].kind.header # NoHeader)
  <2> DEFINE s == rows[i].session
             k == rows[i].kind
  <2>1. k \in Kinds /\ s \in SessionIds /\ s # NoSession
    BY <1>2, IdShapes DEF Typed, TablesTyped, RowsAt
  <2>2. sessions[s].prefix = PrefixColumn(s) /\ GroupKey(s) = KeyOf(k)
    BY <1>2, <2>1 DEF Keyed, CallsKeyed, SessionsKeyed
  <2>3. CASE k.header # NoHeader
    <3>1. GroupKey(s)[1] = "h"
      BY <2>1, <2>2, <2>3, KeyShapes
    <3>2. s[1] = "h"
      BY <3>1 DEF GroupKey
    <3>3. QED
      BY <2>2, <2>3, <3>2 DEF PrefixColumn
  <2>4. CASE k.header = NoHeader
    <3>1. GroupKey(s) = <<"p", k.prefix>> /\ k.prefix # HeaderKey
      BY <2>1, <2>2, <2>4, KeyShapes, Bounds
    <3>2. s[1] # "h" /\ <<"p", s[3]>> = <<"p", k.prefix>>
      BY <3>1 DEF GroupKey
    <3>3. s[3] = k.prefix
      BY <3>2
    <3>4. QED
      BY <2>2, <2>4, <3>1, <3>2, <3>3 DEF PrefixColumn
  <2>5. QED
    BY <2>3, <2>4
<1>3. QED
  BY <1>1, <1>2 DEF KeysApart

\* A session holds the calls of one header, or of one body prefix, and its
\* prefix_hash says which: for every gap, every mix of calls in a flush and
\* every purge, neither the memo nor the lookup by prefix ever crosses them
\* (Resolve, flushBatch, RecordCall).
THEOREM SessionsKeysApart == Spec => []KeysApart
<1>1. Init => Keyed
  BY EmptySeq DEF Init, Keyed, CallsKeyed, MemoKeyed, SessionsKeyed
<1>2. QED
  BY <1>1, TypedInit, TypedStep, KeyedStep, KeyedApart, PTL DEF Spec

-----------------------------------------------------------------------------
(***************************************************************************)
(* Grouping: what the log, the rows, the sessions and the flush that is    *)
(* under way know of each other.                                           *)
(***************************************************************************)

Keys == {KeyOf(k) : k \in Kinds}

\* An entry of the log, when the clock shows t and n is the next id.
LogEntries(t, n) ==
  [id : 0..(n - 1), session : Grouping, key : Keys, at : 0..t, started : 0..t,
   folded : BOOLEAN, flush : Nat]

LogTyped == log \in Seq(LogEntries(now, nextId))

\* The flush is past its insert: it finishes its calls one by one.
Working == phase \in {"warn", "fold"}

\* The length of the log when the flush began to finish its calls.
Base == IF Working THEN Len(log) - (cursor - 1) ELSE Len(log)

\* The calls of the flush that are not in the log.
Waiting == {c \in DOMAIN pend : Working => c >= cursor}

\* A session was minted no later than t.
Minted(sid, t) == sid # NoSession /\ sid[1] # "h" => sid[2] <= t

SessionsMinted ==
  /\ \A j \in DOMAIN log : Minted(log[j].session, log[j].at)
  /\ \A c \in DOMAIN pend : Minted(pend[c].session, pend[c].at)
  /\ \A k \in DOMAIN seen : Minted(seen[k], now)
  /\ \A s \in DOMAIN sessions : Minted(s, now)

LogKeyed ==
  \A j \in DOMAIN log : log[j].session # NoSession => GroupKey(log[j].session) = log[j].key

NotInserted ==
  \A c \in DOMAIN pend :
    phase = "prepare" \/ (phase = "insert" /\ c >= cursor) => pend[c].id = NoId

\* The flush's finished calls are the end of the log.
FlushLogged ==
  Working =>
    /\ Base >= 0
    /\ \A d \in 1..(cursor - 1) :
         /\ log[Base + d].key = KeyOf(pend[d].kind)
         /\ log[Base + d].session = pend[d].session
         /\ log[Base + d].flush = log[Len(log)].flush

\* Every row is that of a call in the log or of this flush ...
RowsKnown ==
  \A i \in DOMAIN rows :
    (\E j \in DOMAIN log : log[j].id = i) \/ (\E c \in Waiting : pend[c].id = i)

\* ... and shows what the call was prepared with.
SameCall(e, f) == e.session = f.session /\ e.started = f.started
RowsMatch ==
  /\ \A j \in DOMAIN log : log[j].id \in DOMAIN rows => SameCall(rows[log[j].id], log[j])
  /\ \A c \in DOMAIN pend : pend[c].id \in DOMAIN rows => SameCall(rows[pend[c].id], pend[c])

\* last_seen is when some call of the session started.
LastKnown ==
  \A s \in DOMAIN sessions :
    \/ \E j \in DOMAIN log : log[j].session = s /\ log[j].started = sessions[s].last
    \/ \E c \in Waiting : /\ pend[c].id # NoId
                          /\ pend[c].session = s /\ pend[c].started = sessions[s].last

\* A folded call whose row is there counts in its session's last_seen.
FoldsCount ==
  \A j \in DOMAIN log :
    log[j].folded /\ log[j].session # NoSession /\ log[j].id \in DOMAIN rows =>
      log[j].session \in DOMAIN sessions /\ log[j].started <= sessions[log[j].session].last

\* The memo is the sessions of the flush's calls.
MemoKnown ==
  /\ \A k \in DOMAIN seen :
       \E c \in DOMAIN pend : KeyOf(pend[c].kind) = k /\ pend[c].session = seen[k]
  /\ \A c \in DOMAIN pend : pend[c].session # NoSession => KeyOf(pend[c].kind) \in DOMAIN seen

\* A waiting call shares its session with an earlier call of the flush, ...
Joins(c) ==
  \E d \in 1..(c - 1) :
    KeyOf(pend[d].kind) = KeyOf(pend[c].kind) /\ pend[d].session = pend[c].session

\* ... with one of the first n calls of the log that is close to it, ...
NearTo(e, f) == e.at - f.started <= WindowOf(e.key[2])
Continues(e, n) ==
  \E i \in 1..n : /\ log[i].key = e.key /\ log[i].session = e.session
                  /\ log[i].at = e.at \/ NearTo(e, log[i])

\* ... or with none, and then no earlier call of its key could be joined.
Opens(e, n) ==
  \A i \in 1..n : log[i].key = e.key =>
    /\ log[i].session # e.session
    /\ log[i].folded /\ log[i].session # NoSession /\ log[i].id \in DOMAIN rows
         => ~ NearTo(e, log[i])
Alone(c) ==
  \A d \in 1..(c - 1) :
    KeyOf(pend[d].kind) = KeyOf(pend[c].kind) => pend[d].session = NoSession

Entry(p) == [key |-> KeyOf(p.kind), session |-> p.session, at |-> p.at]

PlacedAt(c) ==
  Joins(c) \/ Continues(Entry(pend[c]), Base) \/ (Alone(c) /\ Opens(Entry(pend[c]), Base))

Placed ==
  \A c \in Waiting :
    pend[c].session # NoSession /\ KeyOf(pend[c].kind)[1] = "p" => PlacedAt(c)

History ==
  /\ LogTyped /\ SessionsMinted /\ LogKeyed /\ NotInserted /\ FlushLogged
  /\ RowsKnown /\ RowsMatch /\ LastKnown /\ FoldsCount /\ MemoKnown /\ Placed

\* An entry of the log, seen as a member of a sequence.
LEMMA LogElement ==
  ASSUME LogTyped
  PROVE  /\ Len(log) \in Nat /\ DOMAIN log = 1..Len(log)
         /\ \A j \in 1..Len(log) : log[j] \in LogEntries(now, nextId)
  BY LenProperties, ElementOfSeq DEF LogTyped

LEMMA LogEntriesGrow ==
  ASSUME NEW t \in Nat, NEW u \in Nat, t <= u, NEW n \in Nat, NEW m \in Nat, n <= m
  PROVE  LogEntries(t, n) \subseteq LogEntries(u, m)
<1>1. 0..t \subseteq 0..u /\ 0..(n - 1) \subseteq 0..(m - 1)
  OBVIOUS
<1>2. QED
  BY <1>1 DEF LogEntries

-----------------------------------------------------------------------------
(***************************************************************************)
(* The steps that neither prepare nor finish a call, nor purge.            *)
(***************************************************************************)

\* The insert gives the call a row of its own.
Numbered(c) ==
  /\ pend[c].id = NoId /\ pend'[c].id >= nextId
  /\ pend'[c].id \in DOMAIN rows' /\ SameCall(rows'[pend'[c].id], pend[c])
  /\ rows'[pend'[c].id].kind = pend[c].kind

Middle ==
  /\ log' = log /\ sessions' = sessions /\ seen' = seen
  /\ now' >= now /\ nextId' >= nextId
  /\ Waiting' = Waiting /\ Base' = Base
  /\ DOMAIN pend' = DOMAIN pend
  /\ \A c \in DOMAIN pend : /\ Prepared(pend'[c]) = Prepared(pend[c])
                            /\ pend'[c].id = pend[c].id \/ Numbered(c)
  /\ DOMAIN rows \subseteq DOMAIN rows'
  /\ \A i \in DOMAIN rows : rows'[i] = rows[i]
  /\ \A i \in DOMAIN rows' \ DOMAIN rows : i >= nextId /\ \E c \in Waiting : pend'[c].id = i

\* The cursor starts over when the insert is done.
LEMMA MiddleFlush ==
  ASSUME Typed, LogTyped, DOMAIN pend' = DOMAIN pend, log' = log,
         FallBack \/ RefuseOne \/ InsertRequests \/ InsertOne
  PROVE  Waiting' = Waiting /\ Base' = Base /\ Waiting = DOMAIN pend /\ (Working' => cursor' = 1)
<1>1. Len(log) \in Nat /\ DOMAIN pend = 1..Len(pend)
  BY PendElement, LogElement
<1>2. ~ Working /\ (Working' => cursor' = 1)
  BY DEF FallBack, RefuseOne, InsertRequests, InsertOne, NextRow, Working
<1>3. Waiting = DOMAIN pend /\ Base = Len(log)
  BY <1>2 DEF Waiting, Base
<1>4. Waiting' = DOMAIN pend
  BY <1>1, <1>2 DEF Waiting
<1>5. Base' = Len(log)
  BY <1>1, <1>2 DEF Base
<1>6. QED
  BY <1>2, <1>3, <1>4, <1>5

LEMMA InsertRequestsMiddle == ASSUME Typed, LogTyped, NotInserted, InsertRequests PROVE Middle
<1>1. /\ phase = "prepare" /\ log' = log /\ sessions' = sessions /\ seen' = seen /\ now' = now
      /\ rows' = [id \in DOMAIN rows \cup (nextId .. nextId + Len(pend) - 1) |->
                    IF id \in DOMAIN rows THEN rows[id] ELSE RowOf(pend[id - nextId + 1])]
      /\ pend' = [c \in DOMAIN pend |-> [pend[c] EXCEPT !.id = nextId + c - 1]]
      /\ nextId' = nextId + Len(pend)
  BY DEF InsertRequests
<1>2. /\ Len(pend) \in Nat /\ DOMAIN pend = 1..Len(pend) /\ nextId \in Nat \ {0} /\ now \in Nat
      /\ DOMAIN rows \subseteq 1..(nextId - 1)
      /\ \A c \in DOMAIN pend : pend[c] \in PreparedCalls(now, nextId)
  BY PendElement DEF Typed, Counters, TablesTyped
<1>3. DOMAIN pend' = DOMAIN pend
  BY <1>1
<1>4. Waiting' = Waiting /\ Base' = Base /\ Waiting = DOMAIN pend
  BY <1>1, <1>3, MiddleFlush
<1>5. ASSUME NEW c \in DOMAIN pend
      PROVE  pend'[c].id = nextId + c - 1 /\ Numbered(c)
  <2>1. pend'[c].id = nextId + c - 1
    BY <1>1, <1>2 DEF PreparedCalls
  <2>2. nextId + c - 1 \in nextId .. nextId + Len(pend) - 1
    BY <1>2
  <2>3. nextId + c - 1 \in DOMAIN rows' /\ nextId + c - 1 \notin DOMAIN rows
    BY <1>1, <1>2, <2>2
  <2>4. (nextId + c - 1) - nextId + 1 = c
    BY <1>2
  <2>5. rows'[nextId + c - 1] = RowOf(pend[c])
    BY <1>1, <2>3, <2>4
  <2>6. pend[c].id = NoId /\ nextId + c - 1 >= nextId
    BY <1>1, <1>2 DEF NotInserted
  <2>7. QED
    BY <2>1, <2>3, <2>5, <2>6 DEF Numbered, SameCall, RowOf
<1>6. ASSUME NEW i \in DOMAIN rows' \ DOMAIN rows
      PROVE  i >= nextId /\ \E c \in Waiting : pend'[c].id = i
  <2>1. i \in nextId .. nextId + Len(pend) - 1
    BY <1>1
  <2>2. i - nextId + 1 \in DOMAIN pend /\ nextId + (i - nextId + 1) - 1 = i /\ i >= nextId
    BY <1>2, <2>1
  <2>3. QED
    BY <1>4, <1>5, <2>2
<1>7. /\ DOMAIN rows \subseteq DOMAIN rows'
      /\ \A i \in DOMAIN rows : rows'[i] = rows[i]
  BY <1>1
<1>8. \A c \in DOMAIN pend : Prepared(pend'[c]) = Prepared(pend[c])
  BY PreparedKept
<1>9. now' >= now /\ nextId' >= nextId
  BY <1>1, <1>2
<1>10. QED
  BY <1>1, <1>3, <1>4, <1>5, <1>6, <1>7, <1>8, <1>9 DEF Middle

LEMMA InsertOneMiddle == ASSUME Typed, LogTyped, NotInserted, InsertOne PROVE Middle
<1>1. /\ phase = "insert" /\ log' = log /\ sessions' = sessions /\ seen' = seen /\ now' = now
      /\ rows' = [id \in DOMAIN rows \cup {nextId} |->
                    IF id = nextId THEN RowOf(pend[cursor]) ELSE rows[id]]
      /\ pend' = [pend EXCEPT ![cursor] = [pend[cursor] EXCEPT !.id = nextId]]
      /\ nextId' = nextId + 1
  BY DEF InsertOne
<1>2. /\ cursor \in DOMAIN pend /\ pend[cursor] \in PreparedCalls(now, nextId)
      /\ nextId \in Nat \ {0} /\ now \in Nat /\ DOMAIN rows \subseteq 1..(nextId - 1)
      /\ cursor \in Nat
  BY <1>1, PendElement DEF Typed, Counters, TablesTyped
<1>3. DOMAIN pend' = DOMAIN pend
  BY <1>1
<1>4. Waiting' = Waiting /\ Base' = Base /\ Waiting = DOMAIN pend
  BY <1>1, <1>3, MiddleFlush
<1>5. /\ pend'[cursor].id = nextId /\ pend[cursor].id = NoId
      /\ \A c \in DOMAIN pend \ {cursor} : pend'[c] = pend[c]
  BY <1>1, <1>2 DEF PreparedCalls, NotInserted
<1>6. rows'[nextId] = RowOf(pend[cursor]) /\ nextId \in DOMAIN rows' /\ nextId \notin DOMAIN rows
  BY <1>1, <1>2
<1>7. Numbered(cursor)
  BY <1>2, <1>5, <1>6 DEF Numbered, SameCall, RowOf
<1>8. \A i \in DOMAIN rows' \ DOMAIN rows : i >= nextId /\ \E c \in Waiting : pend'[c].id = i
  BY <1>1, <1>2, <1>4, <1>5
<1>9. /\ DOMAIN rows \subseteq DOMAIN rows'
      /\ \A i \in DOMAIN rows : rows'[i] = rows[i]
  BY <1>1, <1>6
<1>10. \A c \in DOMAIN pend : Prepared(pend'[c]) = Prepared(pend[c])
  BY PreparedKept
<1>11. now' >= now /\ nextId' >= nextId
  BY <1>1, <1>2
<1>12. QED
  BY <1>1, <1>3, <1>4, <1>5, <1>7, <1>8, <1>9, <1>10, <1>11 DEF Middle

LEMMA InsertWarningsMiddle == ASSUME Typed, LogTyped, InsertWarnings PROVE Middle
<1>1. /\ phase = "warn" /\ phase' = "fold"
      /\ UNCHANGED <<now, rows, sessions, nextId, cursor, seen, log>>
  BY DEF InsertWarnings
<1>2. PICK ws, lost : pend' = [pend EXCEPT ![cursor].warns = ws, ![cursor].lost = lost]
  BY DEF InsertWarnings
<1>3. cursor \in DOMAIN pend /\ pend[cursor] \in PreparedCalls(now, nextId)
  BY <1>1, PendElement
<1>4. pend' = [pend EXCEPT ![cursor] = [pend[cursor] EXCEPT !.warns = ws, !.lost = lost]]
  BY <1>2, <1>3
<1>5. \A c \in DOMAIN pend : pend'[c].id = pend[c].id
  BY <1>3, <1>4 DEF PreparedCalls
<1>6. /\ DOMAIN pend' = DOMAIN pend
      /\ \A c \in DOMAIN pend : Prepared(pend'[c]) = Prepared(pend[c])
  BY PreparedKept
<1>7. Waiting' = Waiting /\ Base' = Base
  BY <1>1, <1>6 DEF Waiting, Base, Working
<1>8. now' >= now /\ nextId' >= nextId
  BY <1>1 DEF Typed, Counters
<1>9. QED
  BY <1>1, <1>5, <1>6, <1>7, <1>8 DEF Middle

LEMMA MiddleSteps ==
  ASSUME Typed, LogTyped, NotInserted,
         \/ UNCHANGED vars \/ Tick \/ FallBack \/ RefuseOne
         \/ InsertRequests \/ InsertOne \/ InsertWarnings
  PROVE  Middle
<1>1. CASE UNCHANGED vars \/ Tick
  <2>1. /\ UNCHANGED <<rows, sessions, nextId, phase, pend, cursor, seen, log>>
        /\ now' = now \/ now' = now + 1
    BY <1>1 DEF vars, tables, flush, Tick
  <2>2. Waiting' = Waiting /\ Base' = Base
    BY <2>1 DEF Waiting, Base, Working
  <2>3. now' >= now /\ nextId' >= nextId
    BY <2>1 DEF Typed, Counters
  <2>4. QED
    BY <2>1, <2>2, <2>3 DEF Middle, Prepared
<1>2. CASE FallBack \/ RefuseOne
  <2>1. UNCHANGED <<now, rows, sessions, nextId, pend, seen, log>>
    BY <1>2 DEF FallBack, RefuseOne, tables
  <2>2. Waiting' = Waiting /\ Base' = Base
    BY <1>2, <2>1, MiddleFlush
  <2>3. now' >= now /\ nextId' >= nextId
    BY <2>1 DEF Typed, Counters
  <2>4. QED
    BY <2>1, <2>2, <2>3 DEF Middle, Prepared
<1>3. QED
  BY <1>1, <1>2, InsertRequestsMiddle, InsertOneMiddle, InsertWarningsMiddle

\* Ids are never given twice: a row that a known id names was there.
LEMMA MiddleRows ==
  ASSUME Typed, LogTyped, Middle
  PROVE  \A id \in 0..(nextId - 1) : id \in DOMAIN rows' => /\ id \in DOMAIN rows
                                                           /\ rows'[id] = rows[id]
<1>1. nextId \in Nat
  BY DEF Typed, Counters
<1>2. QED
  BY <1>1 DEF Middle

LEMMA MiddleLog == ASSUME Typed, LogTyped, Middle, Typed' PROVE LogTyped'
<1>1. /\ now \in Nat /\ now' \in Nat /\ now <= now'
      /\ nextId \in Nat /\ nextId' \in Nat /\ nextId <= nextId'
  BY DEF Typed, Counters, Middle
<1>2. LogEntries(now, nextId) \subseteq LogEntries(now', nextId')
  BY <1>1, LogEntriesGrow
<1>3. log' = log
  BY DEF Middle
<1>4. QED
  BY <1>2, <1>3, SeqGrows DEF LogTyped

LEMMA MintedLater ==
  ASSUME NEW sid \in Grouping, NEW t \in Nat, NEW u \in Nat, t <= u, Minted(sid, t)
  PROVE  Minted(sid, u)
<1>1. CASE sid # NoSession /\ sid[1] # "h"
  <2>1. PICK t0 \in 0..MaxTime : \E p : sid = <<"s", t0, p>>
    BY <1>1, IdShapes DEF Grouping
  <2>2. sid[2] = t0
    BY <2>1
  <2>3. sid[2] \in Nat
    BY <2>2, Bounds
  <2>4. QED
    BY <1>1, <2>3 DEF Minted
<1>2. QED
  BY <1>1 DEF Minted

LEMMA MiddleMinted == ASSUME Typed, History, Middle, Typed' PROVE SessionsMinted'
<1>1. now \in Nat /\ now' \in Nat /\ now <= now'
  BY DEF Typed, Counters, Middle
<1>2. (\A k \in DOMAIN seen : Minted(seen[k], now')) /\ (\A s \in DOMAIN sessions : Minted(s, now'))
  <2>1. /\ \A k \in DOMAIN seen : seen[k] \in Grouping /\ Minted(seen[k], now)
        /\ \A s \in DOMAIN sessions : s \in Grouping /\ Minted(s, now)
    BY DEF Typed, TablesTyped, FlushTyped, Grouping, History, SessionsMinted
  <2>2. QED
    BY <1>1, <2>1, MintedLater
<1>3. /\ DOMAIN pend' = DOMAIN pend /\ log' = log /\ seen' = seen /\ sessions' = sessions
      /\ \A c \in DOMAIN pend : pend'[c].session = pend[c].session /\ pend'[c].at = pend[c].at
  BY DEF Middle, Prepared
<1>4. QED
  BY <1>2, <1>3 DEF History, SessionsMinted

LEMMA MiddleRowsKnown == ASSUME Typed, History, Middle PROVE RowsKnown'
<1>1. ASSUME NEW i \in DOMAIN rows'
      PROVE  (\E j \in DOMAIN log : log[j].id = i) \/ (\E c \in Waiting : pend'[c].id = i)
  <2>1. CASE i \in DOMAIN rows
    <3>1. i # NoId
      BY <2>1 DEF Typed, TablesTyped, Counters, NoId
    <3>2. ASSUME NEW c \in Waiting, pend[c].id = i PROVE pend'[c].id = i
      BY <3>1, <3>2 DEF Middle, Waiting, Numbered
    <3>3. QED
      BY <2>1, <3>2 DEF History, RowsKnown
  <2>2. CASE i \notin DOMAIN rows
    BY <2>2 DEF Middle
  <2>3. QED
    BY <2>1, <2>2
<1>2. log' = log /\ Waiting' = Waiting
  BY DEF Middle
<1>3. QED
  BY <1>1, <1>2 DEF RowsKnown

LEMMA MiddleRowsMatch == ASSUME Typed, History, Middle PROVE RowsMatch'
<1>1. log' = log /\ DOMAIN pend' = DOMAIN pend
  BY DEF Middle
<1>2. ASSUME NEW j \in DOMAIN log, log[j].id \in DOMAIN rows'
      PROVE  SameCall(rows'[log[j].id], log[j])
  <2>1. log[j].id \in 0..(nextId - 1)
    BY LogElement DEF History, LogEntries
  <2>2. log[j].id \in DOMAIN rows /\ rows'[log[j].id] = rows[log[j].id]
    BY <1>2, <2>1, MiddleRows DEF History
  <2>3. QED
    BY <2>2 DEF History, RowsMatch
<1>3. ASSUME NEW c \in DOMAIN pend, pend'[c].id \in DOMAIN rows'
      PROVE  SameCall(rows'[pend'[c].id], pend'[c])
  <2>1. pend'[c].session = pend[c].session /\ pend'[c].started = pend[c].started
    BY DEF Middle, Prepared
  <2>2. CASE pend'[c].id = pend[c].id
    <3>1. pend[c].id \in 0..(nextId - 1)
      BY PendElement DEF PreparedCalls
    <3>2. pend[c].id \in DOMAIN rows /\ rows'[pend[c].id] = rows[pend[c].id]
      BY <1>3, <2>2, <3>1, MiddleRows DEF History
    <3>3. QED
      BY <2>1, <2>2, <3>2 DEF History, RowsMatch, SameCall
  <2>3. CASE Numbered(c)
    BY <2>1, <2>3 DEF Numbered, SameCall
  <2>4. QED
    BY <2>2, <2>3 DEF Middle
<1>4. QED
  BY <1>1, <1>2, <1>3 DEF RowsMatch

LEMMA MiddleLastKnown == ASSUME Typed, History, Middle PROVE LastKnown'
<1>1. log' = log /\ sessions' = sessions /\ Waiting' = Waiting /\ Waiting \subseteq DOMAIN pend
  BY DEF Middle, Waiting
<1>2. ASSUME NEW c \in Waiting, pend[c].id # NoId
      PROVE  /\ pend'[c].id = pend[c].id
             /\ pend'[c].session = pend[c].session /\ pend'[c].started = pend[c].started
  BY <1>1, <1>2 DEF Middle, Numbered, Prepared
<1>3. QED
  BY <1>1, <1>2 DEF History, LastKnown

LEMMA MiddleFoldsCount == ASSUME Typed, History, Middle PROVE FoldsCount'
<1>1. log' = log /\ sessions' = sessions
  BY DEF Middle
<1>2. ASSUME NEW j \in DOMAIN log, log[j].id \in DOMAIN rows' PROVE log[j].id \in DOMAIN rows
  <2>1. log[j].id \in 0..(nextId - 1)
    BY LogElement DEF History, LogEntries
  <2>2. QED
    BY <1>2, <2>1, MiddleRows DEF History
<1>3. QED
  BY <1>1, <1>2 DEF History, FoldsCount

LEMMA MiddleMemo == ASSUME Typed, History, Middle PROVE MemoKnown'
<1>1. /\ seen' = seen /\ DOMAIN pend' = DOMAIN pend
      /\ \A c \in DOMAIN pend : pend'[c].kind = pend[c].kind /\ pend'[c].session = pend[c].session
  BY DEF Middle, Prepared
<1>2. QED
  BY <1>1 DEF History, MemoKnown

LEMMA MiddlePlaced == ASSUME Typed, History, Middle PROVE Placed'
<1>1. /\ log' = log /\ Waiting' = Waiting /\ Base' = Base /\ DOMAIN pend' = DOMAIN pend
      /\ Waiting \subseteq DOMAIN pend /\ DOMAIN pend = 1..Len(pend) /\ Len(pend) \in Nat
      /\ \A c \in DOMAIN pend : /\ pend'[c].kind = pend[c].kind /\ pend'[c].at = pend[c].at
                                /\ pend'[c].session = pend[c].session
  BY PendElement DEF Middle, Prepared, Waiting
<1>2. \A j \in 1..Base : log[j].id \in DOMAIN rows' => log[j].id \in DOMAIN rows
  <2>1. \A j \in 1..Base : j \in 1..Len(log)
    BY LogElement DEF History, FlushLogged, Base, Typed, FlushTyped
  <2>2. \A j \in 1..Base : log[j].id \in 0..(nextId - 1)
    BY <2>1, LogElement DEF History, LogEntries
  <2>3. QED
    BY <2>2, MiddleRows DEF History
<1>3. ASSUME NEW c \in Waiting, PlacedAt(c) PROVE PlacedAt(c)'
  <2>1. \A d \in 1..(c - 1) : d \in DOMAIN pend
    BY <1>1
  <2>2. Entry(pend'[c]) = Entry(pend[c])
    BY <1>1 DEF Entry
  <2>3. Joins(c) => Joins(c)'
    BY <1>1, <2>1 DEF Joins
  <2>4. Alone(c) => Alone(c)'
    BY <1>1, <2>1 DEF Alone
  <2>5. Continues(Entry(pend[c]), Base) => Continues(Entry(pend[c]), Base)'
    BY <1>1, <2>2 DEF Continues
  <2>6. Opens(Entry(pend[c]), Base) => Opens(Entry(pend[c]), Base)'
    BY <1>1, <1>2, <2>2 DEF Opens
  <2>7. QED
    BY <1>3, <2>3, <2>4, <2>5, <2>6 DEF PlacedAt
<1>4. QED
  BY <1>1, <1>3 DEF History, Placed

\* The insert goes through the calls in order.
LEMMA NotInsertedStays ==
  ASSUME Typed, History,
         \/ UNCHANGED vars \/ Tick \/ FallBack \/ RefuseOne
         \/ InsertRequests \/ InsertOne \/ InsertWarnings
  PROVE  NotInserted'
<1>1. CASE UNCHANGED vars \/ Tick
  BY <1>1 DEF vars, flush, Tick, History, NotInserted
<1>2. CASE InsertRequests \/ InsertWarnings
  BY <1>2 DEF InsertRequests, InsertWarnings, NotInserted
<1>3. CASE FallBack
  BY <1>3 DEF FallBack, History, NotInserted
<1>4. CASE RefuseOne \/ InsertOne
  <2>1. NextRow /\ phase = "insert" /\ cursor \in 1..Len(pend) /\ Len(pend) \in Nat
    BY <1>4, PendElement DEF RefuseOne, InsertOne
  <2>2. /\ DOMAIN pend' = DOMAIN pend /\ DOMAIN pend = 1..Len(pend)
        /\ \A c \in DOMAIN pend \ {cursor} : pend'[c].id = pend[c].id
    BY <1>4, PendElement DEF RefuseOne, InsertOne
  <2>3. phase' # "prepare" /\ (phase' = "insert" => cursor' = cursor + 1)
    BY <2>1 DEF NextRow
  <2>4. ASSUME NEW c \in DOMAIN pend, phase' = "insert", c >= cursor' PROVE pend'[c].id = NoId
    <3>1. c \in Nat /\ cursor \in Nat /\ c >= cursor /\ c # cursor
      BY <2>1, <2>2, <2>3, <2>4
    <3>2. QED
      BY <2>1, <2>2, <3>1 DEF History, NotInserted
  <2>5. QED
    BY <2>2, <2>3, <2>4 DEF NotInserted
<1>5. QED
  BY <1>1, <1>2, <1>3, <1>4

LEMMA FlushLoggedStays ==
  ASSUME Typed, History, Middle,
         \/ UNCHANGED vars \/ Tick \/ FallBack \/ RefuseOne
         \/ InsertRequests \/ InsertOne \/ InsertWarnings
  PROVE  FlushLogged'
<1>1. /\ log' = log /\ Base' = Base /\ DOMAIN pend' = DOMAIN pend
      /\ \A c \in DOMAIN pend : pend'[c].kind = pend[c].kind /\ pend'[c].session = pend[c].session
  BY DEF Middle, Prepared
<1>2. CASE FallBack \/ RefuseOne \/ InsertRequests \/ InsertOne
  <2>1. Working' => cursor' = 1
    BY <1>1, <1>2, MiddleFlush DEF History
  <2>2. ~ Working /\ Base = Len(log) /\ Len(log) \in Nat
    BY <1>2, LogElement
       DEF FallBack, RefuseOne, InsertRequests, InsertOne, Working, Base, History
  <2>3. QED
    BY <1>1, <2>1, <2>2 DEF FlushLogged
<1>3. CASE UNCHANGED vars \/ Tick \/ InsertWarnings
  <2>1. cursor' = cursor /\ (Working' <=> Working)
    BY <1>3 DEF vars, flush, Tick, InsertWarnings, Working
  <2>2. Working => \A d \in 1..(cursor - 1) : d \in DOMAIN pend
    BY PendElement DEF Working
  <2>3. QED
    BY <1>1, <2>1, <2>2 DEF History, FlushLogged
<1>4. QED
  BY <1>2, <1>3

LEMMA MiddleHistory ==
  ASSUME Typed, History, Typed',
         \/ UNCHANGED vars \/ Tick \/ FallBack \/ RefuseOne
         \/ InsertRequests \/ InsertOne \/ InsertWarnings
  PROVE  History' /\ Middle
<1>1. Middle
  BY MiddleSteps DEF History
<1>2. LogTyped' /\ LogKeyed'
  BY <1>1, MiddleLog DEF History, LogKeyed, Middle
<1>3. SessionsMinted' /\ RowsKnown' /\ RowsMatch'
  BY <1>1, MiddleMinted, MiddleRowsKnown, MiddleRowsMatch
<1>4. LastKnown' /\ FoldsCount' /\ MemoKnown' /\ Placed'
  BY <1>1, MiddleLastKnown, MiddleFoldsCount, MiddleMemo, MiddlePlaced
<1>5. NotInserted' /\ FlushLogged'
  BY <1>1, NotInsertedStays, FlushLoggedStays
<1>6. QED
  BY <1>1, <1>2, <1>3, <1>4, <1>5 DEF History

-----------------------------------------------------------------------------
(***************************************************************************)
(* The largest of some numbers.                                            *)
(***************************************************************************)

LEMMA UpTo ==
  ASSUME NEW m \in Nat
  PROVE  IsFiniteSet(0..(m - 1)) /\ Cardinality(0..(m - 1)) = m
<1>1. 0 \in Int /\ m - 1 \in Int
  OBVIOUS
<1>2. Cardinality(0..(m - 1)) = IF 0 > m - 1 THEN 0 ELSE (m - 1) - 0 + 1
  BY <1>1, FS_Interval
<1>3. IsFiniteSet(0..(m - 1))
  BY <1>1, FS_Interval
<1>4. QED
  BY <1>2, <1>3

\* A bounded set of numbers has a largest one.
LEMMA LargestOf ==
  ASSUME NEW n \in Nat, NEW S, S \subseteq 0..n, S # {}
  PROVE  \E m \in S : \A x \in S : x <= m
<1> DEFINE U == {x \in 0..n : \E y \in S : x <= y}
           k == Cardinality(U)
<1>1. IsFiniteSet(U) /\ k \in Nat
  <2>1. IsFiniteSet(0..((n + 1) - 1)) /\ (n + 1) - 1 = n
    BY UpTo
  <2>2. U \in SUBSET (0..n)
    OBVIOUS
  <2> HIDE DEF U
  <2>3. IsFiniteSet(U)
    BY <2>1, <2>2, FS_Subset
  <2>4. QED
    BY <2>3, FS_CardinalityType
<1>2. S \subseteq U
  OBVIOUS
<1>3. ASSUME NEW x \in U PROVE x <= k - 1
  <2>1. 0..((x + 1) - 1) \in SUBSET U /\ x + 1 \in Nat
    OBVIOUS
  <2>2. Cardinality(0..((x + 1) - 1)) = x + 1
    BY <2>1, UpTo
  <2>3. Cardinality(0..((x + 1) - 1)) <= k
    <3> HIDE DEF U
    <3>1. QED
      BY <1>1, <2>1, FS_Subset
  <2>4. QED
    BY <1>1, <2>1, <2>2, <2>3
<1>4. k - 1 \in U
  <2>1. SUFFICES ASSUME k - 1 \notin U PROVE FALSE
    OBVIOUS
  <2>2. PICK x \in S : TRUE
    OBVIOUS
  <2>3. x \in Nat /\ x <= k - 1
    BY <1>2, <1>3, <2>2
  <2> DEFINE j == k - 1
  <2>4. j \in Nat /\ k = j + 1
    BY <1>1, <2>3
  <2>5. U \in SUBSET (0..(j - 1))
    <3>1. ASSUME NEW y \in U PROVE y \in 0..(j - 1)
      <4>1. y \in Nat /\ y <= k - 1 /\ y # j
        <5>1. y \in Nat
          OBVIOUS
        <5>2. y <= k - 1
          BY <1>3
        <5>3. y # j
          BY <2>1
        <5>4. QED
          BY <5>1, <5>2, <5>3
      <4> HIDE DEF k
      <4>2. QED
        BY <2>4, <4>1
    <3>2. QED
      BY <3>1
  <2>6. Cardinality(0..(j - 1)) = j /\ IsFiniteSet(0..(j - 1))
    <3> HIDE DEF j
    <3>1. QED
      BY <2>4, UpTo
  <2>7. k <= j
    <3> HIDE DEF j, U
    <3>1. QED
      BY <2>5, <2>6, FS_Subset
  <2>8. QED
    <3> HIDE DEF j, k
    <3>1. QED
      BY <2>4, <2>7
<1>5. PICK m \in S : k - 1 <= m
  BY <1>4
<1>6. QED
  <2>1. \A x \in S : x <= k - 1 /\ x \in Nat
    BY <1>2, <1>3
  <2> HIDE DEF k
  <2>2. QED
    BY <1>1, <1>5, <2>1

-----------------------------------------------------------------------------
(***************************************************************************)
(* Preparing a call.                                                       *)
(***************************************************************************)

LEMMA PrepareShape ==
  ASSUME Typed, PrepareCall
  PROVE  \E p \in PreparedCalls(now, nextId) :
           /\ p.at = now /\ p.id = NoId
           /\ p.session \in (IF KeyOf(p.kind) \in DOMAIN seen THEN {seen[KeyOf(p.kind)]}
                             ELSE Resolve(p.kind) \cup {NoSession})
           /\ seen' = Remember(KeyOf(p.kind), p.session)
           /\ Len(pend) \in Nat /\ DOMAIN pend = 1..Len(pend)
           /\ DOMAIN pend' = 1..(Len(pend) + 1)
           /\ \A c \in 1..Len(pend) : pend'[c] = pend[c]
           /\ pend'[Len(pend) + 1] = p
           /\ phase = "prepare"
           /\ UNCHANGED <<now, rows, sessions, nextId, phase, cursor, log>>
<1>1. /\ phase = "prepare"
      /\ UNCHANGED <<now, rows, sessions, nextId, phase, cursor, log>>
  BY DEF PrepareCall, tables
<1>2. PICK kind \in Kinds, age \in 0..Backdate :
        \E of \in (IF kind.replay THEN DOMAIN rows ELSE {NoId}) :
          /\ age <= now
          /\ \E sid \in (IF KeyOf(kind) \in DOMAIN seen THEN {seen[KeyOf(kind)]}
                         ELSE Resolve(kind) \cup {NoSession}) :
               /\ seen' = Remember(KeyOf(kind), sid)
               /\ pend' = Append(pend,
                    [kind |-> kind, started |-> now - age, session |-> sid, replayOf |-> of,
                     id |-> NoId, at |-> now, warns |-> <<>>, lost |-> FALSE])
  BY DEF PrepareCall
<1>3. PICK of \in (IF kind.replay THEN DOMAIN rows ELSE {NoId}),
           sid \in (IF KeyOf(kind) \in DOMAIN seen THEN {seen[KeyOf(kind)]}
                    ELSE Resolve(kind) \cup {NoSession}) :
        /\ age <= now
        /\ seen' = Remember(KeyOf(kind), sid)
        /\ pend' = Append(pend,
             [kind |-> kind, started |-> now - age, session |-> sid, replayOf |-> of,
              id |-> NoId, at |-> now, warns |-> <<>>, lost |-> FALSE])
  BY <1>2
<1> DEFINE p == [kind |-> kind, started |-> now - age, session |-> sid, replayOf |-> of,
                 id |-> NoId, at |-> now, warns |-> <<>>, lost |-> FALSE]
<1>4. p \in PreparedCalls(now, nextId)
  <2>1. of \in 0..(nextId - 1) /\ NoId \in 0..(nextId - 1)
    BY <1>3 DEF Typed, TablesTyped, Counters, NoId
  <2>2. now - age \in 0..now /\ now \in 0..now
    BY <1>3, Bounds DEF Typed, Counters
  <2>3. << >> \in Seq(Codes)
    BY EmptySeq
  <2>4. sid \in Grouping
    BY <1>3, ResolveTyped DEF Grouping, Typed, FlushTyped
  <2>5. QED
    BY <2>1, <2>2, <2>3, <2>4 DEF PreparedCalls
<1>5. /\ Len(pend) \in Nat /\ DOMAIN pend = 1..Len(pend)
      /\ DOMAIN pend' = 1..(Len(pend) + 1)
      /\ \A c \in 1..Len(pend) : pend'[c] = pend[c]
      /\ pend'[Len(pend) + 1] = p
  BY <1>3, LenProperties, AppendProperties DEF Typed, FlushTyped
<1>6. /\ p.at = now /\ p.id = NoId /\ p.kind = kind /\ p.session = sid
  OBVIOUS
<1> HIDE DEF p
<1>7. QED
  BY <1>1, <1>3, <1>4, <1>5, <1>6

\* last_seen is a time that has been.
LEMMA LastTyped ==
  ASSUME Typed, History
  PROVE  \A s \in DOMAIN sessions : sessions[s].last \in 0..now
<1>1. /\ \A j \in DOMAIN log : log[j].started \in 0..now
      /\ \A c \in Waiting : pend[c].started \in 0..now
  BY LogElement, PendElement DEF History, LogEntries, PreparedCalls, Waiting
<1>2. QED
  BY <1>1 DEF History, LastKnown

\* The lookup finds a session that was last seen no earlier than any other
\* of its prefix.
LEMMA LatestExists ==
  ASSUME Typed, History, NEW s \in DOMAIN sessions
  PROVE  \E m \in LatestSessions(sessions, sessions[s].prefix) :
           sessions[s].last <= sessions[m].last
<1> DEFINE keyed == {t \in DOMAIN sessions : sessions[t].prefix = sessions[s].prefix}
           lasts == {sessions[t].last : t \in keyed}
<1>1. now \in Nat
  BY DEF Typed, Counters
<1>2. lasts \subseteq 0..now /\ lasts # {}
  BY LastTyped
<1>3. PICK x \in lasts : \A y \in lasts : y <= x
  <2> HIDE DEF lasts
  <2>1. QED
    BY <1>1, <1>2, LargestOf
<1>4. PICK m \in keyed : sessions[m].last = x
  OBVIOUS
<1>5. m \in LatestSessions(sessions, sessions[s].prefix)
  BY <1>3, <1>4 DEF LatestSessions
<1>6. QED
  BY <1>3, <1>4, <1>5

LEMMA ResolveMinted ==
  ASSUME Typed, History, NEW kind \in Kinds, NEW sid \in Resolve(kind)
  PROVE  Minted(sid, now)
<1>1. CASE kind.header # NoHeader
  <2>1. sid = <<"h", kind.header>>
    BY <1>1, KeyShapes DEF Resolve
  <2>2. sid[1] = "h"
    BY <2>1
  <2>3. QED
    BY <2>2 DEF Minted
<1>2. CASE sid \in DOMAIN sessions
  BY <1>2 DEF History, SessionsMinted
<1>3. CASE kind.header = NoHeader /\ sid \notin DOMAIN sessions
  <2>1. sid = <<"s", now, kind.prefix>>
    BY <1>3 DEF Resolve, LatestSessions, NewID
  <2>2. sid[2] = now /\ now \in Nat
    BY <2>1 DEF Typed, Counters
  <2>3. QED
    BY <2>2 DEF Minted
<1>4. QED
  BY <1>1, <1>2, <1>3

\* A lookup without a memo either continues a session whose latest call is
\* close, or opens one when none is.
LEMMA ResolvePlaces ==
  ASSUME Typed, Keyed, History, phase = "prepare",
         NEW p \in PreparedCalls(now, nextId), p.at = now, p.session \in Resolve(p.kind),
         p.kind.header = NoHeader
  PROVE  Continues(Entry(p), Len(log)) \/ Opens(Entry(p), Len(log))
<1> DEFINE x == p.kind.prefix
           key == <<"p", x>>
           sid == p.session
           e == Entry(p)
           latest == LatestSessions(sessions, x)
<1>1. /\ p.kind \in Kinds /\ KeyOf(p.kind) = key /\ key[2] = x
      /\ e.key = key /\ e.session = sid /\ e.at = now
  BY KeyShapes DEF PreparedCalls, Entry
<1>2. GroupKey(sid) = key
  BY <1>1, ResolveKeyed DEF Keyed
<1>3. /\ Len(log) \in Nat /\ DOMAIN log = 1..Len(log) /\ now \in Nat
      /\ \A j \in 1..Len(log) : log[j] \in LogEntries(now, nextId)
  BY LogElement DEF History, Typed, Counters
<1>4. WindowOf(x) \in Nat
  BY Bounds DEF WindowOf
<1>5. CASE \E s \in latest : now - sessions[s].last <= WindowOf(x)
  <2>1. sid \in latest /\ now - sessions[sid].last <= WindowOf(x)
    BY <1>5 DEF Resolve
  <2>2. sid \in DOMAIN sessions
    BY <2>1 DEF LatestSessions
  <2>3. \A c \in Waiting : pend[c].id = NoId
    BY DEF History, NotInserted, Waiting
  <2>4. PICK j \in DOMAIN log : log[j].session = sid /\ log[j].started = sessions[sid].last
    BY <2>2, <2>3 DEF History, LastKnown
  <2>5. sid # NoSession
    BY <2>2, IdShapes DEF Typed, TablesTyped
  <2>6. log[j].key = key
    BY <1>2, <2>4, <2>5 DEF History, LogKeyed
  <2>7. NearTo(e, log[j])
    BY <1>1, <2>1, <2>4 DEF NearTo
  <2> HIDE DEF key
  <2>8. QED
    BY <1>1, <1>3, <2>4, <2>6, <2>7 DEF Continues
<1>6. CASE \A s \in latest : ~ (now - sessions[s].last <= WindowOf(x))
  <2>1. sid = <<"s", now, x>>
    BY <1>6 DEF Resolve, NewID
  <2>2. CASE \E j \in 1..Len(log) : log[j].key = key /\ log[j].session = sid
    <3>1. PICK j \in 1..Len(log) : log[j].key = key /\ log[j].session = sid
      BY <2>2
    <3>2. sid[1] # "h" /\ sid[2] = now /\ sid # NoSession
      BY <2>1 DEF NoSession
    <3>3. now <= log[j].at /\ log[j].at \in 0..now
      BY <1>3, <3>1, <3>2 DEF History, SessionsMinted, Minted, LogEntries
    <3>4. log[j].at = now
      BY <1>3, <3>3
    <3> HIDE DEF key, sid
    <3>5. QED
      BY <1>1, <3>1, <3>4 DEF Continues
  <2>3. CASE ~ \E j \in 1..Len(log) : log[j].key = key /\ log[j].session = sid
    <3>1. ASSUME NEW i \in 1..Len(log), log[i].key = key,
                 log[i].folded, log[i].session # NoSession, log[i].id \in DOMAIN rows
          PROVE  ~ NearTo(e, log[i])
      <4> DEFINE s == log[i].session
      <4>1. s \in DOMAIN sessions /\ log[i].started <= sessions[s].last
        BY <1>3, <3>1 DEF History, FoldsCount
      <4>2. GroupKey(s) = key
        BY <1>3, <3>1 DEF History, LogKeyed
      <4>3. key[1] # "h" /\ s[1] # "h"
        BY <4>2 DEF GroupKey
      <4>4. <<"p", s[3]>> = <<"p", x>>
        BY <4>2, <4>3 DEF GroupKey
      <4>5. s[3] = x
        BY <4>4
      <4>6. sessions[s].prefix = x
        BY <4>1, <4>3, <4>5 DEF Keyed, SessionsKeyed, PrefixColumn
      <4>7. PICK m \in latest : sessions[s].last <= sessions[m].last
        BY <4>1, <4>6, LatestExists
      <4>8. m \in DOMAIN sessions /\ ~ (now - sessions[m].last <= WindowOf(x))
        BY <1>6 DEF LatestSessions
      <4>9. /\ sessions[m].last \in Int /\ sessions[s].last \in Int
            /\ log[i].started \in Int
        BY <1>3, <4>1, <4>8, LastTyped DEF LogEntries
      <4>10. ~ (now - log[i].started <= WindowOf(x))
        BY <1>3, <1>4, <4>1, <4>7, <4>8, <4>9
      <4>11. QED
        BY <1>1, <4>10 DEF NearTo
    <3> HIDE DEF key, sid
    <3>2. QED
      BY <1>1, <2>3, <3>1 DEF Opens
  <2>4. QED
    BY <2>2, <2>3
<1>7. QED
  BY <1>5, <1>6

LEMMA PrepareHistory ==
  ASSUME Typed, Keyed, History, PrepareCall
  PROVE  History'
<1>0. PICK n : n = Len(pend)
  OBVIOUS
<1>1. PICK p \in PreparedCalls(now, nextId) :
        /\ p.at = now /\ p.id = NoId
        /\ p.session \in (IF KeyOf(p.kind) \in DOMAIN seen THEN {seen[KeyOf(p.kind)]}
                          ELSE Resolve(p.kind) \cup {NoSession})
        /\ seen' = Remember(KeyOf(p.kind), p.session)
        /\ n \in Nat /\ DOMAIN pend = 1..n
        /\ DOMAIN pend' = 1..(n + 1)
        /\ \A c \in 1..n : pend'[c] = pend[c]
        /\ pend'[n + 1] = p
        /\ phase = "prepare"
        /\ UNCHANGED <<now, rows, sessions, nextId, phase, cursor, log>>
  BY <1>0, PrepareShape
<1> DEFINE key == KeyOf(p.kind)
<1>2. p.kind \in Kinds /\ p.session \in Grouping /\ now \in Nat
  BY DEF PreparedCalls, Typed, Counters
<1>3. ~ Working /\ Base = Len(log) /\ Waiting = 1..n
  BY <1>1 DEF Working, Base, Waiting
<1>4. ~ Working' /\ Base' = Len(log) /\ Waiting' = 1..(n + 1)
  BY <1>1 DEF Working, Base, Waiting
<1>5. LogTyped' /\ LogKeyed' /\ FoldsCount' /\ FlushLogged'
  <2>1. LogTyped'
    BY <1>1 DEF History, LogTyped
  <2>2. LogKeyed'
    BY <1>1 DEF History, LogKeyed
  <2>3. FoldsCount'
    BY <1>1 DEF History, FoldsCount
  <2>4. FlushLogged'
    BY <1>4 DEF FlushLogged
  <2>5. QED
    BY <2>1, <2>2, <2>3, <2>4
<1>6. SessionsMinted'
  <2>1. Minted(p.session, now)
    <3>1. CASE p.session = NoSession
      BY <3>1 DEF Minted
    <3>2. CASE key \in DOMAIN seen
      BY <1>1, <3>2 DEF History, SessionsMinted
    <3>3. CASE p.session \in Resolve(p.kind)
      BY <1>2, <3>3, ResolveMinted
    <3>4. QED
      BY <1>1, <3>1, <3>2, <3>3
  <2>2. \A c \in DOMAIN pend' : Minted(pend'[c].session, pend'[c].at)
    <3>1. ASSUME NEW c \in 1..n PROVE Minted(pend'[c].session, pend'[c].at)
      BY <1>1 DEF History, SessionsMinted
    <3>2. Minted(pend'[n + 1].session, pend'[n + 1].at)
      BY <1>1, <2>1
    <3>3. \A c \in 1..(n + 1) : c \in 1..n \/ c = n + 1
      BY <1>1
    <3>4. QED
      BY <1>1, <3>1, <3>2, <3>3
  <2>3. \A k \in DOMAIN seen' : Minted(seen'[k], now)
    BY <1>1, <2>1 DEF Remember, History, SessionsMinted
  <2>4. QED
    BY <1>1, <2>2, <2>3 DEF History, SessionsMinted
<1>7. NotInserted' /\ RowsKnown'
  <2>1. NotInserted'
    BY <1>1 DEF History, NotInserted
  <2>2. \A c \in 1..n : c \in 1..(n + 1)
    BY <1>1
  <2>3. RowsKnown'
    BY <1>1, <1>3, <1>4, <2>2 DEF History, RowsKnown
  <2>4. QED
    BY <2>1, <2>3
<1>8. RowsMatch' /\ LastKnown'
  <2>1. NoId \notin DOMAIN rows
    BY DEF Typed, TablesTyped, Counters, NoId
  <2>2. RowsMatch'
    BY <1>1, <2>1 DEF History, RowsMatch
  <2>3. \A c \in 1..n : c \in 1..(n + 1)
    BY <1>1
  <2>4. LastKnown'
    BY <1>1, <1>3, <1>4, <2>3 DEF History, LastKnown
  <2>5. QED
    BY <2>2, <2>4
<1>9. MemoKnown'
  <2>1. n + 1 \in DOMAIN pend' /\ \A c \in 1..n : c \in DOMAIN pend' /\ c \in DOMAIN pend
    BY <1>1
  <2>2. ASSUME NEW k \in DOMAIN seen'
        PROVE  \E c \in DOMAIN pend' : KeyOf(pend'[c].kind) = k /\ pend'[c].session = seen'[k]
    <3>1. CASE k \in DOMAIN seen /\ seen'[k] = seen[k]
      <4>1. PICK c \in 1..n : KeyOf(pend[c].kind) = k /\ pend[c].session = seen[k]
        BY <1>1, <3>1 DEF History, MemoKnown
      <4>2. QED
        BY <1>1, <2>1, <3>1, <4>1
    <3>2. CASE ~ (k \in DOMAIN seen /\ seen'[k] = seen[k])
      <4>1. k = key /\ seen'[k] = p.session
        BY <1>1, <3>2 DEF Remember
      <4>2. QED
        BY <1>1, <2>1, <4>1
    <3>3. QED
      BY <3>1, <3>2
  <2>3. ASSUME NEW c \in DOMAIN pend', pend'[c].session # NoSession
        PROVE  KeyOf(pend'[c].kind) \in DOMAIN seen'
    <3>1. DOMAIN seen \subseteq DOMAIN seen'
      BY <1>1 DEF Remember
    <3>2. CASE c \in 1..n
      BY <1>1, <2>3, <3>1, <3>2 DEF History, MemoKnown
    <3>3. CASE c = n + 1
      BY <1>1, <2>3, <3>3 DEF Remember
    <3>4. QED
      BY <1>1, <3>2, <3>3
  <2>4. QED
    BY <2>2, <2>3 DEF MemoKnown
<1>10. Placed'
  <2>1. ASSUME NEW c \in 1..n, PlacedAt(c) PROVE PlacedAt(c)'
    <3>1. \A d \in 1..(c - 1) : d \in 1..n
      BY <1>1
    <3>2. pend'[c] = pend[c] /\ \A d \in 1..(c - 1) : pend'[d] = pend[d]
      BY <1>1, <3>1
    <3>3. (Joins(c) => Joins(c)') /\ (Alone(c) => Alone(c)')
      BY <3>2 DEF Joins, Alone
    <3>4. Continues(Entry(pend[c]), Base) => Continues(Entry(pend[c]), Base)'
      BY <1>1, <1>3, <1>4, <3>2 DEF Continues, Entry
    <3>5. Opens(Entry(pend[c]), Base) => Opens(Entry(pend[c]), Base)'
      BY <1>1, <1>3, <1>4, <3>2 DEF Opens, Entry
    <3>6. QED
      BY <2>1, <3>3, <3>4, <3>5 DEF PlacedAt
  <2>2. ASSUME p.session # NoSession, key[1] = "p" PROVE PlacedAt(n + 1)'
    <3>1. (n + 1) - 1 = n
      BY <1>1
    <3>2. CASE key \in DOMAIN seen
      <4>1. PICK d \in 1..n : KeyOf(pend[d].kind) = key /\ pend[d].session = seen[key]
        BY <1>1, <3>2 DEF History, MemoKnown
      <4>2. pend'[d] = pend[d] /\ p.session = seen[key]
        BY <1>1, <3>2
      <4>3. Joins(n + 1)'
        BY <1>1, <3>1, <4>1, <4>2 DEF Joins
      <4>4. QED
        BY <4>3 DEF PlacedAt
    <3>3. CASE key \notin DOMAIN seen
      <4>1. p.session \in Resolve(p.kind) /\ p.kind.header = NoHeader
        BY <1>1, <2>2, <3>3, KeyShapes, <1>2 DEF KeyOf
      <4>2. Continues(Entry(p), Len(log)) \/ Opens(Entry(p), Len(log))
        BY <1>1, <4>1, ResolvePlaces
      <4>3. Alone(n + 1)'
        <5>1. ASSUME NEW d \in 1..n, KeyOf(pend'[d].kind) = key
              PROVE  pend'[d].session = NoSession
          BY <1>1, <3>3, <5>1 DEF History, MemoKnown
        <5>2. QED
          BY <1>1, <3>1, <5>1 DEF Alone
      <4>4. Continues(Entry(p), Len(log)) => Continues(Entry(p), Len(log))'
        BY <1>1 DEF Continues, Entry
      <4>5. Opens(Entry(p), Len(log)) => Opens(Entry(p), Len(log))'
        BY <1>1 DEF Opens, Entry
      <4>6. QED
        BY <1>1, <1>4, <4>2, <4>3, <4>4, <4>5 DEF PlacedAt
    <3>4. QED
      BY <3>2, <3>3
  <2>3. ASSUME NEW c \in 1..n, pend'[c].session # NoSession, KeyOf(pend'[c].kind)[1] = "p"
        PROVE  PlacedAt(c)'
    <3>1. pend'[c] = pend[c] /\ c \in Waiting
      BY <1>1, <1>3
    <3>2. PlacedAt(c)
      BY <2>3, <3>1 DEF History, Placed
    <3>3. QED
      BY <2>1, <3>2
  <2>4. \A c \in 1..(n + 1) : c \in 1..n \/ c = n + 1
    BY <1>1
  <2>5. ASSUME NEW c \in 1..(n + 1), pend'[c].session # NoSession, KeyOf(pend'[c].kind)[1] = "p"
        PROVE  PlacedAt(c)'
    BY <1>1, <2>2, <2>3, <2>4, <2>5
  <2>6. QED
    BY <1>4, <2>5 DEF Placed
<1>11. QED
  BY <1>5, <1>6, <1>7, <1>8, <1>9, <1>10 DEF History

-----------------------------------------------------------------------------
(***************************************************************************)
(* Finishing a call.                                                       *)
(***************************************************************************)

\* The call goes to the end of the log, and the flush moves on or ends.
Finishes(e) ==
  LET p == pend[cursor] IN
  /\ e \in LogEntries(now, nextId)
  /\ e.id = p.id /\ e.session = p.session /\ e.key = KeyOf(p.kind)
  /\ e.at = p.at /\ e.started = p.started
  /\ cursor # 1 => log = <<>> \/ e.flush = log[Len(log)].flush
  /\ log' \in Seq(LogEntries(now, nextId))
  /\ DOMAIN log' = 1..(Len(log) + 1) /\ Len(log') = Len(log) + 1
  /\ \A i \in 1..Len(log) : log'[i] = log[i]
  /\ log'[Len(log) + 1] = e
  /\ Working /\ UNCHANGED <<now, rows, nextId>>
  /\ \/ /\ pend' = <<>> /\ seen' = <<>> /\ DOMAIN pend' = {} /\ DOMAIN seen' = {}
        /\ phase' = "prepare" /\ cursor = Len(pend)
     \/ /\ pend' = pend /\ seen' = seen
        /\ phase' = "warn" /\ cursor' = cursor + 1 /\ cursor < Len(pend)

\* The sessions table only takes the call in.
Folds(e) ==
  /\ \A s \in DOMAIN sessions : s \in DOMAIN sessions' /\ sessions[s].last <= sessions'[s].last
  /\ \A s \in DOMAIN sessions' :
       \/ s \in DOMAIN sessions /\ sessions'[s].last = sessions[s].last
       \/ s = e.session /\ sessions'[s].last = e.started
  /\ e.folded /\ e.session # NoSession =>
       e.session \in DOMAIN sessions' /\ e.started <= sessions'[e.session].last

LEMMA NextCallFinishes ==
  ASSUME Typed, History, NEW f \in BOOLEAN, Working, NextCall(pend[cursor], f),
         UNCHANGED <<now, rows, nextId>>
  PROVE  \E e : Finishes(e) /\ e.folded = f
<1> DEFINE p == pend[cursor]
           e == [id |-> p.id, session |-> p.session, key |-> KeyOf(p.kind),
                 at |-> p.at, started |-> p.started, folded |-> f,
                 flush |-> IF log = <<>> THEN 1
                           ELSE log[Len(log)].flush + (IF cursor = 1 THEN 1 ELSE 0)]
<1>1. /\ cursor \in 1..Len(pend) /\ Len(pend) \in Nat /\ p \in PreparedCalls(now, nextId)
      /\ Len(log) \in Nat /\ DOMAIN log = 1..Len(log)
      /\ \A j \in 1..Len(log) : log[j] \in LogEntries(now, nextId)
  BY PendElement, LogElement DEF Working, History
<1>2. e.flush \in Nat /\ (cursor # 1 => log = <<>> \/ e.flush = log[Len(log)].flush)
  <2>1. CASE log = <<>>
    BY <2>1
  <2>2. CASE log # <<>>
    <3>1. Len(log) \in 1..Len(log)
      BY <1>1, <2>2, EmptySeq DEF History, LogTyped
    <3>2. log[Len(log)].flush \in Nat
      BY <1>1, <3>1 DEF LogEntries
    <3>3. QED
      BY <2>2, <3>2
  <2>3. QED
    BY <2>1, <2>2
<1>3. e \in LogEntries(now, nextId)
  BY <1>1, <1>2 DEF LogEntries, PreparedCalls, Keys
<1>4. log' = Append(log, e)
  BY DEF NextCall
<1>5. /\ e.id = p.id /\ e.session = p.session /\ e.key = KeyOf(p.kind)
      /\ e.at = p.at /\ e.started = p.started /\ e.folded = f
  OBVIOUS
<1> HIDE DEF e
<1>6. /\ log' \in Seq(LogEntries(now, nextId))
      /\ DOMAIN log' = 1..(Len(log) + 1) /\ Len(log') = Len(log) + 1
      /\ \A i \in 1..Len(log) : log'[i] = log[i]
      /\ log'[Len(log) + 1] = e
  BY <1>3, <1>4, AppendProperties, LenProperties DEF History, LogTyped
<1>7. \/ /\ pend' = <<>> /\ seen' = <<>> /\ DOMAIN pend' = {} /\ DOMAIN seen' = {}
         /\ phase' = "prepare" /\ cursor = Len(pend)
      \/ /\ pend' = pend /\ seen' = seen
         /\ phase' = "warn" /\ cursor' = cursor + 1 /\ cursor < Len(pend)
  <2>1. DOMAIN <<>> = {}
    BY EmptySeq
  <2>2. QED
    BY <1>1, <2>1 DEF NextCall
<1>8. QED
  BY <1>2, <1>3, <1>5, <1>6, <1>7 DEF Finishes

LEMMA RecordCallFolds ==
  ASSUME Typed, History, RecordCall, NEW e,
         e.session = pend[cursor].session, e.started = pend[cursor].started
  PROVE  Folds(e)
<1> DEFINE p == pend[cursor]
<1>1. /\ phase = "fold"
      /\ sessions' = IF p.session = NoSession THEN sessions
                     ELSE UpsertSession(p.session, Contribution(p))
  BY DEF RecordCall
<1>2. p \in PreparedCalls(now, nextId) /\ p.started \in Int
  BY <1>1, PendElement DEF PreparedCalls, Typed, Counters
<1>3. \A s \in DOMAIN sessions : sessions[s].last \in Int
  BY LastTyped DEF Typed, Counters
<1>4. CASE p.session = NoSession
  BY <1>1, <1>3, <1>4 DEF Folds
<1>5. CASE p.session # NoSession
  <2> DEFINE sid == p.session
             c == Contribution(p)
  <2>1. c.last = p.started
    BY DEF Contribution
  <2>2. \A old : Merge(old, c).last = IF c.last > old.last THEN c.last ELSE old.last
    BY DEF Merge
  <2> HIDE DEF c
  <2>3. sessions' = [s \in DOMAIN sessions \cup {sid} |->
                       IF s # sid THEN sessions[s]
                       ELSE IF s \in DOMAIN sessions THEN Merge(sessions[s], c)
                       ELSE c]
    BY <1>1, <1>5 DEF UpsertSession, c
  <2> HIDE DEF p, sid
  <2>4. /\ DOMAIN sessions' = DOMAIN sessions \cup {sid}
        /\ \A s \in DOMAIN sessions \ {sid} : sessions'[s].last = sessions[s].last
        /\ sid \notin DOMAIN sessions => sessions'[sid].last = p.started
        /\ sid \in DOMAIN sessions =>
             sessions'[sid].last = IF p.started > sessions[sid].last THEN p.started
                                   ELSE sessions[sid].last
    BY <2>1, <2>2, <2>3
  <2>5. e.session = sid /\ e.started = p.started
    BY DEF sid, p
  <2>6. QED
    BY <1>2, <1>3, <2>4, <2>5 DEF Folds
<1>6. QED
  BY <1>4, <1>5

LEMMA FinishShape ==
  ASSUME Typed, History, SkipCall \/ RecordCall \/ RecordCallFails
  PROVE  \E e : Finishes(e) /\ Folds(e)
<1>1. \A s \in DOMAIN sessions : sessions[s].last \in Int
  BY LastTyped DEF Typed, Counters
<1>2. CASE SkipCall \/ RecordCallFails
  <2>1. /\ Working /\ NextCall(pend[cursor], FALSE)
        /\ UNCHANGED <<now, rows, nextId, sessions>>
    BY <1>2 DEF SkipCall, RecordCallFails, tables, Working
  <2>2. PICK e : Finishes(e) /\ e.folded = FALSE
    BY <2>1, NextCallFinishes
  <2>3. Folds(e)
    BY <1>1, <2>1, <2>2 DEF Folds
  <2>4. QED
    BY <2>2, <2>3
<1>3. CASE RecordCall
  <2>1. /\ Working /\ NextCall(pend[cursor], TRUE)
        /\ UNCHANGED <<now, rows, nextId>>
    BY <1>3 DEF RecordCall, Working
  <2>2. PICK e : Finishes(e) /\ e.folded = TRUE
    BY <2>1, NextCallFinishes
  <2>3. Folds(e)
    BY <1>3, <2>2, RecordCallFolds DEF Finishes
  <2>4. QED
    BY <2>2, <2>3
<1>4. QED
  BY <1>2, <1>3

\* The calls that still wait.
LEMMA FinishWaiting ==
  ASSUME Typed, History, NEW e, Finishes(e)
  PROVE  /\ cursor \in Waiting /\ cursor \in DOMAIN pend
         /\ \A c \in Waiting : c = cursor \/ (c \in Waiting' /\ pend' = pend)
         /\ \A c \in Waiting' : /\ c \in Waiting /\ c # cursor /\ pend' = pend /\ seen' = seen
                                /\ Base' = Base
<1>1. /\ cursor \in 1..Len(pend) /\ Len(pend) \in Nat /\ DOMAIN pend = 1..Len(pend) /\ Working
      /\ Len(log) \in Nat
  BY PendElement, LogElement DEF Working, Finishes, History
<1>2. CASE pend' = <<>> /\ DOMAIN pend' = {} /\ cursor = Len(pend)
  BY <1>1, <1>2 DEF Waiting
<1>3. CASE /\ pend' = pend /\ seen' = seen
           /\ phase' = "warn" /\ cursor' = cursor + 1 /\ cursor < Len(pend)
  <2>1. Working'
    BY <1>3 DEF Working
  <2>2. Base' = Base
    BY <1>1, <1>3, <2>1 DEF Base, Finishes
  <2>3. QED
    BY <1>1, <1>3, <2>1, <2>2 DEF Waiting
<1>4. QED
  BY <1>2, <1>3 DEF Finishes

LEMMA FinishedEntry ==
  ASSUME Typed, NEW e, Finishes(e)
  PROVE  now \in Nat /\ e.at \in 0..now /\ e.started \in 0..now /\ e.session \in Grouping
<1>1. e \in LogEntries(now, nextId)
  BY DEF Finishes
<1>2. QED
  BY <1>1 DEF LogEntries, Typed, Counters

LEMMA FinishLog ==
  ASSUME Typed, Keyed, History, NEW e, Finishes(e)
  PROVE  LogTyped' /\ LogKeyed' /\ NotInserted' /\ MemoKnown'
<1>1. Len(log) \in Nat /\ DOMAIN log = 1..Len(log) /\ cursor \in DOMAIN pend
  BY LogElement, FinishWaiting DEF History
<1>2. LogTyped'
  BY DEF LogTyped, Finishes
<1>3. e.session # NoSession => GroupKey(e.session) = e.key
  BY <1>1 DEF Finishes, Keyed, CallsKeyed
<1>4. ASSUME NEW j \in DOMAIN log', log'[j].session # NoSession
      PROVE  GroupKey(log'[j].session) = log'[j].key
  <2>1. j \in 1..Len(log) \/ j = Len(log) + 1
    BY <1>1 DEF Finishes
  <2>2. QED
    BY <1>1, <1>3, <1>4, <2>1 DEF Finishes, History, LogKeyed
<1>5. LogKeyed'
  BY <1>4 DEF LogKeyed
<1>6. NotInserted'
  BY DEF Finishes, NotInserted
<1>7. MemoKnown'
  BY DEF Finishes, History, MemoKnown
<1>8. QED
  BY <1>2, <1>5, <1>6, <1>7

LEMMA FinishMinted ==
  ASSUME Typed, History, NEW e, Finishes(e), Folds(e)
  PROVE  SessionsMinted'
<1>1. /\ Len(log) \in Nat /\ DOMAIN log = 1..Len(log) /\ cursor \in DOMAIN pend
      /\ now \in Nat /\ e.at \in 0..now /\ e.session \in Grouping
  BY LogElement, FinishWaiting, FinishedEntry DEF History
<1>2. Minted(e.session, e.at)
  BY <1>1 DEF Finishes, History, SessionsMinted
<1>3. Minted(e.session, now)
  BY <1>1, <1>2, MintedLater
<1>4. ASSUME NEW j \in DOMAIN log' PROVE Minted(log'[j].session, log'[j].at)
  <2>1. j \in 1..Len(log) \/ j = Len(log) + 1
    BY <1>1 DEF Finishes
  <2>2. QED
    BY <1>1, <1>2, <2>1 DEF Finishes, History, SessionsMinted
<1>5. \A s \in DOMAIN sessions' : Minted(s, now)
  BY <1>3 DEF Folds, History, SessionsMinted
<1>6. /\ \A c \in DOMAIN pend' : Minted(pend'[c].session, pend'[c].at)
      /\ \A k \in DOMAIN seen' : Minted(seen'[k], now)
  BY DEF Finishes, History, SessionsMinted
<1>7. now' = now
  BY DEF Finishes
<1>8. QED
  BY <1>4, <1>5, <1>6, <1>7 DEF SessionsMinted

LEMMA FinishFlushLogged ==
  ASSUME Typed, History, NEW e, Finishes(e)
  PROVE  FlushLogged'
<1>1. /\ cursor \in 1..Len(pend) /\ Len(pend) \in Nat /\ Len(log) \in Nat /\ Working
  BY PendElement, LogElement DEF Working, Finishes, History
<1>2. CASE phase' = "prepare"
  BY <1>2 DEF FlushLogged, Working
<1>3. CASE /\ pend' = pend /\ seen' = seen
           /\ phase' = "warn" /\ cursor' = cursor + 1 /\ cursor < Len(pend)
  <2>1. Base' = Base /\ Base = Len(log) - (cursor - 1) /\ Base \in Nat
    <3>1. Working'
      BY <1>3 DEF Working
    <3>2. Base = Len(log) - (cursor - 1) /\ Base >= 0
      BY <1>1 DEF Base, History, FlushLogged
    <3>3. QED
      BY <1>1, <1>3, <3>1, <3>2 DEF Base, Finishes
  <2>2. ASSUME NEW d \in 1..cursor
        PROVE  /\ log'[Base + d].key = KeyOf(pend[d].kind)
               /\ log'[Base + d].session = pend[d].session
               /\ log'[Base + d].flush = log'[Len(log')].flush
    <3>1. log'[Len(log')] = e
      BY DEF Finishes
    <3>2. CASE d = cursor
      <4>1. Base + d = Len(log) + 1
        BY <1>1, <2>1, <3>2
      <4>2. QED
        BY <3>1, <3>2, <4>1 DEF Finishes
    <3>3. CASE d # cursor
      <4>1. d \in 1..(cursor - 1) /\ Base + d \in 1..Len(log) /\ cursor # 1
        BY <1>1, <2>1, <3>3
      <4>2. log'[Base + d] = log[Base + d] /\ e.flush = log[Len(log)].flush
        BY <1>1, <4>1, EmptySeq DEF Finishes
      <4>3. QED
        BY <1>1, <3>1, <4>1, <4>2 DEF History, FlushLogged
    <3>4. QED
      BY <3>2, <3>3
  <2>3. cursor' - 1 = cursor
    BY <1>1, <1>3
  <2>4. QED
    BY <1>3, <2>1, <2>2, <2>3 DEF FlushLogged
<1>4. QED
  BY <1>2, <1>3 DEF Finishes

LEMMA FinishRows ==
  ASSUME Typed, History, NEW e, Finishes(e)
  PROVE  RowsKnown' /\ RowsMatch'
<1>1. /\ Len(log) \in Nat /\ DOMAIN log = 1..Len(log) /\ cursor \in DOMAIN pend
      /\ rows' = rows /\ e.id = pend[cursor].id /\ SameCall(e, pend[cursor])
      /\ DOMAIN log' = 1..(Len(log) + 1) /\ Len(log) + 1 \in DOMAIN log'
      /\ \A j \in DOMAIN log : j \in DOMAIN log' /\ log'[j] = log[j]
      /\ log'[Len(log) + 1] = e
  BY LogElement, FinishWaiting DEF History, Finishes, SameCall
<1>2. ASSUME NEW i \in DOMAIN rows
      PROVE  (\E j \in DOMAIN log' : log'[j].id = i) \/ (\E c \in Waiting' : pend'[c].id = i)
  <2>1. CASE \E j \in DOMAIN log : log[j].id = i
    BY <1>1, <2>1
  <2>2. CASE \E c \in Waiting : pend[c].id = i
    <3>1. PICK c \in Waiting : pend[c].id = i
      BY <2>2
    <3>2. c = cursor \/ (c \in Waiting' /\ pend' = pend)
      BY <3>1, FinishWaiting
    <3>3. QED
      BY <1>1, <3>1, <3>2
  <2>3. QED
    BY <2>1, <2>2 DEF History, RowsKnown
<1>3. ASSUME NEW j \in DOMAIN log', log'[j].id \in DOMAIN rows
      PROVE  SameCall(rows[log'[j].id], log'[j])
  <2>1. j \in DOMAIN log \/ j = Len(log) + 1
    BY <1>1
  <2>2. QED
    BY <1>1, <1>3, <2>1 DEF History, RowsMatch, SameCall
<1>4. \A c \in DOMAIN pend' : pend'[c].id \in DOMAIN rows => SameCall(rows[pend'[c].id], pend'[c])
  BY DEF Finishes, History, RowsMatch
<1>5. QED
  BY <1>1, <1>2, <1>3, <1>4 DEF RowsKnown, RowsMatch

LEMMA FinishSessions ==
  ASSUME Typed, History, Typed', NEW e, Finishes(e), Folds(e)
  PROVE  LastKnown' /\ FoldsCount'
<1>1. /\ Len(log) \in Nat /\ DOMAIN log = 1..Len(log) /\ cursor \in DOMAIN pend
      /\ rows' = rows /\ e.id = pend[cursor].id /\ SameCall(e, pend[cursor])
      /\ DOMAIN log' = 1..(Len(log) + 1) /\ Len(log) + 1 \in DOMAIN log'
      /\ \A j \in DOMAIN log : j \in DOMAIN log' /\ log'[j] = log[j]
      /\ log'[Len(log) + 1] = e
  BY LogElement, FinishWaiting DEF History, Finishes, SameCall
<1>2. ASSUME NEW s \in DOMAIN sessions'
      PROVE  \/ \E j \in DOMAIN log' : log'[j].session = s /\ log'[j].started = sessions'[s].last
             \/ \E c \in Waiting' : /\ pend'[c].id # NoId
                                    /\ pend'[c].session = s /\ pend'[c].started = sessions'[s].last
  <2>1. CASE s = e.session /\ sessions'[s].last = e.started
    BY <1>1, <2>1
  <2>2. CASE s \in DOMAIN sessions /\ sessions'[s].last = sessions[s].last
    <3>1. CASE \E j \in DOMAIN log : log[j].session = s /\ log[j].started = sessions[s].last
      BY <1>1, <2>2, <3>1
    <3>2. CASE \E c \in Waiting : /\ pend[c].id # NoId
                                  /\ pend[c].session = s /\ pend[c].started = sessions[s].last
      <4>1. PICK c \in Waiting : /\ pend[c].id # NoId
                                 /\ pend[c].session = s /\ pend[c].started = sessions[s].last
        BY <3>2
      <4>2. c = cursor \/ (c \in Waiting' /\ pend' = pend)
        BY <4>1, FinishWaiting
      <4>3. QED
        BY <1>1, <2>2, <4>1, <4>2 DEF SameCall
    <3>3. QED
      BY <2>2, <3>1, <3>2 DEF History, LastKnown
  <2>3. QED
    BY <2>1, <2>2 DEF Folds
<1>3. ASSUME NEW j \in DOMAIN log',
             log'[j].folded, log'[j].session # NoSession, log'[j].id \in DOMAIN rows
      PROVE  /\ log'[j].session \in DOMAIN sessions'
             /\ log'[j].started <= sessions'[log'[j].session].last
  <2>1. CASE j = Len(log) + 1
    BY <1>1, <1>3, <2>1 DEF Folds
  <2>2. CASE j \in DOMAIN log
    <3> DEFINE s == log[j].session
    <3>1. s \in DOMAIN sessions /\ log[j].started <= sessions[s].last
      BY <1>1, <1>3, <2>2 DEF History, FoldsCount
    <3>2. s \in DOMAIN sessions' /\ sessions[s].last <= sessions'[s].last
      BY <3>1 DEF Folds
    <3>3. log[j].started \in Int /\ e.started \in Int
      <4>1. log[j] \in LogEntries(now, nextId)
        BY <1>1, <2>2, LogElement DEF History
      <4>2. QED
        BY <4>1, FinishedEntry DEF LogEntries
    <3>4. sessions[s].last \in Int /\ sessions'[s].last \in Int
      BY <3>1, <3>2, <3>3, LastTyped DEF Typed, Counters, Folds
    <3>5. QED
      BY <1>1, <2>2, <3>1, <3>2, <3>3, <3>4
  <2>3. QED
    BY <1>1, <2>1, <2>2
<1>4. QED
  BY <1>1, <1>2, <1>3 DEF LastKnown, FoldsCount

LEMMA FinishPlaced ==
  ASSUME Typed, History, NEW e, Finishes(e)
  PROVE  Placed'
<1>1. /\ cursor \in 1..Len(pend) /\ Len(pend) \in Nat /\ Len(log) \in Nat /\ Working
  BY PendElement, LogElement DEF Working, Finishes, History
<1>2. Base \in Nat /\ Base <= Len(log)
  BY <1>1 DEF Base, History, FlushLogged
<1>3. rows' = rows /\ \A i \in 1..Base : log'[i] = log[i]
  BY <1>1, <1>2 DEF Finishes
<1>4. ASSUME NEW c \in Waiting', pend'[c].session # NoSession, KeyOf(pend'[c].kind)[1] = "p"
      PROVE  PlacedAt(c)'
  <2>1. c \in Waiting /\ pend' = pend /\ Base' = Base
    BY FinishWaiting
  <2>2. PlacedAt(c)
    BY <1>4, <2>1 DEF History, Placed
  <2>3. (Joins(c) => Joins(c)') /\ (Alone(c) => Alone(c)')
    BY <2>1 DEF Joins, Alone
  <2>4. Continues(Entry(pend[c]), Base) => Continues(Entry(pend[c]), Base)'
    BY <1>3, <2>1 DEF Continues
  <2>5. Opens(Entry(pend[c]), Base) => Opens(Entry(pend[c]), Base)'
    BY <1>3, <2>1 DEF Opens
  <2>6. QED
    BY <2>2, <2>3, <2>4, <2>5 DEF PlacedAt
<1>5. QED
  BY <1>4 DEF Placed

LEMMA FinishHistory ==
  ASSUME Typed, Keyed, History, Typed', SkipCall \/ RecordCall \/ RecordCallFails
  PROVE  History'
<1>1. PICK e : Finishes(e) /\ Folds(e)
  BY FinishShape
<1>2. LogTyped' /\ LogKeyed' /\ NotInserted' /\ MemoKnown'
  BY <1>1, FinishLog
<1>3. SessionsMinted' /\ FlushLogged' /\ Placed'
  BY <1>1, FinishMinted, FinishFlushLogged, FinishPlaced
<1>4. RowsKnown' /\ RowsMatch' /\ LastKnown' /\ FoldsCount'
  BY <1>1, FinishRows, FinishSessions
<1>5. QED
  BY <1>2, <1>3, <1>4 DEF History

-----------------------------------------------------------------------------
(***************************************************************************)
(* Purging.                                                                *)
(***************************************************************************)

\* A rebuilt session was last seen when its latest remaining row started.
LEMMA RebuiltLast ==
  ASSUME Typed, NEW prefix, NEW S, S \subseteq DOMAIN rows, S # {}
  PROVE  LET last == SessionTotals(prefix, rows, warnings, S).last IN
         /\ \E i \in S : rows[i].started = last
         /\ \A i \in S : rows[i].started <= last
<1> DEFINE starts == {rows[i].started : i \in S}
<1>1. now \in Nat /\ starts # {} /\ starts \subseteq 0..now
  BY DEF Typed, Counters, TablesTyped, RowsAt
<1> HIDE DEF starts
<1>2. \E m \in starts : \A x \in starts : x <= m
  BY <1>1, LargestOf
<1>3. \E m \in starts : \A x \in starts : m >= x
  BY <1>1, <1>2
<1>4. Max(starts) \in starts /\ \A x \in starts : Max(starts) >= x
  BY <1>3 DEF Max
<1>5. \A x \in starts : x <= Max(starts)
  BY <1>1, <1>4
<1>6. SessionTotals(prefix, rows, warnings, S).last = Max(starts)
  BY DEF SessionTotals, starts
<1>7. \A i \in S : rows[i].started \in starts
  BY DEF starts
<1>8. \E i \in S : rows[i].started = Max(starts)
  BY <1>4 DEF starts
<1>9. QED
  BY <1>5, <1>6, <1>7, <1>8

\* What a purge leaves of the history: fewer rows, and sessions that are as
\* they were or rebuilt from the rows that are left.
Purges ==
  /\ UNCHANGED <<now, nextId, phase, pend, cursor, seen, log>>
  /\ Waiting' = Waiting /\ Base' = Base
  /\ DOMAIN rows' \subseteq DOMAIN rows
  /\ \A i \in DOMAIN rows' : SameCall(rows'[i], rows[i])
  /\ DOMAIN sessions' \subseteq DOMAIN sessions
  /\ \A s \in DOMAIN sessions' :
       \/ sessions'[s].last = sessions[s].last
       \/ \E i \in DOMAIN rows : rows[i].session = s /\ rows[i].started = sessions'[s].last
  /\ \A i \in DOMAIN rows' :
       rows[i].session # NoSession /\ rows[i].session \in DOMAIN sessions =>
         LET s == rows[i].session IN
         /\ s \in DOMAIN sessions'
         /\ \/ sessions'[s] = sessions[s]
            \/ rows[i].started <= sessions'[s].last

LEMMA PurgeShape == ASSUME Typed, Purge PROVE Purges
<1>1. PICK S : S \subseteq DOMAIN rows /\ PurgeWhere(S)
  BY PurgeTakesRows
<1>2. UNCHANGED <<now, nextId, phase, pend, cursor, seen, log>>
  BY PurgeTakesRows
<1>3. Waiting' = Waiting /\ Base' = Base
  BY <1>2 DEF Waiting, Base, Working
<1>4. /\ DOMAIN rows' = DOMAIN rows \ S
      /\ \A i \in DOMAIN rows' :
           rows'[i] = [rows[i] EXCEPT !.replayOf = IF @ \in S THEN NoId ELSE @]
      /\ DOMAIN sessions' \subseteq DOMAIN sessions
  BY <1>1, PurgeWhereRows, PurgeWhereKeys
<1>5. ASSUME NEW i \in DOMAIN rows' PROVE SameCall(rows'[i], rows[i])
  <2>1. rows[i] \in RowsAt(i, now)
    BY <1>4 DEF Typed, TablesTyped
  <2>2. QED
    BY <1>4, <2>1 DEF RowsAt, SameCall
<1>6. /\ DOMAIN sessions' =
           DOMAIN sessions \ {s \in Losing(S) : SessionRows(rows, s) \subseteq S}
      /\ \A s \in DOMAIN sessions' :
           /\ s \notin Losing(S) => sessions'[s] = sessions[s]
           /\ s \in Losing(S) =>
                sessions'[s] = SessionTotals(sessions[s].prefix, rows, warnings,
                                             SessionRows(rows, s) \ S)
  BY <1>1, PurgeWhereSessions
<1>7. ASSUME NEW s \in DOMAIN sessions', s \in Losing(S)
      PROVE  /\ \E i \in SessionRows(rows, s) \ S : rows[i].started = sessions'[s].last
             /\ \A i \in SessionRows(rows, s) \ S : rows[i].started <= sessions'[s].last
  <2> DEFINE left == SessionRows(rows, s) \ S
  <2>1. left # {} /\ left \subseteq DOMAIN rows
    BY <1>6, <1>7 DEF SessionRows
  <2>2. sessions'[s] = SessionTotals(sessions[s].prefix, rows, warnings, left)
    BY <1>6, <1>7
  <2> HIDE DEF left
  <2>3. QED
    BY <2>1, <2>2, RebuiltLast DEF left
<1>8. \A s \in DOMAIN sessions' :
        \/ sessions'[s].last = sessions[s].last
        \/ \E i \in DOMAIN rows : rows[i].session = s /\ rows[i].started = sessions'[s].last
  BY <1>6, <1>7 DEF SessionRows
<1>9. ASSUME NEW i \in DOMAIN rows',
             rows[i].session # NoSession, rows[i].session \in DOMAIN sessions
      PROVE  /\ rows[i].session \in DOMAIN sessions'
             /\ \/ sessions'[rows[i].session] = sessions[rows[i].session]
                \/ rows[i].started <= sessions'[rows[i].session].last
  <2> DEFINE s == rows[i].session
  <2>1. i \in SessionRows(rows, s) \ S
    BY <1>4 DEF SessionRows
  <2>2. s \in DOMAIN sessions'
    BY <1>6, <1>9, <2>1
  <2>3. CASE s \in Losing(S)
    BY <1>7, <2>1, <2>2, <2>3
  <2>4. CASE s \notin Losing(S)
    BY <1>6, <2>2, <2>4
  <2>5. QED
    BY <2>2, <2>3, <2>4
<1>10. QED
  BY <1>2, <1>3, <1>4, <1>5, <1>8, <1>9 DEF Purges

LEMMA PurgeRows == ASSUME Typed, History, Purges PROVE RowsKnown' /\ RowsMatch'
<1>1. RowsKnown'
  BY DEF Purges, History, RowsKnown
<1>2. /\ DOMAIN rows' \subseteq DOMAIN rows
      /\ \A i \in DOMAIN rows' : SameCall(rows'[i], rows[i])
      /\ log' = log /\ pend' = pend
  BY DEF Purges
<1>3. RowsMatch'
  BY <1>2 DEF History, RowsMatch, SameCall
<1>4. QED
  BY <1>1, <1>3

LEMMA PurgeSessions == ASSUME Typed, History, Purges PROVE LastKnown' /\ FoldsCount'
<1>1. log' = log /\ pend' = pend /\ Waiting' = Waiting /\ Waiting \subseteq DOMAIN pend
  BY DEF Purges, Waiting
<1>2. ASSUME NEW s \in DOMAIN sessions'
      PROVE  \/ \E j \in DOMAIN log : log[j].session = s /\ log[j].started = sessions'[s].last
             \/ \E c \in Waiting : /\ pend[c].id # NoId
                                   /\ pend[c].session = s /\ pend[c].started = sessions'[s].last
  <2>1. CASE sessions'[s].last = sessions[s].last
    BY <2>1 DEF Purges, History, LastKnown
  <2>2. CASE \E i \in DOMAIN rows : rows[i].session = s /\ rows[i].started = sessions'[s].last
    <3>1. PICK i \in DOMAIN rows : rows[i].session = s /\ rows[i].started = sessions'[s].last
      BY <2>2
    <3>2. i # NoId
      BY DEF Typed, TablesTyped, Counters, NoId
    <3>3. CASE \E j \in DOMAIN log : log[j].id = i
      BY <3>1, <3>3 DEF History, RowsMatch, SameCall
    <3>4. CASE \E c \in Waiting : pend[c].id = i
      BY <1>1, <3>1, <3>2, <3>4 DEF History, RowsMatch, SameCall
    <3>5. QED
      BY <3>3, <3>4 DEF History, RowsKnown
  <2>3. QED
    BY <2>1, <2>2 DEF Purges
<1>3. ASSUME NEW j \in DOMAIN log,
             log[j].folded, log[j].session # NoSession, log[j].id \in DOMAIN rows'
      PROVE  log[j].session \in DOMAIN sessions' /\ log[j].started <= sessions'[log[j].session].last
  <2> DEFINE i == log[j].id
             s == log[j].session
  <2>1. i \in DOMAIN rows
    BY <1>3 DEF Purges
  <2>2. rows[i].session = s /\ rows[i].started = log[j].started
    BY <2>1 DEF History, RowsMatch, SameCall
  <2>3. s \in DOMAIN sessions /\ log[j].started <= sessions[s].last
    BY <1>3, <2>1 DEF History, FoldsCount
  <2>4. QED
    BY <1>3, <2>2, <2>3 DEF Purges
<1>4. QED
  BY <1>1, <1>2, <1>3 DEF LastKnown, FoldsCount

LEMMA PurgePlaced == ASSUME Typed, History, Purges PROVE Placed'
<1>1. /\ log' = log /\ pend' = pend /\ Waiting' = Waiting /\ Base' = Base
      /\ DOMAIN rows' \subseteq DOMAIN rows
  BY DEF Purges
<1>2. ASSUME NEW c, PlacedAt(c) PROVE PlacedAt(c)'
  <2>1. (Joins(c) => Joins(c)') /\ (Alone(c) => Alone(c)')
    BY <1>1 DEF Joins, Alone
  <2>2. Continues(Entry(pend[c]), Base) => Continues(Entry(pend[c]), Base)'
    BY <1>1 DEF Continues
  <2>3. Opens(Entry(pend[c]), Base) => Opens(Entry(pend[c]), Base)'
    BY <1>1 DEF Opens
  <2>4. QED
    BY <1>2, <2>1, <2>2, <2>3 DEF PlacedAt
<1>3. QED
  BY <1>1, <1>2 DEF History, Placed

LEMMA PurgeHistory == ASSUME Typed, History, Purge PROVE History'
<1>1. Purges
  BY PurgeShape
<1>2. LogTyped' /\ LogKeyed' /\ NotInserted' /\ MemoKnown'
  BY <1>1 DEF Purges, History, LogTyped, LogKeyed, NotInserted, MemoKnown
<1>3. SessionsMinted'
  BY <1>1 DEF Purges, History, SessionsMinted
<1>4. FlushLogged'
  BY <1>1 DEF Purges, History, FlushLogged, Working
<1>5. QED
  BY <1>1, <1>2, <1>3, <1>4, PurgeRows, PurgeSessions, PurgePlaced DEF History

-----------------------------------------------------------------------------
(***************************************************************************)
(* Grouping.                                                               *)
(***************************************************************************)

LEMMA HistoryInit == Init => History
<1> SUFFICES ASSUME Init PROVE History
  OBVIOUS
<1>1. << >> \in Seq(LogEntries(0, 1)) /\ Len(<< >>) = 0 /\ DOMAIN << >> = {}
  BY EmptySeq
<1>2. LogTyped
  BY <1>1 DEF Init, LogTyped
<1>3. ~ Working /\ FlushLogged
  BY DEF Init, Working, FlushLogged
<1>4. Waiting = {}
  BY <1>1 DEF Init, Waiting
<1>5. SessionsMinted /\ LogKeyed /\ NotInserted /\ RowsKnown /\ RowsMatch
  BY <1>1 DEF Init, SessionsMinted, LogKeyed, NotInserted, RowsKnown, RowsMatch
<1>6. LastKnown /\ FoldsCount /\ MemoKnown /\ Placed
  BY <1>1, <1>4 DEF Init, LastKnown, FoldsCount, MemoKnown, Placed
<1>7. QED
  BY <1>2, <1>3, <1>5, <1>6 DEF History

LEMMA HistoryStep == Typed /\ Keyed /\ History /\ [Next]_vars => History'
<1> SUFFICES ASSUME Typed, Keyed, History, [Next]_vars PROVE History'
  OBVIOUS
<1>1. Typed'
  BY TypedStep
<1>2. QED
  BY <1>1, MiddleHistory, PrepareHistory, FinishHistory, PurgeHistory DEF Next

\* A logged call and the calls logged before it.
MatesInFlush(j) ==
  \E i \in 1..(j - 1) : /\ log[i].key = log[j].key /\ log[i].session = log[j].session
                        /\ log[i].flush = log[j].flush
GroupedAt(j) ==
  log[j].session # NoSession /\ log[j].key[1] = "p" =>
    MatesInFlush(j) \/ Continues(log[j], j - 1) \/ Opens(log[j], j - 1)
AllGrouped == \A j \in DOMAIN log : GroupedAt(j)

LEMMA AllGroupedMeans == AllGrouped => GroupedByGap
<1> SUFFICES ASSUME AllGrouped,
                    NEW j \in {k \in DOMAIN log : log[k].session # NoSession /\ log[k].key[1] = "p"}
             PROVE  LET earlier == {i \in 1 .. j - 1 : log[i].key = log[j].key}
                        mates   == {i \in earlier : log[i].session = log[j].session}
                        Near(i) == log[j].at - log[i].started <= WindowOf(log[j].key[2])
                    IN
                    /\ mates # {} => \E i \in mates :
                         log[i].flush = log[j].flush \/ log[i].at = log[j].at \/ Near(i)
                    /\ mates = {} => \A i \in earlier :
                         log[i].folded /\ log[i].session # NoSession /\ log[i].id \in DOMAIN rows
                           => ~ Near(i)
  BY DEF GroupedByGap
<1>1. MatesInFlush(j) \/ Continues(log[j], j - 1) \/ Opens(log[j], j - 1)
  BY DEF AllGrouped, GroupedAt
<1>2. CASE MatesInFlush(j)
  BY <1>2 DEF MatesInFlush
<1>3. CASE Continues(log[j], j - 1)
  BY <1>3 DEF Continues, NearTo
<1>4. CASE Opens(log[j], j - 1)
  BY <1>4 DEF Opens, NearTo
<1>5. QED
  BY <1>1, <1>2, <1>3, <1>4

\* While the log stays, rows only leave it.
LEMMA GroupedStays ==
  ASSUME AllGrouped, log' = log, LogTyped,
         \A j \in DOMAIN log : log[j].id \in DOMAIN rows' => log[j].id \in DOMAIN rows
  PROVE  AllGrouped'
<1>1. Len(log) \in Nat /\ DOMAIN log = 1..Len(log)
  BY LogElement
<1>2. ASSUME NEW j \in DOMAIN log PROVE GroupedAt(j)'
  <2>1. \A i \in 1..(j - 1) : i \in DOMAIN log
    BY <1>1
  <2>2. MatesInFlush(j) => MatesInFlush(j)'
    BY DEF MatesInFlush
  <2>3. Continues(log[j], j - 1) => Continues(log[j], j - 1)'
    BY DEF Continues
  <2>4. Opens(log[j], j - 1) => Opens(log[j], j - 1)'
    BY <2>1 DEF Opens
  <2>5. QED
    BY <2>2, <2>3, <2>4 DEF AllGrouped, GroupedAt
<1>3. QED
  BY <1>2 DEF AllGrouped

LEMMA FinishGrouped ==
  ASSUME Typed, Keyed, History, AllGrouped, NEW e, Finishes(e)
  PROVE  AllGrouped'
<1>0. PICK n : n = Len(log)
  OBVIOUS
<1>1. /\ n \in Nat /\ DOMAIN log = 1..n /\ DOMAIN log' = 1..(n + 1)
      /\ \A i \in 1..n : log'[i] = log[i]
      /\ log'[n + 1] = e /\ rows' = rows
  BY <1>0, LogElement DEF History, Finishes
<1>2. /\ cursor \in 1..Len(pend) /\ cursor \in Waiting /\ Len(pend) \in Nat
      /\ Base = n - (cursor - 1) /\ Base \in Nat /\ Base <= n
  <2>1. Working /\ cursor \in 1..Len(pend) /\ cursor \in Waiting /\ Len(pend) \in Nat
    BY PendElement, FinishWaiting DEF Working, Finishes
  <2>2. Base = n - (cursor - 1) /\ Base >= 0
    BY <1>0, <2>1 DEF Base, History, FlushLogged
  <2>3. QED
    BY <1>1, <2>1, <2>2
<1>3. PICK b \in Nat, k \in Nat \ {0} : b = Base /\ k = cursor /\ n = b + (k - 1) /\ b <= n
  BY <1>1, <1>2
\* The flush's own entries.
<1>4. ASSUME NEW d \in 1..(k - 1)
      PROVE  /\ b + d \in 1..n
             /\ log[b + d].key = KeyOf(pend[d].kind) /\ log[b + d].session = pend[d].session
             /\ log[b + d].flush = e.flush
  <2>1. b + d \in 1..n /\ k # 1
    BY <1>3
  <2>2. log # <<>> /\ e.flush = log[Len(log)].flush
    BY <1>0, <1>1, <1>3, <2>1, EmptySeq DEF Finishes
  <2>3. QED
    BY <1>3, <2>1, <2>2 DEF Finishes, History, FlushLogged
<1>5. ASSUME e.session # NoSession, e.key[1] = "p"
      PROVE  GroupedAt(n + 1)'
  <2> DEFINE p == pend[cursor]
  <2>1. p.session = e.session /\ KeyOf(p.kind) = e.key /\ p.at = e.at
    BY DEF Finishes
  <2>2. PlacedAt(cursor)
    BY <1>2, <1>5, <2>1 DEF History, Placed
  <2>3. (n + 1) - 1 = n /\ \A i \in 1..b : i \in 1..n
    BY <1>1, <1>3
  <2>4. CASE Joins(cursor)
    <3>1. PICK d \in 1..(k - 1) : KeyOf(pend[d].kind) = e.key /\ pend[d].session = e.session
      BY <1>3, <2>1, <2>4 DEF Joins
    <3>2. MatesInFlush(n + 1)'
      BY <1>1, <1>4, <2>3, <3>1 DEF MatesInFlush
    <3>3. QED
      BY <3>2 DEF GroupedAt
  <2>5. CASE Continues(Entry(p), Base)
    <3>1. PICK i \in 1..b : /\ log[i].key = e.key /\ log[i].session = e.session
                            /\ log[i].at = e.at \/ e.at - log[i].started <= WindowOf(e.key[2])
      BY <1>3, <2>1, <2>5 DEF Continues, Entry, NearTo
    <3>2. Continues(log[n + 1], n)'
      BY <1>1, <2>3, <3>1 DEF Continues, NearTo
    <3>3. QED
      BY <2>3, <3>2 DEF GroupedAt
  <2>6. CASE Alone(cursor) /\ Opens(Entry(p), Base)
    <3>1. ASSUME NEW i \in 1..n, log[i].key = e.key
          PROVE  /\ log[i].session # e.session
                 /\ log[i].folded /\ log[i].session # NoSession /\ log[i].id \in DOMAIN rows
                      => ~ (e.at - log[i].started <= WindowOf(e.key[2]))
      <4>1. CASE i <= b
        <5>1. i \in 1..b
          BY <4>1, <1>1
        <5>2. QED
          BY <1>3, <2>1, <2>6, <3>1, <5>1 DEF Opens, Entry, NearTo
      <4>2. CASE ~ (i <= b)
        <5>1. i - b \in 1..(k - 1) /\ b + (i - b) = i
          BY <1>1, <1>3, <4>2
        <5>2. log[i].session = NoSession
          BY <1>3, <1>4, <2>1, <2>6, <3>1, <5>1 DEF Alone
        <5>3. QED
          BY <1>5, <5>2
      <4>3. QED
        BY <4>1, <4>2
    <3>2. Opens(log[n + 1], n)'
      BY <1>1, <3>1 DEF Opens, NearTo
    <3>3. QED
      BY <2>3, <3>2 DEF GroupedAt
  <2>7. QED
    BY <2>2, <2>4, <2>5, <2>6 DEF PlacedAt
<1>6. ASSUME NEW j \in 1..n PROVE GroupedAt(j)'
  <2>1. \A i \in 1..(j - 1) : i \in 1..n
    BY <1>1
  <2>2. log'[j] = log[j] /\ \A i \in 1..(j - 1) : log'[i] = log[i]
    BY <1>1, <2>1
  <2>3. MatesInFlush(j) => MatesInFlush(j)'
    BY <2>2 DEF MatesInFlush
  <2>4. Continues(log[j], j - 1) => Continues(log[j], j - 1)'
    BY <2>2 DEF Continues
  <2>5. Opens(log[j], j - 1) => Opens(log[j], j - 1)'
    BY <1>1, <2>2 DEF Opens
  <2>6. QED
    BY <1>1, <2>2, <2>3, <2>4, <2>5 DEF AllGrouped, GroupedAt
<1>7. ASSUME NEW j \in DOMAIN log' PROVE GroupedAt(j)'
  <2>1. j \in 1..n \/ j = n + 1
    BY <1>1
  <2>2. ~ (e.session # NoSession /\ e.key[1] = "p") => GroupedAt(n + 1)'
    BY <1>1 DEF GroupedAt
  <2>3. QED
    BY <1>5, <1>6, <2>1, <2>2
<1>8. QED
  BY <1>7 DEF AllGrouped

LEMMA GroupedStep == Typed /\ Keyed /\ History /\ AllGrouped /\ [Next]_vars => AllGrouped'
<1> SUFFICES ASSUME Typed, Keyed, History, AllGrouped, [Next]_vars PROVE AllGrouped'
  OBVIOUS
<1>1. LogTyped /\ \A j \in DOMAIN log : log[j].id \in 0..(nextId - 1)
  BY LogElement DEF History, LogEntries
<1>2. CASE \/ UNCHANGED vars \/ Tick \/ FallBack \/ RefuseOne
           \/ InsertRequests \/ InsertOne \/ InsertWarnings
  <2>1. Middle
    BY <1>2, MiddleSteps DEF History
  <2>2. log' = log /\ \A j \in DOMAIN log : log[j].id \in DOMAIN rows' => log[j].id \in DOMAIN rows
    BY <1>1, <2>1, MiddleRows DEF Middle
  <2>3. QED
    BY <1>1, <2>2, GroupedStays
<1>3. CASE PrepareCall
  <2>1. log' = log /\ rows' = rows
    BY <1>3 DEF PrepareCall, tables
  <2>2. QED
    BY <1>1, <2>1, GroupedStays
<1>4. CASE SkipCall \/ RecordCall \/ RecordCallFails
  <2>1. PICK e : Finishes(e)
    BY <1>4, FinishShape
  <2>2. QED
    BY <2>1, FinishGrouped
<1>5. CASE Purge
  <2>1. log' = log /\ DOMAIN rows' \subseteq DOMAIN rows
    BY <1>5, PurgeShape DEF Purges
  <2>2. QED
    BY <1>1, <2>1, GroupedStays
<1>6. QED
  BY <1>2, <1>3, <1>4, <1>5 DEF Next

\* The gap and nothing else groups the calls of a prefix, for every gap,
\* every batch and every order of flushes, folds, faults and purges: the
\* memo makes up for the folds that a flush's lookups do not see, and a purge
\* that rebuilds a session never makes it look older or younger than a call
\* that is left of it (Resolve, flushBatch, reconcileSession).
THEOREM SessionsGroupedByGap == Spec => []GroupedByGap
<1>1. Init => Keyed /\ AllGrouped
  BY EmptySeq DEF Init, Keyed, CallsKeyed, MemoKeyed, SessionsKeyed, AllGrouped
<1>2. QED
  BY <1>1, TypedInit, TypedStep, KeyedStep, HistoryInit, HistoryStep, GroupedStep, AllGroupedMeans,
     PTL DEF Spec

-----------------------------------------------------------------------------
(***************************************************************************)
(* Sums.                                                                   *)
(***************************************************************************)

\* A set of numbers that is not empty has a least one.
LEMMA LeastOf ==
  ASSUME NEW T, T \subseteq Nat, T # {}
  PROVE  \E m \in T : \A k \in T : m <= k
<1>1. PICK n \in T : TRUE
  OBVIOUS
<1> DEFINE D == {n - x : x \in T \cap 0..n}
<1>2. n \in Nat /\ D \subseteq 0..n /\ n - n \in D
  BY <1>1
<1>3. PICK d \in D : \A e \in D : e <= d
  <2> HIDE DEF D
  <2>1. D # {}
    BY <1>2
  <2>2. QED
    BY <1>2, <2>1, LargestOf
<1>4. PICK m \in T : m \in 0..n /\ d = n - m
  BY <1>3
<1>5. ASSUME NEW k \in T PROVE m <= k
  <2>1. k \in Nat
    OBVIOUS
  <2>2. CASE k <= n
    <3>1. n - k \in D
      BY <1>2, <2>1, <2>2
    <3>2. n - k <= n - m
      BY <1>3, <1>4, <3>1
    <3>3. QED
      BY <1>2, <1>4, <2>1, <3>2
  <2>3. CASE ~ (k <= n)
    BY <1>2, <1>4, <2>1, <2>3
  <2>4. QED
    BY <2>2, <2>3
<1>6. QED
  BY <1>5

\* The element that a sum over s starts with.
Some(s) == CHOOSE x \in s : TRUE

\* g sums up v over each subset of S, one element at a time.
SumsUp(v, S, g) ==
  g = [s \in SUBSET S |-> IF s = {} THEN 0 ELSE v[Some(s)] + g[s \ {Some(s)}]]

SumOver(v, S) == CHOOSE g : SumsUp(v, S, g)

LEMMA SumIs ==
  ASSUME NEW v
  PROVE  SumFunction(v) = SumOver(v, DOMAIN v)[DOMAIN v]
  BY DEF SumFunction, SumFunctionOnSet, FoldFunctionOnSet, MapThenFoldSet, SumsUp, Some, SumOver

LEMMA SomeIn == ASSUME NEW s, s # {} PROVE Some(s) \in s
  BY DEF Some

LEMMA Smaller ==
  ASSUME NEW S, IsFiniteSet(S), NEW s \in SUBSET S
  PROVE  /\ IsFiniteSet(s) /\ Cardinality(s) \in Nat /\ Cardinality(s) <= Cardinality(S)
         /\ \A x \in s : s \ {x} \in SUBSET S /\ Cardinality(s \ {x}) = Cardinality(s) - 1
         /\ Cardinality(s) = 0 => s = {}
<1>1. IsFiniteSet(s) /\ Cardinality(s) \in Nat /\ Cardinality(s) <= Cardinality(S)
  BY FS_Subset, FS_CardinalityType
<1>2. \A x \in s : Cardinality(s \ {x}) = Cardinality(s) - 1
  BY <1>1, FS_RemoveElement
<1>3. Cardinality(s) = 0 => s = {}
  BY <1>1, FS_EmptySet
<1>4. QED
  BY <1>1, <1>2, <1>3

\* However large S is, such a g exists: if it did not, there would be a first
\* size of subsets that the smaller ones cannot be extended to.
LEMMA SumsExist ==
  ASSUME NEW v, NEW S, IsFiniteSet(S)
  PROVE  \E g : SumsUp(v, S, g)
<1> DEFINE Below(n) == {s \in SUBSET S : Cardinality(s) <= n}
           OneMore(g, s) == IF s = {} THEN 0 ELSE v[Some(s)] + g[s \ {Some(s)}]
           Part(n, g) == g = [s \in Below(n) |-> OneMore(g, s)]
           Bad == {n \in Nat : ~ \E g : Part(n, g)}
<1>1. ASSUME NEW m \in Bad, \A k \in Bad : m <= k PROVE FALSE
  <2>1. CASE m = 0
    <3>1. \A s \in Below(0) : s = {}
      BY Smaller
    <3>2. Part(0, [s \in Below(0) |-> 0])
      BY <3>1
    <3>3. QED
      BY <2>1, <3>2
  <2>2. CASE m # 0
    <3>0. m \in Nat
      OBVIOUS
    <3>1. m - 1 \in Nat /\ m - 1 \notin Bad
      <4> HIDE DEF Bad
      <4>1. QED
        BY <1>1, <2>2, <3>0
    <3>2. PICK g : Part(m - 1, g)
      BY <3>1
    <3> DEFINE h == [s \in Below(m) |-> OneMore(g, s)]
    <3>3. \A s \in Below(m - 1) : s \in Below(m) /\ h[s] = g[s]
      <4>1. ASSUME NEW s \in Below(m - 1) PROVE s \in Below(m) /\ h[s] = g[s]
        <5>1. Cardinality(s) \in Nat /\ Cardinality(s) <= m - 1
          BY Smaller
        <5>2. s \in Below(m)
          BY <3>0, <5>1
        <5>3. h[s] = OneMore(g, s)
          BY <5>2
        <5>4. g[s] = OneMore(g, s)
          <6> HIDE DEF OneMore, Below
          <6>1. QED
            BY <3>2
        <5>5. QED
          BY <5>2, <5>3, <5>4
      <4>2. QED
        BY <4>1
    <3>4. \A s \in Below(m) : s # {} => s \ {Some(s)} \in Below(m - 1)
      <4>1. ASSUME NEW s \in Below(m), s # {} PROVE s \ {Some(s)} \in Below(m - 1)
        BY <4>1, SomeIn, Smaller
      <4>2. QED
        BY <4>1
    <3>5. \A s \in Below(m) : OneMore(g, s) = OneMore(h, s)
      <4> HIDE DEF h, Below
      <4>1. QED
        BY <3>3, <3>4
    <3>6. h = [s \in Below(m) |-> OneMore(h, s)]
      <4>1. h = [s \in Below(m) |-> OneMore(g, s)]
        OBVIOUS
      <4> HIDE DEF h, Below, OneMore
      <4>2. QED
        BY <4>1, <3>5
    <3>7. QED
      BY <3>6
  <2>3. QED
    BY <2>1, <2>2
<1>2. Bad = {}
  <2> HIDE DEF Bad
  <2>1. Bad \subseteq Nat
    BY DEF Bad
  <2>2. QED
    BY <1>1, <2>1, LeastOf
<1>3. PICK g : Part(Cardinality(S), g)
  BY <1>2, FS_CardinalityType
<1>4. Below(Cardinality(S)) = SUBSET S
  BY Smaller
<1>5. QED
  BY <1>3, <1>4 DEF SumsUp

\* How such a g goes from set to set.
Climbs(v, S, g) ==
  /\ g[{}] = 0
  /\ \A s \in SUBSET S : s # {} => g[s] = v[Some(s)] + g[s \ {Some(s)}]

LEMMA SumOverStep == ASSUME NEW v, NEW S, IsFiniteSet(S) PROVE Climbs(v, S, SumOver(v, S))
<1>1. SumsUp(v, S, SumOver(v, S))
  BY SumsExist DEF SumOver
<1> DEFINE g == SumOver(v, S)
<1> HIDE DEF g
<1>2. g = [s \in SUBSET S |-> IF s = {} THEN 0 ELSE v[Some(s)] + g[s \ {Some(s)}]]
  BY <1>1 DEF SumsUp, g
<1>3. \A s \in SUBSET S : g[s] = IF s = {} THEN 0 ELSE v[Some(s)] + g[s \ {Some(s)}]
  BY <1>2
<1>4. QED
  BY <1>3 DEF g, Climbs

LEMMA SumOverType ==
  ASSUME NEW v, NEW S, IsFiniteSet(S), \A i \in S : v[i] \in Int
  PROVE  \A s \in SUBSET S : SumOver(v, S)[s] \in Int
<1>a. Climbs(v, S, SumOver(v, S))
  BY SumOverStep
<1> DEFINE g == SumOver(v, S)
           Bad == {n \in Nat : \E s \in SUBSET S : Cardinality(s) = n /\ g[s] \notin Int}
<1>0. /\ g[{}] = 0
      /\ \A s \in SUBSET S : s # {} => g[s] = v[Some(s)] + g[s \ {Some(s)}]
  BY <1>a DEF Climbs
<1> HIDE DEF g
<1>1. ASSUME NEW m \in Bad, \A k \in Bad : m <= k PROVE FALSE
  <2>1. PICK s \in SUBSET S : Cardinality(s) = m /\ g[s] \notin Int
    OBVIOUS
  <2>2. s # {}
    BY <1>0, <2>1
  <2>3. Some(s) \in s
    BY <2>2, SomeIn
  <2>4. s \ {Some(s)} \in SUBSET S /\ Cardinality(s \ {Some(s)}) = m - 1 /\ m - 1 \in Nat
    BY <2>1, <2>3, Smaller
  <2>5. g[s \ {Some(s)}] \in Int
    BY <1>1, <2>4
  <2>6. g[s] = v[Some(s)] + g[s \ {Some(s)}] /\ v[Some(s)] \in Int
    BY <1>0, <2>2, <2>3
  <2>7. QED
    BY <2>1, <2>5, <2>6
<1>2. Bad = {}
  <2> HIDE DEF Bad
  <2>1. Bad \subseteq Nat
    BY DEF Bad
  <2>2. QED
    BY <1>1, <2>1, LeastOf
<1>3. \A s \in SUBSET S : Cardinality(s) \in Nat
  BY Smaller
<1>4. QED
  BY <1>2, <1>3 DEF g

\* The element a sum starts with makes no difference.
LEMMA SumOverAdds ==
  ASSUME NEW v, NEW S, IsFiniteSet(S), \A i \in S : v[i] \in Int
  PROVE  \A s \in SUBSET S : \A x \in S \ s :
           SumOver(v, S)[s \cup {x}] = SumOver(v, S)[s] + v[x]
<1>a. Climbs(v, S, SumOver(v, S))
  BY SumOverStep
<1>b. \A s \in SUBSET S : SumOver(v, S)[s] \in Int
  BY SumOverType
<1> DEFINE g == SumOver(v, S)
           Adds(s) == \A x \in S \ s : g[s \cup {x}] = g[s] + v[x]
           Bad == {n \in Nat : \E s \in SUBSET S : Cardinality(s) = n /\ ~ Adds(s)}
<1>0. /\ g[{}] = 0
      /\ \A s \in SUBSET S : s # {} => g[s] = v[Some(s)] + g[s \ {Some(s)}]
      /\ \A s \in SUBSET S : g[s] \in Int
  BY <1>a, <1>b DEF Climbs
<1> HIDE DEF g
<1>1. ASSUME NEW m \in Bad, \A k \in Bad : m <= k PROVE FALSE
  <2>1. PICK s \in SUBSET S : Cardinality(s) = m /\ ~ Adds(s)
    OBVIOUS
  <2>2. PICK x \in S \ s : g[s \cup {x}] # g[s] + v[x]
    BY <2>1
  <2> DEFINE t == s \cup {x}
             c == Some(t)
  <2>3. c \in t /\ t \in SUBSET S /\ t # {}
    BY SomeIn
  <2>4. g[t] = v[c] + g[t \ {c}]
    BY <1>0, <2>3
  <2>5. c # x
    <3>1. c = x => t \ {c} = s
      OBVIOUS
    <3>2. v[x] \in Int /\ g[s] \in Int
      BY <1>0
    <3>3. g[t] # g[s] + v[x]
      BY <2>2
    <3> HIDE DEF c, t
    <3>4. ASSUME c = x PROVE FALSE
      <4>1. g[t] = v[x] + g[s]
        BY <2>4, <3>1, <3>4
      <4>2. QED
        BY <3>2, <3>3, <4>1
    <3>5. QED
      BY <3>4
  <2> DEFINE r == s \ {c}
  <2>6. c \in s /\ r \in SUBSET S /\ c \notin r /\ x \notin r
        /\ t \ {c} = r \cup {x} /\ s = r \cup {c}
    <3> HIDE DEF c
    <3>1. QED
      BY <2>3, <2>5
  <2>7. Cardinality(r) = m - 1 /\ m - 1 \in Nat
    <3>0. m \in Nat
      OBVIOUS
    <3> HIDE DEF c, Bad, Adds
    <3>1. Cardinality(s \ {c}) = Cardinality(s) - 1 /\ Cardinality(s \ {c}) \in Nat
      BY <2>6, Smaller
    <3>2. QED
      BY <2>1, <3>0, <3>1
  <2>8. Adds(r)
    <3> HIDE DEF Adds, r, c
    <3>1. QED
      BY <1>1, <2>6, <2>7
  <2>9. g[r \cup {x}] = g[r] + v[x] /\ g[r \cup {c}] = g[r] + v[c]
    BY <2>6, <2>8
  <2>10. v[x] \in Int /\ v[c] \in Int /\ g[r] \in Int
    BY <1>0, <2>6
  <2>11. g[t] = v[c] + (g[r] + v[x]) /\ g[s] = g[r] + v[c] /\ g[t] # g[s] + v[x]
    <3> HIDE DEF c, r
    <3>1. QED
      BY <2>2, <2>4, <2>6, <2>9
  <2> HIDE DEF c, r, t
  <2>12. QED
    BY <2>10, <2>11
<1>2. Bad = {}
  <2> HIDE DEF Bad
  <2>1. Bad \subseteq Nat
    BY DEF Bad
  <2>2. QED
    BY <1>1, <2>1, LeastOf
<1>3. \A s \in SUBSET S : Cardinality(s) \in Nat
  BY Smaller
<1>4. \A s \in SUBSET S : Adds(s)
  BY <1>2, <1>3
<1>5. QED
  BY <1>4 DEF g

\* A sum depends on the summands alone.
LEMMA SumOverSame ==
  ASSUME NEW v, NEW w, NEW S, NEW U, IsFiniteSet(S), IsFiniteSet(U), S \subseteq U,
         \A i \in S : v[i] = w[i]
  PROVE  \A s \in SUBSET S : SumOver(v, S)[s] = SumOver(w, U)[s]
<1> DEFINE g == SumOver(v, S)
           h == SumOver(w, U)
           Bad == {n \in Nat : \E s \in SUBSET S : Cardinality(s) = n /\ g[s] # h[s]}
<1>a. Climbs(v, S, SumOver(v, S)) /\ Climbs(w, U, SumOver(w, U))
  BY SumOverStep
<1>0. /\ g[{}] = 0 /\ h[{}] = 0
      /\ \A s \in SUBSET S : s # {} => g[s] = v[Some(s)] + g[s \ {Some(s)}]
      /\ \A s \in SUBSET U : s # {} => h[s] = w[Some(s)] + h[s \ {Some(s)}]
  BY <1>a DEF Climbs
<1> HIDE DEF g, h
<1>1. ASSUME NEW m \in Bad, \A k \in Bad : m <= k PROVE FALSE
  <2>1. PICK s \in SUBSET S : Cardinality(s) = m /\ g[s] # h[s]
    OBVIOUS
  <2>2. s # {} /\ s \in SUBSET U
    BY <1>0, <2>1
  <2>3. Some(s) \in s /\ v[Some(s)] = w[Some(s)]
    BY <2>2, SomeIn
  <2>4. s \ {Some(s)} \in SUBSET S /\ Cardinality(s \ {Some(s)}) = m - 1 /\ m - 1 \in Nat
    BY <2>1, <2>3, Smaller
  <2>5. g[s \ {Some(s)}] = h[s \ {Some(s)}]
    BY <1>1, <2>4
  <2>6. QED
    BY <1>0, <2>1, <2>2, <2>3, <2>5
<1>2. Bad = {}
  <2> HIDE DEF Bad
  <2>1. Bad \subseteq Nat
    BY DEF Bad
  <2>2. QED
    BY <1>1, <2>1, LeastOf
<1>3. \A s \in SUBSET S : Cardinality(s) \in Nat
  BY Smaller
<1>4. QED
  BY <1>2, <1>3 DEF g, h

LEMMA SumOfNone == ASSUME NEW v, DOMAIN v = {} PROVE SumFunction(v) = 0
  BY SumIs, SumOverStep, FS_EmptySet DEF Climbs

LEMMA SumType ==
  ASSUME NEW v, IsFiniteSet(DOMAIN v), \A i \in DOMAIN v : v[i] \in Int
  PROVE  SumFunction(v) \in Int
  BY SumIs, SumOverType

\* One more element adds its value to the sum.
LEMMA SumAdds ==
  ASSUME NEW S, IsFiniteSet(S), NEW x, x \notin S, NEW v, NEW w,
         DOMAIN v = S, DOMAIN w = S \cup {x}, \A i \in S : v[i] = w[i],
         \A i \in S \cup {x} : w[i] \in Int
  PROVE  SumFunction(w) = SumFunction(v) + w[x]
<1> DEFINE U == S \cup {x}
<1>1. IsFiniteSet(U) /\ S \subseteq U /\ S \in SUBSET U /\ x \in U \ S
  BY FS_AddElement
<1>2. SumOver(w, U)[S \cup {x}] = SumOver(w, U)[S] + w[x]
  BY <1>1, SumOverAdds
<1>3. SumOver(v, S)[S] = SumOver(w, U)[S]
  BY <1>1, SumOverSame
<1>4. SumFunction(v) = SumOver(v, S)[S] /\ SumFunction(w) = SumOver(w, U)[U]
  BY SumIs
<1>5. QED
  BY <1>2, <1>3, <1>4

\* w is v with one more element.
OneLonger(v, w, x) ==
  /\ IsFiniteSet(DOMAIN v) /\ x \notin DOMAIN v /\ DOMAIN w = DOMAIN v \cup {x}
  /\ \A i \in DOMAIN v : v[i] = w[i]
  /\ \A i \in DOMAIN w : w[i] \in Int

LEMMA SumGrows ==
  ASSUME NEW v, NEW w, NEW x, OneLonger(v, w, x)
  PROVE  SumFunction(w) = SumFunction(v) + w[x]
<1> DEFINE S == DOMAIN v
<1>1. /\ IsFiniteSet(S) /\ x \notin S /\ DOMAIN v = S /\ DOMAIN w = S \cup {x}
      /\ \A i \in S : v[i] = w[i]
      /\ \A i \in S \cup {x} : w[i] \in Int
  BY DEF OneLonger
<1> HIDE DEF S
<1>2. QED
  BY <1>1, SumAdds

-----------------------------------------------------------------------------
(***************************************************************************)
(* A session's columns as a function of its rows.                          *)
(***************************************************************************)

\* The columns of a session depend on its rows' calls and their warnings.
SameTotals(rs, ws, S, rt, wt) ==
  /\ \A i \in S : rs[i].kind = rt[i].kind /\ rs[i].started = rt[i].started
  /\ {w \in ws : w.request \in S} = {w \in wt : w.request \in S}

LEMMA TotalsStay ==
  ASSUME NEW prefix, NEW S, NEW rs, NEW ws, NEW rt, NEW wt, SameTotals(rs, ws, S, rt, wt)
  PROVE  SessionTotals(prefix, rs, ws, S) = SessionTotals(prefix, rt, wt, S)
<1>1. {rs[i].started : i \in S} = {rt[i].started : i \in S}
  BY DEF SameTotals
<1>2. {rs[i].kind.resolved : i \in S} = {rt[i].kind.resolved : i \in S}
  BY DEF SameTotals
<1>3. [i \in S |-> rs[i].kind.tokens] = [i \in S |-> rt[i].kind.tokens]
  BY DEF SameTotals
<1>4. [i \in S |-> Cost(rs, i)] = [i \in S |-> Cost(rt, i)]
  BY DEF SameTotals, Cost
<1>5. {i \in S : rs[i].kind.cost = NoCost} = {i \in S : rt[i].kind.cost = NoCost}
  BY DEF SameTotals
<1>6. Totals(rs, S) = Totals(rt, S)
  BY <1>3, <1>4, <1>5 DEF Totals
<1>7. {w \in ws : w.request \in S} = {w \in wt : w.request \in S}
  BY DEF SameTotals
<1>8. QED
  BY <1>1, <1>2, <1>6, <1>7 DEF SessionTotals

LEMMA ExtremesOf ==
  ASSUME NEW S, NEW m \in S, S \subseteq Int
  PROVE  /\ (\A x \in S : m <= x) => Min(S) = m
         /\ (\A x \in S : m >= x) => Max(S) = m
<1>1. ASSUME \A x \in S : m <= x PROVE Min(S) = m
  <2>1. Min(S) \in S /\ \A x \in S : Min(S) <= x
    BY <1>1 DEF Min
  <2>2. Min(S) <= m /\ m <= Min(S) /\ m \in Int /\ Min(S) \in Int
    BY <1>1, <2>1
  <2>3. QED
    BY <2>2
<1>2. ASSUME \A x \in S : m >= x PROVE Max(S) = m
  <2>1. Max(S) \in S /\ \A x \in S : Max(S) >= x
    BY <1>2 DEF Max
  <2>2. Max(S) <= m /\ m <= Max(S) /\ m \in Int /\ Max(S) \in Int
    BY <1>2, <2>1
  <2>3. QED
    BY <2>2
<1>3. QED
  BY <1>1, <1>2

\* The rows of a set and their warnings are counted one by one.
LEMMA OneMoreCounted ==
  ASSUME NEW S, IsFiniteSet(S), NEW x, x \notin S, NEW T, T \subseteq S \cup {x}
  PROVE  Cardinality(T) = Cardinality(T \cap S) + (IF x \in T THEN 1 ELSE 0)
<1>1. IsFiniteSet(T \cap S) /\ x \notin T \cap S
  BY FS_Subset
<1>2. CASE x \in T
  <2>1. T = (T \cap S) \cup {x}
    BY <1>2
  <2>2. QED
    BY <1>1, <1>2, <2>1, FS_AddElement
<1>3. CASE x \notin T
  <2>1. T \cap S = T
    BY <1>3
  <2>2. Cardinality(T \cap S) \in Nat
    BY <1>1, FS_CardinalityType
  <2>3. Cardinality(T \cap S) + 0 = Cardinality(T \cap S)
    BY <2>2
  <2>4. Cardinality(T) = Cardinality(T \cap S)
    BY <2>1
  <2>5. (IF x \in T THEN 1 ELSE 0) = 0
    BY <1>3
  <2>6. QED
    BY <2>3, <2>4, <2>5
<1>4. QED
  BY <1>2, <1>3

\* The warnings of one request.
WarnedOf(i) == {w \in warnings : w.request = i}

\* A call of the flush, and the row it became.
Became(p, i) ==
  /\ i \in DOMAIN rows /\ rows[i].kind = p.kind /\ rows[i].started = p.started
  /\ Cardinality(WarnedOf(i)) = Len(p.warns)

LEMMA RowTyped ==
  ASSUME Typed, NEW i \in DOMAIN rows
  PROVE  /\ rows[i].started \in Int /\ rows[i].kind.tokens \in Int
         /\ rows[i].kind.cost \in Int /\ Cost(rows, i) \in Int
<1>1. rows[i].kind \in Kinds /\ rows[i].started \in Int
  BY DEF Typed, Counters, TablesTyped, RowsAt
<1>2. rows[i].kind.tokens \in Int /\ rows[i].kind.cost \in Int
  BY <1>1, SessionsAssumption DEF NoCost
<1>3. QED
  BY <1>1, <1>2 DEF Cost

\* The first call of a session makes its columns those of its one row.
LEMMA TotalsOfOne ==
  ASSUME Typed, NEW p, NEW x, Became(p, x)
  PROVE  Contribution(p) = SessionTotals(Contribution(p).prefix, rows, warnings, {x})
<1>1. rows[x].started = p.started /\ rows[x].kind = p.kind /\ x \in DOMAIN rows
  BY DEF Became
<1>2. /\ p.started \in Int /\ p.kind.tokens \in Int /\ Cost(rows, x) \in Int
  BY <1>1, RowTyped
<1>3. {rows[i].started : i \in {x}} = {p.started}
  BY <1>1
<1>4. Min({p.started}) = p.started /\ Max({p.started}) = p.started
  <2> DEFINE a == p.started
  <2>1. a \in {a} /\ {a} \subseteq Int /\ \A y \in {a} : a <= y /\ a >= y
    BY <1>2
  <2> HIDE DEF a
  <2>2. Min({a}) = a /\ Max({a}) = a
    BY <2>1, ExtremesOf
  <2>3. QED
    BY <2>2 DEF a
<1>5. {rows[i].kind.resolved : i \in {x}} = {p.kind.resolved}
  BY <1>1
<1>6. {w \in warnings : w.request \in {x}} = WarnedOf(x)
  BY DEF WarnedOf
<1>7. Cardinality({x}) = 1
  BY FS_Singleton
<1>8. ASSUME NEW v, DOMAIN v = {x}, v[x] \in Int PROVE SumFunction(v) = v[x]
  <2> DEFINE none == [i \in {} |-> 0]
  <2>1. SumFunction(none) = 0
    BY SumOfNone
  <2> DEFINE E == {}
  <2>2. IsFiniteSet(E) /\ DOMAIN none = E /\ \A i \in E : none[i] = v[i]
    BY FS_EmptySet
  <2> HIDE DEF none
  <2>3. x \notin E /\ DOMAIN v = E \cup {x} /\ \A i \in E \cup {x} : v[i] \in Int
    BY <1>8
  <2> HIDE DEF E
  <2>4. SumFunction(v) = SumFunction(none) + v[x]
    BY <2>2, <2>3, SumAdds
  <2>5. QED
    BY <1>8, <2>1, <2>4
<1>9. SumFunction([i \in {x} |-> rows[i].kind.tokens]) = p.kind.tokens
  BY <1>1, <1>2, <1>8
<1>10. SumFunction([i \in {x} |-> Cost(rows, i)]) = Cost(rows, x)
  BY <1>2, <1>8
<1>11. Cardinality({i \in {x} : rows[i].kind.cost = NoCost})
         = IF p.kind.cost = NoCost THEN 1 ELSE 0
  <2>1. {i \in {x} : rows[i].kind.cost = NoCost} = IF p.kind.cost = NoCost THEN {x} ELSE {}
    BY <1>1
  <2>2. QED
    BY <1>7, <2>1, FS_EmptySet
<1>12. Totals(rows, {x}) = [requests |-> 1, tokens |-> p.kind.tokens,
                            cost     |-> IF p.kind.cost = NoCost THEN 0 ELSE p.kind.cost,
                            unpriced |-> IF p.kind.cost = NoCost THEN 1 ELSE 0]
  BY <1>1, <1>7, <1>9, <1>10, <1>11 DEF Totals, Cost
<1>13. QED
  <2>1. /\ SessionTotals(Contribution(p).prefix, rows, warnings, {x}) =
             [prefix |-> Contribution(p).prefix, first |-> p.started, last |-> p.started,
              totals |-> Totals(rows, {x}), models |-> {p.kind.resolved} \ {NoModel},
              warnings |-> Len(p.warns)]
    BY <1>3, <1>4, <1>5, <1>6 DEF SessionTotals, Became
  <2>2. QED
    BY <1>12, <2>1 DEF Contribution

\* Folding one more call in makes the columns those of one more row.
LEMMA TotalsOfMore ==
  ASSUME Typed, IsFiniteSet(warnings), NEW S, S \subseteq DOMAIN rows, S # {},
         NEW p, NEW x, x \notin S, Became(p, x), NEW prefix
  PROVE  Merge(SessionTotals(prefix, rows, warnings, S), Contribution(p))
           = SessionTotals(prefix, rows, warnings, S \cup {x})
<1> DEFINE U == S \cup {x}
           old == SessionTotals(prefix, rows, warnings, S)
<1>1. /\ rows[x].started = p.started /\ rows[x].kind = p.kind /\ x \in DOMAIN rows
      /\ Cardinality(WarnedOf(x)) = Len(p.warns) /\ U \subseteq DOMAIN rows
  BY DEF Became
<1>2. IsFiniteSet(S) /\ Cardinality(S) \in Nat
  <2>1. IsFiniteSet(1..(nextId - 1))
    BY FS_Interval DEF Typed, Counters
  <2>2. S \in SUBSET (1..(nextId - 1))
    BY DEF Typed, TablesTyped
  <2>3. QED
    BY <2>1, <2>2, FS_Subset, FS_CardinalityType
<1>3. \A i \in U : /\ rows[i].started \in 0..now /\ rows[i].kind.tokens \in Int
                    /\ Cost(rows, i) \in Int
  <2>1. \A i \in U : rows[i].started \in 0..now
    BY <1>1 DEF Typed, TablesTyped, RowsAt
  <2>2. QED
    BY <1>1, <2>1, RowTyped
<1>4. /\ old.first = Min({rows[i].started : i \in S})
      /\ old.last = Max({rows[i].started : i \in S})
      /\ old.totals = Totals(rows, S) /\ old.prefix = prefix
      /\ old.models = {rows[i].kind.resolved : i \in S} \ {NoModel}
      /\ old.warnings = Cardinality({w \in warnings : w.request \in S})
  BY DEF SessionTotals
<1> DEFINE new == Contribution(p)
<1>5. /\ new.first = p.started /\ new.last = p.started /\ new.models = {p.kind.resolved} \ {NoModel}
      /\ new.warnings = Len(p.warns)
      /\ new.totals = [requests |-> 1, tokens |-> p.kind.tokens,
                       cost     |-> IF p.kind.cost = NoCost THEN 0 ELSE p.kind.cost,
                       unpriced |-> IF p.kind.cost = NoCost THEN 1 ELSE 0]
  BY DEF Contribution
<1> HIDE DEF old, new
<1>6. Min({rows[i].started : i \in U}) = IF new.first < old.first THEN new.first ELSE old.first
  <2> DEFINE A == {rows[i].started : i \in S}
             B == {rows[i].started : i \in U}
             m == IF new.first < old.first THEN new.first ELSE old.first
  <2>1. A # {} /\ A \subseteq 0..now /\ now \in Nat /\ B = A \cup {p.started} /\ B \subseteq Int
    BY <1>1, <1>3 DEF Typed, Counters
  <2>2. p.started \in Int
    BY <1>1, <1>3
  <2> HIDE DEF A, B
  <2>3. old.first \in A /\ \A y \in A : old.first <= y
    <3>1. \E k \in A : \A y \in A : k <= y
      <4>1. A \subseteq Nat
        BY <2>1
      <4>2. QED
        BY <2>1, <4>1, LeastOf
    <3>2. QED
      BY <1>4, <3>1 DEF Min, A
  <2>4. m \in B /\ \A y \in B : m <= y
    BY <1>5, <2>1, <2>2, <2>3
  <2>5. Min(B) = m
    BY <2>1, <2>4, ExtremesOf
  <2>6. QED
    BY <2>5 DEF B
<1>7. Max({rows[i].started : i \in U}) = IF new.last > old.last THEN new.last ELSE old.last
  <2> DEFINE A == {rows[i].started : i \in S}
             B == {rows[i].started : i \in U}
             m == IF new.last > old.last THEN new.last ELSE old.last
  <2>1. A # {} /\ A \subseteq 0..now /\ now \in Nat /\ B = A \cup {p.started} /\ B \subseteq Int
    BY <1>1, <1>3 DEF Typed, Counters
  <2>2. p.started \in Int
    BY <1>1, <1>3
  <2> HIDE DEF A, B
  <2>3. old.last \in A /\ \A y \in A : old.last >= y
    <3>1. \E k \in A : \A y \in A : y <= k
      BY <2>1, LargestOf
    <3>2. \E k \in A : \A y \in A : k >= y
      BY <2>1, <3>1
    <3>3. QED
      BY <1>4, <3>2 DEF Max, A
  <2>4. m \in B /\ \A y \in B : m >= y
    BY <1>5, <2>1, <2>2, <2>3
  <2>5. Max(B) = m
    BY <2>1, <2>4, ExtremesOf
  <2>6. QED
    BY <2>5 DEF B
<1>8. {rows[i].kind.resolved : i \in U} \ {NoModel} = old.models \cup new.models
  BY <1>1, <1>4, <1>5
<1>9. Cardinality({w \in warnings : w.request \in U}) = old.warnings + new.warnings
  <2> DEFINE A == {w \in warnings : w.request \in S}
  <2>1. {w \in warnings : w.request \in U} = A \cup WarnedOf(x) /\ A \cap WarnedOf(x) = {}
    BY DEF WarnedOf
  <2>2. A \in SUBSET warnings /\ WarnedOf(x) \in SUBSET warnings
    BY DEF WarnedOf
  <2>3. IsFiniteSet(A) /\ IsFiniteSet(WarnedOf(x))
    BY <2>2, FS_Subset
  <2> HIDE DEF A
  <2>4. /\ Cardinality(A \cup WarnedOf(x))
             = Cardinality(A) + Cardinality(WarnedOf(x)) - Cardinality(A \cap WarnedOf(x))
        /\ Cardinality(A) \in Nat /\ Cardinality(WarnedOf(x)) \in Nat
    BY <2>3, FS_Union, FS_CardinalityType
  <2>5. Cardinality(A \cup WarnedOf(x)) = Cardinality(A) + Cardinality(WarnedOf(x))
    <3>1. Cardinality(A \cap WarnedOf(x)) = 0
      BY <2>1, FS_EmptySet
    <3>2. QED
      BY <2>4, <3>1
  <2>6. QED
    BY <1>1, <1>4, <1>5, <2>1, <2>5 DEF A
<1>10. Totals(rows, U) = [c \in DOMAIN old.totals |-> old.totals[c] + new.totals[c]]
  <2>1. Cardinality(U) = Cardinality(S) + 1
    BY <1>2, FS_AddElement
  <2>2. SumFunction([i \in U |-> rows[i].kind.tokens])
          = SumFunction([i \in S |-> rows[i].kind.tokens]) + p.kind.tokens
    <3> DEFINE v == [i \in S |-> rows[i].kind.tokens]
               w == [i \in U |-> rows[i].kind.tokens]
    <3>1. /\ DOMAIN v = S /\ DOMAIN w = S \cup {x} /\ w[x] = p.kind.tokens
          /\ \A i \in S : v[i] = w[i]
      BY <1>1
    <3>2. \A i \in S \cup {x} : w[i] \in Int
      BY <1>3
    <3> HIDE DEF v, w
    <3>3. QED
      <4>1. SumFunction(w) = SumFunction(v) + w[x]
        <5>1. OneLonger(v, w, x)
          BY <1>2, <3>1, <3>2 DEF OneLonger
        <5>2. QED
          BY <5>1, SumGrows
      <4>2. QED
        BY <3>1, <4>1 DEF v, w
  <2>3. SumFunction([i \in U |-> Cost(rows, i)])
          = SumFunction([i \in S |-> Cost(rows, i)]) + Cost(rows, x)
    <3> DEFINE v == [i \in S |-> Cost(rows, i)]
               w == [i \in U |-> Cost(rows, i)]
    <3>1. /\ DOMAIN v = S /\ DOMAIN w = S \cup {x} /\ w[x] = Cost(rows, x)
          /\ \A i \in S : v[i] = w[i]
      OBVIOUS
    <3>2. \A i \in S \cup {x} : w[i] \in Int
      BY <1>3
    <3> HIDE DEF v, w
    <3>3. QED
      <4>1. SumFunction(w) = SumFunction(v) + w[x]
        <5>1. OneLonger(v, w, x)
          BY <1>2, <3>1, <3>2 DEF OneLonger
        <5>2. QED
          BY <5>1, SumGrows
      <4>2. QED
        BY <3>1, <4>1 DEF v, w
  <2>4. Cardinality({i \in U : rows[i].kind.cost = NoCost})
          = Cardinality({i \in S : rows[i].kind.cost = NoCost})
              + (IF p.kind.cost = NoCost THEN 1 ELSE 0)
    <3> DEFINE T == {i \in U : rows[i].kind.cost = NoCost}
    <3>1. T \cap S = {i \in S : rows[i].kind.cost = NoCost} /\ T \subseteq S \cup {x}
          /\ (x \in T <=> p.kind.cost = NoCost)
      BY <1>1
    <3> HIDE DEF T
    <3>2. Cardinality(T) = Cardinality(T \cap S) + (IF x \in T THEN 1 ELSE 0)
      BY <1>2, <3>1, OneMoreCounted
    <3>3. QED
      BY <3>1, <3>2 DEF T
  <2>5. Cost(rows, x) = IF p.kind.cost = NoCost THEN 0 ELSE p.kind.cost
    BY <1>1 DEF Cost
  <2> DEFINE a == Cardinality(S)
             b == SumFunction([i \in S |-> rows[i].kind.tokens])
             c == SumFunction([i \in S |-> Cost(rows, i)])
             d == Cardinality({i \in S : rows[i].kind.cost = NoCost})
             e == IF p.kind.cost = NoCost THEN 0 ELSE p.kind.cost
             f == IF p.kind.cost = NoCost THEN 1 ELSE 0
  <2>6. Totals(rows, S) = [requests |-> a, tokens |-> b, cost |-> c, unpriced |-> d]
    BY DEF Totals
  <2>7. new.totals = [requests |-> 1, tokens |-> p.kind.tokens, cost |-> e, unpriced |-> f]
    BY <1>5
  <2>8. Totals(rows, U) = [requests |-> a + 1, tokens |-> b + p.kind.tokens, cost |-> c + e,
                           unpriced |-> d + f]
    BY <2>1, <2>2, <2>3, <2>4, <2>5 DEF Totals
  <2> HIDE DEF a, b, c, d, e, f
  <2>9. QED
    BY <1>4, <2>6, <2>7, <2>8
<1>11. SessionTotals(prefix, rows, warnings, U)
         = [prefix |-> prefix, first |-> Min({rows[i].started : i \in U}),
            last |-> Max({rows[i].started : i \in U}), totals |-> Totals(rows, U),
            models |-> {rows[i].kind.resolved : i \in U} \ {NoModel},
            warnings |-> Cardinality({w \in warnings : w.request \in U})]
  BY DEF SessionTotals
<1>12. QED
  <2> HIDE DEF U
  <2>1. Merge(old, new) = SessionTotals(prefix, rows, warnings, U)
    BY <1>4, <1>6, <1>7, <1>8, <1>9, <1>10, <1>11 DEF Merge
  <2>2. QED
    BY <2>1 DEF old, new, U

-----------------------------------------------------------------------------
(***************************************************************************)
(* The ledger: running totals against rows.                                *)
(***************************************************************************)

\* The rows a session's totals stand for, and that they do.
Settled(s) == SessionRows(rows, s) \ Unfolded
Matching(s) ==
  IF Settled(s) = {} THEN s \notin DOMAIN sessions
  ELSE /\ s \in DOMAIN sessions
       /\ sessions[s] = SessionTotals(sessions[s].prefix, rows, warnings, Settled(s))
Matches == \A s \in SessionIds \ skewed : Matching(s)

\* Every inserted call has a row of its own, with the call's data ...
OwnRows == \A c, d \in Unsettled : pend[c].id = pend[d].id => c = d
RowKinds ==
  \A c \in DOMAIN pend : pend[c].id \in DOMAIN rows => rows[pend[c].id].kind = pend[c].kind

\* ... until a purge takes the row, which sets the session off.
GoneSkewed ==
  \A c \in Unsettled : pend[c].id \notin DOMAIN rows => pend[c].session \in skewed \cup {NoSession}

\* A call is folded with its row inserted and its warnings written, those
\* after it have none.
FoldHasRow == phase = "fold" => pend[cursor].id # NoId
Unwarned ==
  \A c \in Unsettled : WarnedOf(pend[c].id) = {} \/ (phase = "fold" /\ c = cursor)
WarnedRight ==
  phase = "fold" /\ ~ pend[cursor].lost /\ pend[cursor].id \in DOMAIN rows =>
    Cardinality(WarnedOf(pend[cursor].id)) = Len(pend[cursor].warns)

CallsInOrder == OwnRows /\ RowKinds /\ GoneSkewed /\ FoldHasRow /\ Unwarned /\ WarnedRight
Ledger == CallsInOrder /\ Matches /\ IsFiniteSet(warnings)

\* The calls whose rows are inserted and not folded are calls that wait.
UnsettledWaits == Unsettled = {c \in Waiting : pend[c].id # NoId}

LEMMA UnsettledIs == Typed /\ NotInserted => UnsettledWaits
<1> SUFFICES ASSUME Typed, NotInserted PROVE UnsettledWaits
  OBVIOUS
<1>1. DOMAIN pend = 1..Len(pend) /\ Len(pend) \in Nat
  BY PendElement
<1>2. CASE phase = "prepare"
  BY <1>2 DEF NotInserted, Unsettled, Waiting, Working, UnsettledWaits
<1>3. CASE phase = "insert"
  BY <1>3 DEF Unsettled, Waiting, Working, UnsettledWaits
<1>4. CASE phase \in {"warn", "fold"}
  BY <1>4 DEF Unsettled, Waiting, Working, UnsettledWaits
<1>5. QED
  BY <1>2, <1>3, <1>4 DEF Typed, FlushTyped

LEMMA UnsettledNext == Typed' /\ NotInserted' => UnsettledWaits'
<1>1. QED
  BY UnsettledIs, PTL

\* The rows of the calls that wait show those calls.
LEMMA UnsettledTyped ==
  ASSUME Typed, History
  PROVE  \A c \in Unsettled :
           /\ c \in DOMAIN pend /\ pend[c].id \in 1..(nextId - 1)
           /\ pend[c].id \in DOMAIN rows => rows[pend[c].id].session = pend[c].session
<1>1. \A c \in DOMAIN pend : pend[c].id \in 0..(nextId - 1)
  BY PendElement DEF PreparedCalls
<1>2. nextId \in Nat
  BY DEF Typed, Counters
<1>3. \A c \in Unsettled : c \in DOMAIN pend /\ pend[c].id # 0
  BY DEF Unsettled, NoId
<1>4. QED
  BY <1>1, <1>2, <1>3 DEF History, RowsMatch, SameCall

\* Inserting rows and their warnings settles nothing.
LEMMA MiddleSettled ==
  ASSUME Typed, History, Middle, Typed', NotInserted', NEW s
  PROVE  /\ Unfolded \subseteq Unfolded'
         /\ Settled(s)' = Settled(s)
<1>1. /\ Unsettled = {c \in Waiting : pend[c].id # NoId}
      /\ Unsettled' = {c \in Waiting : pend'[c].id # NoId}
  BY UnsettledIs, UnsettledNext DEF History, Middle, UnsettledWaits
<1>2. /\ nextId \in Nat \ {0} /\ DOMAIN rows \subseteq 1..(nextId - 1)
      /\ Waiting \subseteq DOMAIN pend
  BY DEF Typed, Counters, TablesTyped, Waiting
<1>3. ASSUME NEW c \in Unsettled PROVE c \in Unsettled' /\ pend'[c].id = pend[c].id
  BY <1>1, <1>2 DEF Middle, Numbered
<1>4. Unfolded \subseteq Unfolded'
  BY <1>3 DEF Unfolded
<1>5. ASSUME NEW i \in Settled(s)' PROVE i \in Settled(s)
  <2>1. i \in DOMAIN rows' /\ i \notin Unfolded'
    BY DEF Settled, SessionRows
  <2>2. i \in DOMAIN rows
    <3>1. ASSUME i \notin DOMAIN rows PROVE FALSE
      <4>1. PICK c \in Waiting : pend'[c].id = i
        BY <2>1, <3>1 DEF Middle
      <4>2. i # NoId
        BY <1>2, <2>1, <3>1 DEF Middle, NoId
      <4>3. QED
        BY <1>1, <2>1, <4>1, <4>2 DEF Unfolded
    <3>2. QED
      BY <3>1
  <2>3. QED
    BY <1>4, <2>1, <2>2 DEF Settled, SessionRows, Middle
<1>6. ASSUME NEW i \in Settled(s) PROVE i \in Settled(s)'
  <2>1. i \in DOMAIN rows /\ i \notin Unfolded /\ i \in DOMAIN rows' /\ rows'[i] = rows[i]
    BY DEF Settled, SessionRows, Middle
  <2>2. ASSUME i \in Unfolded' PROVE FALSE
    <3>1. PICK c \in Unsettled' : pend'[c].id = i
      BY <2>2 DEF Unfolded
    <3>2. c \in Waiting /\ c \in DOMAIN pend /\ i # NoId
      BY <1>1, <1>2, <3>1
    <3>3. pend[c].id = i \/ i >= nextId
      BY <3>1, <3>2 DEF Middle, Numbered
    <3>4. pend[c].id = i
      BY <1>2, <2>1, <3>3
    <3>5. QED
      BY <1>1, <2>1, <3>2, <3>4 DEF Unfolded
  <2>3. QED
    BY <2>1, <2>2 DEF Settled, SessionRows
<1>7. QED
  BY <1>4, <1>5, <1>6

\* Nor does it change a total.
LEMMA MiddleMatches ==
  ASSUME Typed, History, Middle, Typed', NotInserted', Matches, skewed' = skewed,
         warnings \subseteq warnings',
         \A w \in warnings' \ warnings : w.request \in Unfolded
  PROVE  Matches'
<1>1. ASSUME NEW s \in SessionIds, s \notin skewed PROVE Matching(s)'
  <2>1. Settled(s)' = Settled(s)
    BY MiddleSettled
  <2>2. \A prefix : SessionTotals(prefix, rows, warnings, Settled(s))
                      = SessionTotals(prefix, rows', warnings', Settled(s))
    <3>1. SameTotals(rows, warnings, Settled(s), rows', warnings')
      BY DEF SameTotals, Settled, SessionRows, Middle
    <3>2. QED
      BY <3>1, TotalsStay
  <2>3. Matching(s)
    BY <1>1 DEF Matches
  <2>4. sessions' = sessions
    BY DEF Middle
  <2>5. QED
    BY <2>1, <2>2, <2>3, <2>4 DEF Matching
<1>2. SessionIds' = SessionIds
  BY DEF SessionIds
<1>3. QED
  BY <1>1, <1>2 DEF Matches

-----------------------------------------------------------------------------
\* The steps that leave the tables alone.
LEMMA QuietLedger ==
  ASSUME Typed, History, Typed', NotInserted', Ledger,
         UNCHANGED vars \/ Tick \/ FallBack \/ RefuseOne
  PROVE  Ledger'
<1>1. Middle
  BY MiddleSteps DEF History
<1>2. /\ UNCHANGED <<rows, warnings, sessions, skewed, pend>>
      /\ phase' = "fold" => phase = "fold" /\ cursor' = cursor
  BY DEF vars, tables, flush, Tick, FallBack, RefuseOne, NextRow
<1>3. Unsettled' = Unsettled
  BY <1>1, <1>2, UnsettledIs, UnsettledNext DEF History, Middle, UnsettledWaits
<1>4. phase = "fold" => phase' = "fold" /\ cursor' = cursor
  BY DEF vars, flush, Tick, FallBack, RefuseOne
<1>5. CASE Matches'
  BY <1>2, <1>3, <1>4, <1>5 DEF Ledger, CallsInOrder, OwnRows, RowKinds, GoneSkewed, FoldHasRow,
     Unwarned, WarnedRight, WarnedOf
<1>6. QED
  BY <1>1, <1>2, <1>5, MiddleMatches DEF Ledger

\* A call that is inserted gets an id that no other call and no warning has.
LEMMA InsertIds ==
  ASSUME Typed, History, InsertRequests \/ InsertOne
  PROVE  \A c, d \in DOMAIN pend :
           pend'[c].id = pend'[d].id => pend'[c].id = pend[c].id \/ c = d
<1>1. /\ DOMAIN pend = 1..Len(pend) /\ Len(pend) \in Nat /\ nextId \in Nat
      /\ \A c \in DOMAIN pend : pend[c] \in PreparedCalls(now, nextId)
  BY PendElement DEF Typed, Counters
<1>2. CASE InsertRequests
  <2>1. ASSUME NEW c \in DOMAIN pend PROVE pend'[c].id = nextId + c - 1
    BY <1>1, <1>2 DEF InsertRequests, PreparedCalls
  <2>2. QED
    BY <1>1, <2>1
<1>3. CASE InsertOne
  <2>1. \A c \in DOMAIN pend \ {cursor} : pend'[c] = pend[c]
    BY <1>3 DEF InsertOne
  <2>2. \A c \in DOMAIN pend \ {cursor} : pend'[c].id # nextId
    BY <1>1, <2>1 DEF PreparedCalls
  <2>3. cursor \in DOMAIN pend /\ pend'[cursor].id = nextId
    BY <1>3, PendElement DEF InsertOne, PreparedCalls
  <2>4. QED
    BY <2>1, <2>2, <2>3
<1>4. QED
  BY <1>2, <1>3

LEMMA InsertLedger ==
  ASSUME Typed, History, Typed', NotInserted', ReferencesIntact, Ledger,
         InsertRequests \/ InsertOne
  PROVE  Ledger'
<1>1. Middle
  BY MiddleSteps DEF History
<1>2. /\ UNCHANGED <<warnings, sessions, skewed>> /\ phase' # "fold" /\ phase # "fold"
  BY DEF InsertRequests, InsertOne, NextRow
<1>3. /\ Unsettled = {c \in Waiting : pend[c].id # NoId}
      /\ Unsettled' = {c \in Waiting : pend'[c].id # NoId}
      /\ Waiting \subseteq DOMAIN pend
  BY <1>1, UnsettledIs, UnsettledNext DEF History, Middle, UnsettledWaits, Waiting
<1>4. /\ nextId \in Nat \ {0} /\ DOMAIN rows \subseteq 1..(nextId - 1)
      /\ \A c \in DOMAIN pend : pend[c].id \in 0..(nextId - 1)
  BY PendElement DEF Typed, Counters, TablesTyped, PreparedCalls
<1>5. \A c \in DOMAIN pend : \/ pend'[c].id = pend[c].id
                             \/ pend'[c].id >= nextId /\ Numbered(c)
  BY <1>1 DEF Middle, Numbered
<1>6. \A c \in DOMAIN pend : /\ pend'[c].kind = pend[c].kind
                             /\ pend'[c].session = pend[c].session
  BY <1>1 DEF Middle, Prepared
<1>7. OwnRows'
  <2>1. ASSUME NEW c \in Unsettled', NEW d \in Unsettled', pend'[c].id = pend'[d].id
        PROVE  c = d
    <3>1. c = d \/ (pend'[c].id = pend[c].id /\ pend'[d].id = pend[d].id)
      BY <1>3, <2>1, InsertIds
    <3>2. QED
      BY <1>3, <2>1, <3>1 DEF Ledger, CallsInOrder, OwnRows
  <2>2. QED
    BY <2>1 DEF OwnRows
<1>8. RowKinds'
  <2>1. ASSUME NEW c \in DOMAIN pend, pend'[c].id \in DOMAIN rows'
        PROVE  rows'[pend'[c].id].kind = pend'[c].kind
    <3>1. CASE pend'[c].id = pend[c].id
      <4>1. pend[c].id \in DOMAIN rows /\ rows'[pend[c].id] = rows[pend[c].id]
        BY <1>1, <1>4, <2>1, <3>1, MiddleRows DEF History
      <4>2. QED
        BY <1>6, <3>1, <4>1 DEF Ledger, CallsInOrder, RowKinds
    <3>2. CASE Numbered(c)
      BY <1>6, <3>2 DEF Numbered
    <3>3. QED
      BY <1>5, <3>1, <3>2
  <2>2. DOMAIN pend' = DOMAIN pend
    BY <1>1 DEF Middle
  <2>3. QED
    BY <2>1, <2>2 DEF RowKinds
<1>9. GoneSkewed'
  <2>1. ASSUME NEW c \in Unsettled', pend'[c].id \notin DOMAIN rows'
        PROVE  pend'[c].session \in skewed \cup {NoSession}
    <3>1. c \in Unsettled /\ pend'[c].id = pend[c].id
      BY <1>3, <1>5, <2>1 DEF Numbered
    <3>2. pend[c].id \notin DOMAIN rows
      BY <1>1, <2>1, <3>1 DEF Middle
    <3>3. QED
      BY <1>3, <1>6, <3>1, <3>2 DEF Ledger, CallsInOrder, GoneSkewed
  <2>2. QED
    BY <1>2, <2>1 DEF GoneSkewed
<1>10. Unwarned'
  <2>1. ASSUME NEW c \in Unsettled' PROVE WarnedOf(pend'[c].id) = {}
    <3>1. CASE pend'[c].id = pend[c].id
      <4>1. c \in Unsettled
        BY <1>3, <3>1
      <4>2. QED
        BY <1>2, <3>1, <4>1 DEF Ledger, CallsInOrder, Unwarned
    <3>2. CASE pend'[c].id >= nextId
      <4>1. \A w \in warnings : w.request \in 1..(nextId - 1)
        BY <1>4 DEF ReferencesIntact
      <4>2. QED
        BY <1>4, <3>2, <4>1 DEF WarnedOf
    <3>3. QED
      BY <1>3, <1>5, <3>1, <3>2
  <2>2. QED
    BY <1>2, <2>1 DEF Unwarned, WarnedOf
<1>11. FoldHasRow' /\ WarnedRight'
  BY <1>2 DEF FoldHasRow, WarnedRight
<1>12. Matches' /\ IsFiniteSet(warnings)'
  BY <1>1, <1>2, MiddleMatches DEF Ledger
<1>13. QED
  BY <1>7, <1>8, <1>9, <1>10, <1>11, <1>12 DEF Ledger, CallsInOrder

\* The warnings of a call are as many as their sequence is long.
AllDifferent(f, n) ==
  n \in Nat /\ DOMAIN f = 1..n /\ \A i, j \in 1..n : f[i] = f[j] => i = j

LEMMA CountedOnce ==
  ASSUME NEW f, NEW n, AllDifferent(f, n)
  PROVE  IsFiniteSet({f[i] : i \in 1..n}) /\ Cardinality({f[i] : i \in 1..n}) = n
<1> DEFINE T == {f[i] : i \in 1..n}
           g == [i \in 1..n |-> f[i]]
<1>1. n \in Nat /\ \A i, j \in 1..n : f[i] = f[j] => i = j
  BY DEF AllDifferent
<1>2. g \in Bijection(1..n, T)
  BY <1>1 DEF Bijection, Injection, Surjection, IsInjective
<1>3. ExistsBijection(1..n, T)
  BY <1>2 DEF ExistsBijection
<1>4. IsFiniteSet(1..n) /\ Cardinality(1..n) = n
  BY <1>1, FS_Interval
<1> HIDE DEF T
<1>5. IsFiniteSet(T) /\ Cardinality(T) = n
  BY <1>3, <1>4, FS_Bijection
<1>6. QED
  BY <1>5 DEF T

\* What the writing of the warnings does.
LEMMA WarningsWritten ==
  ASSUME Typed, IsFiniteSet(warnings), InsertWarnings
  PROVE  LET p == pend[cursor] IN
         \E new : /\ warnings' = warnings \cup new /\ IsFiniteSet(new)
                  /\ \A w \in new : w.request = p.id
                  /\ ~ pend'[cursor].lost => Cardinality(new) = Len(pend'[cursor].warns)
<1> DEFINE p == pend[cursor]
<1>1. PICK panic \in BOOLEAN, lost \in BOOLEAN :
        /\ warnings' = IF lost THEN warnings ELSE warnings \cup
             {[id |-> nextWarn + i - 1, request |-> p.id, kind |-> WarningsOf(p.kind, panic)[i],
               at |-> now] : i \in DOMAIN WarningsOf(p.kind, panic)}
        /\ pend' = [pend EXCEPT ![cursor].warns = WarningsOf(p.kind, panic), ![cursor].lost = lost]
  BY DEF InsertWarnings
<1> DEFINE ws == WarningsOf(p.kind, panic)
<1>2. cursor \in DOMAIN pend /\ p \in PreparedCalls(now, nextId) /\ nextWarn \in Nat
  BY PendElement DEF InsertWarnings, Typed, Counters
<1>3. Len(ws) \in Nat /\ DOMAIN ws = 1..Len(ws)
  BY <1>2, WarningsOfTyped, LenProperties DEF PreparedCalls
<1> HIDE DEF ws
<1>4. pend'[cursor].warns = ws /\ pend'[cursor].lost = lost
  <2>1. pend' = [pend EXCEPT ![cursor] = [p EXCEPT !.warns = ws, !.lost = lost]]
    BY <1>1, <1>2 DEF ws
  <2>2. pend'[cursor] = [p EXCEPT !.warns = ws, !.lost = lost]
    BY <1>2, <2>1
  <2>3. QED
    BY <1>2, <2>2 DEF PreparedCalls
<1>5. CASE lost
  <2>1. warnings' = warnings \cup {} /\ IsFiniteSet({})
    BY <1>1, <1>5, FS_EmptySet
  <2>2. QED
    BY <1>4, <1>5, <2>1
<1>6. CASE ~ lost
  <2> DEFINE f == [i \in 1..Len(ws) |->
                     [id |-> nextWarn + i - 1, request |-> p.id, kind |-> ws[i], at |-> now]]
             new == {f[i] : i \in 1..Len(ws)}
  <2>1. warnings' = warnings \cup new
    BY <1>1, <1>3, <1>6 DEF ws
  <2>2. \A w \in new : w.request = p.id
    OBVIOUS
  <2>3. DOMAIN f = 1..Len(ws) /\ \A i, j \in 1..Len(ws) : f[i] = f[j] => i = j
    <3>1. \A i \in 1..Len(ws) : f[i].id = nextWarn + i - 1
      OBVIOUS
    <3> HIDE DEF f
    <3>2. \A i, j \in 1..Len(ws) : f[i] = f[j] => i = j
      BY <1>2, <1>3, <3>1
    <3>3. QED
      BY <3>2 DEF f
  <2> HIDE DEF f
  <2>4. IsFiniteSet(new) /\ Cardinality(new) = Len(ws)
    <3>1. AllDifferent(f, Len(ws))
      BY <1>3, <2>3 DEF AllDifferent
    <3>2. QED
      BY <3>1, CountedOnce
  <2>5. QED
    BY <1>4, <2>1, <2>2, <2>4
<1>7. QED
  BY <1>5, <1>6

LEMMA WarningsLedger ==
  ASSUME Typed, History, Typed', NotInserted', Ledger, InsertWarnings
  PROVE  Ledger'
<1> DEFINE p == pend[cursor]
<1>1. Middle
  BY MiddleSteps DEF History
<1>2. /\ UNCHANGED <<rows, sessions, skewed, cursor>>
      /\ phase = "warn" /\ phase' = "fold" /\ p.id # NoId
  BY DEF InsertWarnings
<1>3. PICK new : /\ warnings' = warnings \cup new /\ IsFiniteSet(new)
                 /\ \A w \in new : w.request = p.id
                 /\ ~ pend'[cursor].lost => Cardinality(new) = Len(pend'[cursor].warns)
  BY WarningsWritten DEF Ledger
<1>4. /\ cursor \in DOMAIN pend /\ DOMAIN pend' = DOMAIN pend /\ cursor \in Nat
      /\ \A c \in DOMAIN pend : /\ pend'[c].id = pend[c].id
                                /\ pend'[c].kind = pend[c].kind
                                /\ pend'[c].session = pend[c].session
  <2>1. cursor \in DOMAIN pend /\ cursor \in Nat
    BY <1>2, PendElement
  <2>2. \A c \in DOMAIN pend : pend'[c].kind = pend[c].kind /\ pend'[c].session = pend[c].session
    BY <1>1 DEF Middle, Prepared
  <2>3. \A c \in DOMAIN pend : pend'[c].id = pend[c].id
    <3>1. \A c \in DOMAIN pend : pend'[c].id = pend[c].id \/ pend'[c].id >= nextId
      BY <1>1 DEF Middle, Numbered
    <3>2. PICK ws, lost : pend' = [pend EXCEPT ![cursor].warns = ws, ![cursor].lost = lost]
      BY DEF InsertWarnings
    <3>3. p \in PreparedCalls(now, nextId)
      BY <1>2, PendElement
    <3>4. pend' = [pend EXCEPT ![cursor] = [p EXCEPT !.warns = ws, !.lost = lost]]
      BY <2>1, <3>2
    <3>5. QED
      BY <2>1, <3>3, <3>4 DEF PreparedCalls
  <2>4. QED
    BY <1>1, <2>1, <2>2, <2>3 DEF Middle
<1>5. Unsettled' = Unsettled /\ cursor \in Unsettled /\ Unsettled \subseteq DOMAIN pend
  BY <1>2, <1>4 DEF Unsettled
<1>6. OwnRows' /\ RowKinds' /\ GoneSkewed' /\ FoldHasRow'
  BY <1>2, <1>4, <1>5 DEF Ledger, CallsInOrder, OwnRows, RowKinds, GoneSkewed, FoldHasRow
<1>7. WarnedOf(p.id) = {}
  BY <1>2, <1>5 DEF Ledger, CallsInOrder, Unwarned
<1>8. Unwarned'
  <2>1. ASSUME NEW c \in Unsettled, c # cursor PROVE WarnedOf(pend[c].id)' = {}
    <3>1. pend[c].id # p.id /\ WarnedOf(pend[c].id) = {}
      BY <1>2, <1>5, <2>1 DEF Ledger, CallsInOrder, OwnRows, Unwarned
    <3>2. QED
      BY <1>3, <1>4, <1>5, <3>1 DEF WarnedOf
  <2>2. QED
    BY <1>2, <1>4, <1>5, <2>1 DEF Unwarned, WarnedOf
<1>9. WarnedRight'
  <2>1. {w \in warnings' : w.request = p.id} = new
    BY <1>3, <1>7 DEF WarnedOf
  <2>2. QED
    BY <1>2, <1>3, <1>4, <2>1 DEF WarnedRight, WarnedOf
<1>10. IsFiniteSet(warnings')
  BY <1>3, FS_Union DEF Ledger
<1>11. Matches'
  <2>1. p.id \in Unfolded
    BY <1>5 DEF Unfolded
  <2>2. QED
    BY <1>1, <1>2, <1>3, <2>1, MiddleMatches DEF Ledger
<1>12. QED
  BY <1>6, <1>8, <1>9, <1>10, <1>11 DEF Ledger, CallsInOrder

\* A call that is finished is settled.
LEMMA FinishUnsettled ==
  ASSUME Typed, History, Typed', NotInserted', NEW e, Finishes(e)
  PROVE  /\ Unsettled' = Unsettled \ {cursor}
         /\ \A c \in Unsettled' : pend' = pend
         /\ DOMAIN pend' # {} => pend' = pend
         /\ phase' # "fold"
<1>1. Unsettled = {c \in Waiting : pend[c].id # NoId}
  BY UnsettledIs DEF History, UnsettledWaits
<1>2. Unsettled' = {c \in Waiting' : pend'[c].id # NoId}
  BY UnsettledNext DEF UnsettledWaits
<1>3. /\ \A c \in Waiting : c = cursor \/ (c \in Waiting' /\ pend' = pend)
      /\ \A c \in Waiting' : c \in Waiting /\ c # cursor /\ pend' = pend
  BY FinishWaiting
<1>4. Unsettled' = Unsettled \ {cursor} /\ \A c \in Unsettled' : pend' = pend
  BY <1>1, <1>2, <1>3
<1>5. phase' # "fold" /\ (DOMAIN pend' # {} => pend' = pend)
  BY DEF Finishes
<1>6. QED
  BY <1>4, <1>5

LEMMA FinishCalls ==
  ASSUME Typed, History, Typed', NotInserted', CallsInOrder, NEW e, Finishes(e),
         warnings' = warnings, skewed \subseteq skewed'
  PROVE  CallsInOrder'
<1>1. /\ Unsettled' \subseteq Unsettled /\ cursor \notin Unsettled'
      /\ \A c \in Unsettled' : pend' = pend
      /\ DOMAIN pend' # {} => pend' = pend
      /\ phase' # "fold" /\ rows' = rows
  BY FinishUnsettled DEF Finishes
<1>2. OwnRows' /\ GoneSkewed'
  BY <1>1 DEF CallsInOrder, OwnRows, GoneSkewed
<1>3. RowKinds'
  BY <1>1 DEF CallsInOrder, RowKinds
<1>4. Unwarned'
  BY <1>1 DEF CallsInOrder, Unwarned, WarnedOf
<1>5. FoldHasRow' /\ WarnedRight'
  BY <1>1 DEF FoldHasRow, WarnedRight
<1>6. QED
  BY <1>2, <1>3, <1>4, <1>5 DEF CallsInOrder

\* It settles its row and no other, in its own session.
LEMMA FinishSettled ==
  ASSUME Typed, History, Typed', NotInserted', CallsInOrder, NEW e, Finishes(e), NEW s
  PROVE  LET p == pend[cursor] IN
         Settled(s)' = IF cursor \in Unsettled /\ p.id \in DOMAIN rows /\ p.session = s
                       THEN Settled(s) \cup {p.id}
                       ELSE Settled(s)
<1> DEFINE p == pend[cursor]
<1>1. /\ Unsettled' = Unsettled \ {cursor} /\ \A c \in Unsettled' : pend' = pend
      /\ rows' = rows
  BY FinishUnsettled DEF Finishes
<1>2. Unfolded' = {pend[c].id : c \in Unsettled \ {cursor}}
  BY <1>1 DEF Unfolded
<1>3. CASE cursor \notin Unsettled
  <2>1. Unfolded' = Unfolded
    BY <1>2, <1>3 DEF Unfolded
  <2>2. QED
    BY <1>1, <1>3, <2>1 DEF Settled
<1>4. CASE cursor \in Unsettled
  <2>1. Unfolded' = Unfolded \ {p.id} /\ p.id \in Unfolded
    BY <1>2, <1>4 DEF Unfolded, CallsInOrder, OwnRows
  <2>2. p.id \in DOMAIN rows => rows[p.id].session = p.session
    BY <1>4, UnsettledTyped
  <2>3. p.id \in SessionRows(rows, s) <=> p.id \in DOMAIN rows /\ p.session = s
    BY <2>2 DEF SessionRows
  <2>4. CASE p.id \in SessionRows(rows, s)
    <3>1. Settled(s)' = Settled(s) \cup {p.id}
      BY <1>1, <2>1, <2>4 DEF Settled
    <3>2. QED
      BY <1>4, <2>3, <2>4, <3>1
  <2>5. CASE p.id \notin SessionRows(rows, s)
    <3>1. Settled(s)' = Settled(s)
      BY <1>1, <2>1, <2>5 DEF Settled
    <3>2. QED
      BY <2>3, <2>5, <3>1
  <2>6. QED
    BY <2>4, <2>5
<1>5. QED
  BY <1>3, <1>4

\* The session that a fold writes to.
LEMMA FoldMatches ==
  ASSUME Typed, History, Ledger, RecordCall,
         pend[cursor].session \in SessionIds \ skewed, ~ pend[cursor].lost
  PROVE  LET p == pend[cursor]
             s == p.session
         IN  /\ cursor \in Unsettled /\ p.id \in DOMAIN rows
             /\ s \in DOMAIN sessions'
             /\ sessions'[s] = SessionTotals(sessions'[s].prefix, rows, warnings,
                                             Settled(s) \cup {p.id})
<1> DEFINE p == pend[cursor]
           s == p.session
<1>1. s # NoSession
  BY IdShapes
<1>2. phase = "fold" /\ sessions' = UpsertSession(s, Contribution(p))
  BY <1>1 DEF RecordCall
<1>3. cursor \in Unsettled
  BY <1>2, PendElement DEF Unsettled, Ledger, CallsInOrder, FoldHasRow
<1>4. p.id \in DOMAIN rows
  BY <1>1, <1>3 DEF Ledger, CallsInOrder, GoneSkewed
<1>5. Became(p, p.id)
  <2>1. cursor \in DOMAIN pend
    BY <1>2, PendElement
  <2>2. rows[p.id].kind = p.kind /\ rows[p.id].started = p.started
    BY <1>4, <2>1 DEF Ledger, CallsInOrder, RowKinds, History, RowsMatch, SameCall
  <2>3. Cardinality(WarnedOf(p.id)) = Len(p.warns)
    BY <1>2, <1>4 DEF Ledger, CallsInOrder, WarnedRight
  <2>4. QED
    BY <1>4, <2>2, <2>3 DEF Became
<1>6. p.id \in Unfolded /\ p.id \notin Settled(s) /\ Settled(s) \subseteq DOMAIN rows
  BY <1>3 DEF Unfolded, Settled, SessionRows
<1>7. Matching(s)
  BY DEF Ledger, Matches
<1>8. s \in DOMAIN sessions'
  BY <1>2 DEF UpsertSession
<1>9. CASE Settled(s) = {}
  <2>1. s \notin DOMAIN sessions
    BY <1>7, <1>9 DEF Matching
  <2>2. sessions'[s] = Contribution(p)
    BY <1>2, <2>1 DEF UpsertSession
  <2>3. Settled(s) \cup {p.id} = {p.id}
    BY <1>9
  <2>4. QED
    BY <1>3, <1>4, <1>5, <1>8, <2>2, <2>3, TotalsOfOne
<1>10. CASE Settled(s) # {}
  <2> DEFINE prefix == sessions[s].prefix
  <2>1. s \in DOMAIN sessions
        /\ sessions[s] = SessionTotals(prefix, rows, warnings, Settled(s))
    BY <1>7, <1>10 DEF Matching
  <2>2. sessions'[s] = Merge(sessions[s], Contribution(p))
    BY <1>2, <2>1 DEF UpsertSession
  <2>3. Merge(SessionTotals(prefix, rows, warnings, Settled(s)), Contribution(p))
          = SessionTotals(prefix, rows, warnings, Settled(s) \cup {p.id})
    BY <1>5, <1>6, <1>10, TotalsOfMore DEF Ledger
  <2> DEFINE total == SessionTotals(prefix, rows, warnings, Settled(s) \cup {p.id})
  <2>4. total.prefix = prefix
    BY DEF SessionTotals
  <2>5. sessions'[s] = total /\ sessions'[s].prefix = prefix
    <3> HIDE DEF total
    <3>1. sessions'[s] = total
      BY <2>1, <2>2, <2>3 DEF total
    <3>2. QED
      BY <2>4, <3>1
  <2>6. QED
    BY <1>3, <1>4, <1>8, <2>5
<1>11. QED
  BY <1>9, <1>10

LEMMA FinishMatches ==
  ASSUME Typed, History, Typed', NotInserted', Ledger, NEW e, Finishes(e),
         SkipCall \/ RecordCall \/ RecordCallFails
  PROVE  Matches' /\ skewed \subseteq skewed'
<1> DEFINE p == pend[cursor]
<1>1. warnings' = warnings /\ rows' = rows
  BY FinishingSteps
<1>2. skewed \subseteq skewed'
  BY DEF SkipCall, RecordCall, RecordCallFails
<1>3. ASSUME NEW s \in SessionIds, s \notin skewed' PROVE Matching(s)'
  <2>1. Matching(s) /\ s \notin skewed
    BY <1>2, <1>3 DEF Ledger, Matches
  <2>2. CASE RecordCall /\ p.session = s
    <3>1. ~ p.lost
      BY <1>3, <2>2, IdShapes DEF RecordCall
    <3>2. /\ cursor \in Unsettled /\ p.id \in DOMAIN rows
          /\ s \in DOMAIN sessions'
          /\ sessions'[s] = SessionTotals(sessions'[s].prefix, rows, warnings,
                                          Settled(s) \cup {p.id})
      BY <2>1, <2>2, <3>1, FoldMatches
    <3>3. Settled(s)' = Settled(s) \cup {p.id}
      BY <2>2, <3>2, FinishSettled DEF Ledger
    <3>4. QED
      BY <1>1, <3>2, <3>3 DEF Matching
  <2>3. CASE ~ (RecordCall /\ p.session = s)
    <3>1. Settled(s)' = Settled(s)
      <4>1. CASE SkipCall
        BY <4>1, FinishSettled DEF Ledger, SkipCall, Unsettled
      <4>2. CASE RecordCall
        BY <2>3, <4>2, FinishSettled DEF Ledger
      <4>3. CASE RecordCallFails
        <5>1. p.session # s
          BY <1>3, <4>3 DEF RecordCallFails
        <5>2. QED
          BY <5>1, FinishSettled DEF Ledger
      <4>4. QED
        BY <4>1, <4>2, <4>3
    <3>2. s \in DOMAIN sessions' <=> s \in DOMAIN sessions
      BY <2>3 DEF SkipCall, RecordCall, RecordCallFails, tables, UpsertSession
    <3>3. s \in DOMAIN sessions => sessions'[s] = sessions[s]
      BY <2>3 DEF SkipCall, RecordCall, RecordCallFails, tables, UpsertSession
    <3>4. QED
      BY <1>1, <2>1, <3>1, <3>2, <3>3 DEF Matching
  <2>4. QED
    BY <2>2, <2>3
<1>4. SessionIds' = SessionIds
  BY DEF SessionIds
<1>5. QED
  BY <1>2, <1>3, <1>4 DEF Matches

LEMMA FinishLedger ==
  ASSUME Typed, History, Typed', NotInserted', Ledger, SkipCall \/ RecordCall \/ RecordCallFails
  PROVE  Ledger'
<1>1. PICK e : Finishes(e)
  BY FinishShape
<1>2. Matches' /\ skewed \subseteq skewed'
  BY <1>1, FinishMatches
<1>3. warnings' = warnings
  BY FinishingSteps
<1>4. CallsInOrder'
  BY <1>1, <1>2, <1>3, FinishCalls DEF Ledger
<1>5. QED
  BY <1>2, <1>3, <1>4 DEF Ledger

LEMMA PrepareLedger ==
  ASSUME Typed, History, Typed', NotInserted', Ledger, PrepareCall
  PROVE  Ledger'
<1>1. /\ phase = "prepare" /\ phase' = "prepare"
      /\ UNCHANGED <<rows, warnings, sessions, skewed>>
  BY DEF PrepareCall, tables
<1>2. Unsettled = {} /\ Unsettled' = {}
  BY <1>1, UnsettledIs, UnsettledNext DEF History, NotInserted, UnsettledWaits, Waiting
<1>3. \A c \in DOMAIN pend' : pend'[c].id = NoId
  BY <1>1 DEF NotInserted
<1>4. RowKinds'
  <2>1. NoId \notin DOMAIN rows
    BY DEF Typed, TablesTyped, Counters, NoId
  <2>2. QED
    BY <1>1, <1>3, <2>1 DEF RowKinds
<1>5. OwnRows' /\ GoneSkewed' /\ FoldHasRow' /\ Unwarned' /\ WarnedRight'
  BY <1>1, <1>2 DEF OwnRows, GoneSkewed, FoldHasRow, Unwarned, WarnedRight
<1>6. Matches'
  <2>1. SessionIds' = SessionIds
    BY DEF SessionIds
  <2>2. \A s : Matching(s)' = Matching(s)
    <3>1. Unfolded' = Unfolded
      BY <1>2 DEF Unfolded
    <3>2. QED
      BY <1>1, <3>1 DEF Matching, Settled
  <2>3. QED
    BY <1>1, <2>1, <2>2 DEF Matches, Ledger
<1>7. QED
  BY <1>1, <1>4, <1>5, <1>6 DEF Ledger, CallsInOrder

\* Whose totals a purge sets off, and whose it puts right.
LEMMA PurgeSkews ==
  ASSUME NEW S, PurgeWhere(S)
  PROVE  /\ \A s \in Losing(S) : (\E c \in Unsettled : pend[c].session = s) => s \in skewed'
         /\ \A s \in skewed \ skewed' :
              s \in Losing(S) /\ (SessionRows(rows, s) \subseteq S \/ s \in DOMAIN sessions)
         /\ warnings' = {w \in warnings : w.request \in DOMAIN rows \ S}
<1>1. skewed' = (skewed \ ({s \in Losing(S) : SessionRows(rows, s) \subseteq S}
                             \cup (Losing(S) \cap DOMAIN sessions)))
                  \cup {s \in Losing(S) : \E c \in Unsettled : pend[c].session = s}
  BY DEF PurgeWhere, Losing
<1>2. warnings' = {w \in warnings : w.request \in DOMAIN rows \ S}
  BY DEF PurgeWhere
<1>3. QED
  BY <1>1, <1>2

LEMMA PurgeMatching ==
  ASSUME Typed, History, Ledger, NEW S, S \subseteq DOMAIN rows, PurgeWhere(S),
         UNCHANGED <<pend, phase, cursor>>,
         NEW s \in SessionIds, s \notin skewed'
  PROVE  Matching(s)'
<1> DEFINE emptied == {t \in Losing(S) : SessionRows(rows, t) \subseteq S}
<1>1. DOMAIN sessions' = DOMAIN sessions \ emptied
  BY PurgeWhereSessions
<1>2. s \in emptied <=> s \in Losing(S) /\ SessionRows(rows, s) \subseteq S
  OBVIOUS
<1> HIDE DEF emptied
<1>3. Unsettled' = Unsettled /\ Unfolded' = Unfolded
  BY DEF Unsettled, Unfolded
<1>4. /\ DOMAIN rows' = DOMAIN rows \ S
      /\ \A i \in DOMAIN rows' : /\ rows'[i].kind = rows[i].kind
                                 /\ rows'[i].started = rows[i].started
                                 /\ rows'[i].session = rows[i].session
      /\ warnings' = {w \in warnings : w.request \in DOMAIN rows \ S}
  <2>1. ASSUME NEW i \in DOMAIN rows'
        PROVE  /\ rows'[i].kind = rows[i].kind /\ rows'[i].started = rows[i].started
               /\ rows'[i].session = rows[i].session
    <3>1. /\ rows'[i] = [rows[i] EXCEPT !.replayOf = IF @ \in S THEN NoId ELSE @]
          /\ rows[i] \in RowsAt(i, now)
      BY PurgeWhereRows DEF Typed, TablesTyped
    <3>2. QED
      BY <3>1 DEF RowsAt
  <2>2. QED
    BY <2>1, PurgeWhereRows, PurgeSkews
<1>5. SessionRows(rows', s) = SessionRows(rows, s) \ S
  BY <1>4 DEF SessionRows
<1>6. \A prefix, T : T \subseteq DOMAIN rows \ S =>
        SessionTotals(prefix, rows, warnings, T) = SessionTotals(prefix, rows', warnings', T)
  <2>1. ASSUME NEW T, T \subseteq DOMAIN rows \ S
        PROVE  SameTotals(rows, warnings, T, rows', warnings')
    BY <1>4, <2>1 DEF SameTotals
  <2>2. QED
    BY <2>1, TotalsStay
<1>7. CASE s \notin Losing(S)
  <2>1. s \notin skewed
    BY <1>7, PurgeSkews
  <2>2. Matching(s)
    BY <2>1 DEF Ledger, Matches
  <2>3. SessionRows(rows, s) \cap S = {}
    BY <1>7, IdShapes DEF Losing, SessionRows
  <2>4. Settled(s)' = Settled(s) /\ Settled(s) \subseteq DOMAIN rows \ S
    BY <1>3, <1>5, <2>3 DEF Settled, SessionRows
  <2>5. /\ s \in DOMAIN sessions' <=> s \in DOMAIN sessions
        /\ s \in DOMAIN sessions' => sessions'[s] = sessions[s]
    <3>1. s \in DOMAIN sessions' <=> s \in DOMAIN sessions
      BY <1>1, <1>2, <1>7
    <3>2. s \in DOMAIN sessions' => sessions'[s] = sessions[s]
      BY <1>7, PurgeWhereSessions
    <3>3. QED
      BY <3>1, <3>2
  <2>6. QED
    BY <1>6, <2>2, <2>4, <2>5 DEF Matching
<1>8. CASE s \in Losing(S)
  <2>1. \A c \in Unsettled : pend[c].session # s
    BY <1>8, PurgeSkews
  <2>2. SessionRows(rows, s) \cap Unfolded = {}
    BY <2>1, UnsettledTyped DEF SessionRows, Unfolded
  <2>3. /\ Settled(s)' = SessionRows(rows, s) \ S
        /\ Settled(s) = SessionRows(rows, s)
        /\ SessionRows(rows, s) \ S \subseteq DOMAIN rows \ S
    BY <1>3, <1>5, <2>2 DEF Settled, SessionRows
  <2>4. CASE SessionRows(rows, s) \subseteq S
    <3>1. s \notin DOMAIN sessions' /\ Settled(s)' = {}
      BY <1>1, <1>2, <1>8, <2>3, <2>4
    <3>2. QED
      BY <3>1 DEF Matching
  <2>5. CASE ~ (SessionRows(rows, s) \subseteq S)
    <3>1. s \in DOMAIN sessions
      <4>1. ASSUME s \notin DOMAIN sessions PROVE FALSE
        <5>1. s \notin skewed
          BY <2>5, <4>1, PurgeSkews
        <5>2. Matching(s) /\ Settled(s) # {}
          BY <2>3, <2>5, <5>1 DEF Ledger, Matches
        <5>3. QED
          BY <4>1, <5>2 DEF Matching
      <4>2. QED
        BY <4>1
    <3>2. s \in DOMAIN sessions'
      BY <1>1, <1>2, <2>5, <3>1
    <3>3. /\ sessions'[s] = SessionTotals(sessions[s].prefix, rows, warnings,
                                          SessionRows(rows, s) \ S)
          /\ sessions'[s].prefix = sessions[s].prefix
      BY <1>8, <3>2, PurgeWhereSessions
    <3>4. sessions'[s] = SessionTotals(sessions'[s].prefix, rows', warnings', Settled(s)')
      BY <1>6, <2>3, <3>3
    <3>5. QED
      BY <2>3, <2>5, <3>2, <3>4 DEF Matching
  <2>6. QED
    BY <2>4, <2>5
<1>9. QED
  BY <1>7, <1>8

LEMMA PurgeLedger ==
  ASSUME Typed, History, Ledger, Purge
  PROVE  Ledger'
<1>1. PICK S : S \subseteq DOMAIN rows /\ PurgeWhere(S)
  BY PurgeTakesRows
<1>2. UNCHANGED <<pend, phase, cursor>>
  BY PurgeTakesRows
<1>3. /\ DOMAIN rows' = DOMAIN rows \ S
      /\ \A i \in DOMAIN rows' : rows'[i].kind = rows[i].kind
      /\ warnings' = {w \in warnings : w.request \in DOMAIN rows \ S}
  <2>1. ASSUME NEW i \in DOMAIN rows' PROVE rows'[i].kind = rows[i].kind
    <3>1. /\ rows'[i] = [rows[i] EXCEPT !.replayOf = IF @ \in S THEN NoId ELSE @]
          /\ rows[i] \in RowsAt(i, now)
      BY <1>1, PurgeWhereRows DEF Typed, TablesTyped
    <3>2. QED
      BY <3>1 DEF RowsAt
  <2>2. QED
    BY <1>1, <2>1, PurgeWhereRows, PurgeSkews
<1>4. Unsettled' = Unsettled
  BY <1>2 DEF Unsettled
<1>5. OwnRows' /\ FoldHasRow'
  BY <1>2, <1>4 DEF Ledger, CallsInOrder, OwnRows, FoldHasRow
<1>6. RowKinds'
  BY <1>2, <1>3 DEF Ledger, CallsInOrder, RowKinds
<1>7. GoneSkewed'
  <2>1. ASSUME NEW c \in Unsettled, pend[c].id \notin DOMAIN rows'
        PROVE  pend[c].session \in skewed' \cup {NoSession}
    <3>1. CASE pend[c].id \in DOMAIN rows
      <4>1. pend[c].id \in S /\ rows[pend[c].id].session = pend[c].session
        BY <1>3, <2>1, <3>1, UnsettledTyped
      <4>2. pend[c].session \in Losing(S) \cup {NoSession}
        BY <4>1 DEF Losing
      <4>3. QED
        BY <1>1, <4>2, PurgeSkews
    <3>2. CASE pend[c].id \notin DOMAIN rows
      <4>1. pend[c].session \in skewed \cup {NoSession}
        BY <3>2 DEF Ledger, CallsInOrder, GoneSkewed
      <4>2. QED
        BY <1>1, <4>1, PurgeSkews
    <3>3. QED
      BY <3>1, <3>2
  <2>2. QED
    BY <1>2, <1>4, <2>1 DEF GoneSkewed
<1>8. Unwarned'
  BY <1>2, <1>3, <1>4 DEF Ledger, CallsInOrder, Unwarned, WarnedOf
<1>9. WarnedRight'
  <2>1. ASSUME NEW i \in DOMAIN rows' PROVE WarnedOf(i)' = WarnedOf(i)
    BY <1>3 DEF WarnedOf
  <2>2. DOMAIN rows' \subseteq DOMAIN rows
    BY <1>3
  <2>3. QED
    BY <1>2, <2>1, <2>2 DEF Ledger, CallsInOrder, WarnedRight
<1>10. IsFiniteSet(warnings')
  <2>1. warnings' \in SUBSET warnings
    BY <1>3
  <2>2. QED
    BY <2>1, FS_Subset DEF Ledger
<1>11. Matches'
  <2>1. SessionIds' = SessionIds
    BY DEF SessionIds
  <2>2. QED
    BY <1>1, <1>2, <2>1, PurgeMatching DEF Matches
<1>12. QED
  BY <1>5, <1>6, <1>7, <1>8, <1>9, <1>10, <1>11 DEF Ledger, CallsInOrder

LEMMA LedgerInit == Init => Ledger
<1> SUFFICES ASSUME Init PROVE Ledger
  OBVIOUS
<1>1. DOMAIN << >> = {}
  BY EmptySeq
<1>2. Unsettled = {}
  BY <1>1 DEF Init, Unsettled
<1>3. CallsInOrder
  BY <1>1, <1>2 DEF Init, CallsInOrder, OwnRows, RowKinds, GoneSkewed, FoldHasRow, Unwarned,
     WarnedRight
<1>4. Matches
  BY <1>1 DEF Init, Matches, Matching, Settled, SessionRows
<1>5. QED
  BY <1>3, <1>4, FS_EmptySet DEF Init, Ledger

LEMMA LedgerStep ==
  Typed /\ Keyed /\ History /\ ReferencesIntact /\ Ledger /\ [Next]_vars => Ledger'
<1> SUFFICES ASSUME Typed, Keyed, History, ReferencesIntact, Ledger, [Next]_vars PROVE Ledger'
  OBVIOUS
<1>1. Typed' /\ NotInserted'
  BY TypedStep, HistoryStep DEF History
<1>2. CASE UNCHANGED vars \/ Tick \/ FallBack \/ RefuseOne
  BY <1>1, <1>2, QuietLedger
<1>3. CASE InsertRequests \/ InsertOne
  BY <1>1, <1>3, InsertLedger
<1>4. CASE InsertWarnings
  BY <1>1, <1>4, WarningsLedger
<1>5. CASE SkipCall \/ RecordCall \/ RecordCallFails
  BY <1>1, <1>5, FinishLedger
<1>6. CASE PrepareCall
  BY <1>1, <1>6, PrepareLedger
<1>7. CASE Purge
  BY <1>7, PurgeLedger
<1>8. QED
  BY <1>2, <1>3, <1>4, <1>5, <1>6, <1>7 DEF Next

LEMMA LedgerMeans == Typed /\ Ledger => TotalsMatchRows
<1> SUFFICES ASSUME Typed, Ledger,
                    NEW s \in (DOMAIN sessions \cup {rows[i].session : i \in DOMAIN rows})
                                \ (skewed \cup {NoSession})
             PROVE  Matching(s)
  BY DEF TotalsMatchRows, Matching, Settled
<1>1. s \in SessionIds
  BY DEF Typed, TablesTyped, RowsAt, Grouping
<1>2. QED
  BY <1>1 DEF Ledger, Matches

\* The running totals are those of the rows, for every batch, gap and number
\* of calls, purges and faults: folding the calls one by one (RecordCall's
\* upsert) and rebuilding a session from the tables (reconcileSession) come
\* to the same columns, sums, extremes, models and warning count included.
THEOREM SessionsTotalsMatch == Spec => []TotalsMatchRows
<1>1. Init => Keyed /\ ReferencesIntact
  BY EmptySeq DEF Init, Keyed, CallsKeyed, MemoKeyed, SessionsKeyed, ReferencesIntact
<1>2. QED
  BY <1>1, TypedInit, TypedStep, KeyedStep, HistoryInit, HistoryStep, ReferencesStep,
     LedgerInit, LedgerStep, LedgerMeans, PTL DEF Spec

-----------------------------------------------------------------------------
(***************************************************************************)
(* Sorting.                                                                *)
(***************************************************************************)

\* R is a strict total order on S.
OrderOn(R, S) ==
  /\ \A a, b \in S : a # b => <<a, b>> \in R \/ <<b, a>> \in R
  /\ \A a, b \in S : <<a, b>> \in R => <<b, a>> \notin R
  /\ \A a, b, c \in S : <<a, b>> \in R /\ <<b, c>> \in R => <<a, c>> \in R

Before(e, R, S) == {d \in S : <<d, e>> \in R}
RankIn(e, R, S) == Cardinality(Before(e, R, S)) + 1

\* s lists S in the order of R.
Sorts(s, R, S) ==
  /\ s \in [1..Cardinality(S) -> S]
  /\ \A i, j \in 1..Cardinality(S) : i < j => <<s[i], s[j]>> \in R

\* The first elements of a sequence without repetitions.
Counted(s, n) ==
  \A m \in 0..n : IsFiniteSet({s[i] : i \in 1..m}) /\ Cardinality({s[i] : i \in 1..m}) = m

LEMMA ListsAll ==
  ASSUME NEW S, IsFiniteSet(S), NEW s \in [1..Cardinality(S) -> S],
         \A i, j \in 1..Cardinality(S) : i < j => s[i] # s[j]
  PROVE  /\ \A e \in S : \E i \in 1..Cardinality(S) : s[i] = e
         /\ Counted(s, Cardinality(S))
<1> DEFINE n == Cardinality(S)
<1>1. n \in Nat
  BY FS_CardinalityType
<1>2. \A i, j \in 1..n : s[i] = s[j] => i = j
  BY <1>1
<1>3. s \in Injection(1..n, S)
  BY <1>2 DEF Injection, IsInjective
<1>4. IsFiniteSet(1..n) /\ Cardinality(1..n) = n
  BY <1>1, FS_Interval
<1>5. s \in Surjection(1..n, S)
  BY <1>3, <1>4, FS_Injection
<1>6. ASSUME NEW m \in 0..n
      PROVE  IsFiniteSet({s[i] : i \in 1..m}) /\ Cardinality({s[i] : i \in 1..m}) = m
  <2> DEFINE f == [i \in 1..m |-> s[i]]
  <2>1. m \in Nat /\ \A i \in 1..m : i \in 1..n
    BY <1>1
  <2>2. AllDifferent(f, m)
    BY <1>2, <2>1 DEF AllDifferent
  <2>3. {s[i] : i \in 1..m} = {f[i] : i \in 1..m}
    OBVIOUS
  <2> HIDE DEF f
  <2>4. IsFiniteSet({f[i] : i \in 1..m}) /\ Cardinality({f[i] : i \in 1..m}) = m
    BY <2>2, CountedOnce
  <2>5. QED
    BY <2>3, <2>4
<1>7. Counted(s, n)
  BY <1>6 DEF Counted
<1>8. QED
  BY <1>5, <1>7 DEF Surjection

LEMMA RanksClimb ==
  ASSUME NEW S, IsFiniteSet(S), NEW R, OrderOn(R, S)
  PROVE  /\ \A e \in S : RankIn(e, R, S) \in 1..Cardinality(S)
         /\ \A d, e \in S : <<d, e>> \in R => RankIn(d, R, S) < RankIn(e, R, S)
<1>1. \A e \in S : Before(e, R, S) \in SUBSET S /\ e \notin Before(e, R, S)
  BY DEF Before, OrderOn
<1>2. \A e \in S : /\ IsFiniteSet(Before(e, R, S)) /\ Cardinality(Before(e, R, S)) \in Nat
                   /\ Cardinality(S) \in Nat
                   /\ Cardinality(Before(e, R, S)) <= Cardinality(S)
                   /\ Cardinality(Before(e, R, S)) # Cardinality(S)
  BY <1>1, FS_Subset, FS_CardinalityType
<1>3. ASSUME NEW d \in S, NEW e \in S, <<d, e>> \in R
      PROVE  RankIn(d, R, S) < RankIn(e, R, S)
  <2>1. Before(d, R, S) \in SUBSET Before(e, R, S)
    BY <1>3 DEF Before, OrderOn
  <2>2. d \in Before(e, R, S) /\ d \notin Before(d, R, S)
    BY <1>1, <1>3 DEF Before
  <2>3. /\ Cardinality(Before(d, R, S)) <= Cardinality(Before(e, R, S))
        /\ Cardinality(Before(d, R, S)) # Cardinality(Before(e, R, S))
    BY <1>2, <2>1, <2>2, FS_Subset
  <2>4. QED
    BY <1>2, <2>3 DEF RankIn
<1>4. \A e \in S : RankIn(e, R, S) \in 1..Cardinality(S)
  BY <1>2 DEF RankIn
<1>5. QED
  BY <1>3, <1>4

\* Every finite set can be sorted.
LEMMA SortExists ==
  ASSUME NEW S, IsFiniteSet(S), NEW R, OrderOn(R, S)
  PROVE  \E s : Sorts(s, R, S)
<1> DEFINE n == Cardinality(S)
           f == [e \in S |-> RankIn(e, R, S)]
<1>1. n \in Nat /\ IsFiniteSet(1..n) /\ Cardinality(1..n) = n
  BY FS_CardinalityType, FS_Interval
<1>2. /\ \A e \in S : RankIn(e, R, S) \in 1..n
      /\ \A d, e \in S : <<d, e>> \in R => RankIn(d, R, S) < RankIn(e, R, S)
  BY RanksClimb
<1>3. f \in [S -> 1..n] /\ \A d, e \in S : <<d, e>> \in R => f[d] < f[e]
  BY <1>2
<1> HIDE DEF f
<1>a. \A d, e \in S : d # e => f[d] < f[e] \/ f[e] < f[d]
  BY <1>3 DEF OrderOn
<1>b. \A d \in S : f[d] \in Int
  BY <1>1, <1>3
<1>4. f \in Injection(S, 1..n)
  BY <1>3, <1>a, <1>b DEF Injection, IsInjective
<1>5. f \in Surjection(S, 1..n)
  BY <1>1, <1>4, FS_Injection
<1> DEFINE s == [i \in 1..n |-> CHOOSE e \in S : f[e] = i]
<1>6. \A i \in 1..n : s[i] \in S /\ f[s[i]] = i
  BY <1>5 DEF Surjection
<1> HIDE DEF s
<1>7. ASSUME NEW i \in 1..n, NEW j \in 1..n, i < j PROVE <<s[i], s[j]>> \in R
  <2>1. s[i] \in S /\ s[j] \in S /\ f[s[i]] = i /\ f[s[j]] = j /\ i \in Int /\ j \in Int
    BY <1>6
  <2>2. s[i] # s[j] /\ ~ (f[s[j]] < f[s[i]])
    BY <1>7, <2>1
  <2>3. <<s[i], s[j]>> \in R \/ <<s[j], s[i]>> \in R
    BY <2>1, <2>2 DEF OrderOn
  <2>4. QED
    BY <1>3, <2>1, <2>2, <2>3
<1>8. s \in [1..n -> S]
  BY <1>6 DEF s
<1>9. QED
  BY <1>7, <1>8 DEF Sorts

\* There is one way to sort a set: each element stands at its rank.
LEMMA SortRanks ==
  ASSUME NEW S, IsFiniteSet(S), NEW R, OrderOn(R, S), NEW s, Sorts(s, R, S)
  PROVE  /\ \A e \in S : RankIn(e, R, S) \in 1..Cardinality(S) /\ s[RankIn(e, R, S)] = e
         /\ \A i \in 1..Cardinality(S) : RankIn(s[i], R, S) = i
<1> DEFINE n == Cardinality(S)
<1>1. n \in Nat /\ s \in [1..n -> S] /\ \A i, j \in 1..n : i < j => s[i] # s[j]
  BY FS_CardinalityType DEF Sorts, OrderOn
<1>2. /\ \A e \in S : \E i \in 1..n : s[i] = e
      /\ \A m \in 0..n : Cardinality({s[i] : i \in 1..m}) = m
  BY <1>1, ListsAll DEF Counted
<1>3. ASSUME NEW i \in 1..n PROVE RankIn(s[i], R, S) = i
  <2>1. ASSUME NEW j \in 1..n, <<s[j], s[i]>> \in R PROVE j < i
    <3>1. s[i] \in S /\ s[j] \in S
      BY <1>1
    <3>2. ~ (<<s[i], s[j]>> \in R) /\ i # j
      BY <2>1, <3>1 DEF OrderOn
    <3>3. ~ (i < j)
      BY <3>2 DEF Sorts
    <3>4. QED
      BY <1>1, <3>2, <3>3
  <2>2. Before(s[i], R, S) \subseteq {s[j] : j \in 1..(i - 1)}
    <3>1. ASSUME NEW d \in S, <<d, s[i]>> \in R PROVE \E j \in 1..(i - 1) : d = s[j]
      <4>1. PICK j \in 1..n : s[j] = d
        BY <1>2
      <4>2. j < i
        BY <2>1, <3>1, <4>1
      <4>3. QED
        BY <1>1, <4>1, <4>2
    <3>2. QED
      BY <3>1 DEF Before
  <2>3. {s[j] : j \in 1..(i - 1)} \subseteq Before(s[i], R, S)
    <3>1. \A j \in 1..(i - 1) : j \in 1..n /\ j < i
      BY <1>1
    <3>2. QED
      BY <1>1, <3>1 DEF Before, Sorts
  <2>4. i - 1 \in 0..n /\ (i - 1) + 1 = i
    BY <1>1
  <2>5. QED
    BY <1>2, <2>2, <2>3, <2>4 DEF RankIn
<1>4. \A e \in S : RankIn(e, R, S) \in 1..n /\ s[RankIn(e, R, S)] = e
  BY <1>2, <1>3
<1>5. QED
  BY <1>3, <1>4

-----------------------------------------------------------------------------
(***************************************************************************)
(* Pages.                                                                  *)
(***************************************************************************)

\* What a list shows: entries that their ids tell apart.
Entries(E) ==
  /\ IsFiniteSet(E)
  /\ \A e \in E : e.id \in Int /\ e.at \in Int
  /\ \A d, e \in E : d.id = e.id => d = e

Newest(E) == {q \in E \X E : NewestFirst(q[1], q[2])}

LEMMA NewestOrders == ASSUME NEW E, Entries(E) PROVE OrderOn(Newest(E), E)
<1>1. \A d, e \in E : <<d, e>> \in Newest(E) <=> d.at > e.at \/ (d.at = e.at /\ d.id > e.id)
  BY DEF Newest, NewestFirst
<1>2. \A d, e \in E : d # e => d.id # e.id
  BY DEF Entries
<1>3. \A e \in E : e.id \in Int /\ e.at \in Int
  BY DEF Entries
<1>4. QED
  BY <1>1, <1>2, <1>3 DEF OrderOn

\* However the database orders what the keys leave open: they leave nothing.
LEMMA OrdersSort ==
  ASSUME NEW E, Entries(E), NEW s \in Orders(E)
  PROVE  Sorts(s, Newest(E), E)
<1>1. /\ s \in [1..Cardinality(E) -> E]
      /\ \A i, j \in 1..Cardinality(E) : i < j => s[i] # s[j] /\ ~ NewestFirst(s[j], s[i])
  BY DEF Orders
<1>2. ASSUME NEW i \in 1..Cardinality(E), NEW j \in 1..Cardinality(E), i < j
      PROVE  <<s[i], s[j]>> \in Newest(E)
  <2>1. s[i] \in E /\ s[j] \in E /\ s[i] # s[j] /\ ~ NewestFirst(s[j], s[i])
    BY <1>1, <1>2
  <2>2. <<s[j], s[i]>> \notin Newest(E)
    BY <2>1 DEF Newest
  <2>3. QED
    BY <2>1, <2>2, NewestOrders DEF OrderOn
<1>3. QED
  BY <1>1, <1>2 DEF Sorts

LEMMA OrdersExist == ASSUME NEW E, Entries(E) PROVE Orders(E) # {}
<1>1. PICK s : Sorts(s, Newest(E), E)
  BY NewestOrders, SortExists DEF Entries
<1>2. ASSUME NEW i \in 1..Cardinality(E), NEW j \in 1..Cardinality(E), i < j
      PROVE  s[i] # s[j] /\ ~ NewestFirst(s[j], s[i])
  <2>1. s[i] \in E /\ s[j] \in E /\ <<s[i], s[j]>> \in Newest(E)
    BY <1>1, <1>2 DEF Sorts
  <2>2. <<s[j], s[i]>> \notin Newest(E) /\ s[i] # s[j]
    BY <2>1, NewestOrders DEF OrderOn
  <2>3. QED
    BY <2>1, <2>2 DEF Newest
<1>3. s \in Orders(E)
  BY <1>1, <1>2 DEF Orders, Sorts
<1>4. QED
  BY <1>3

LEMMA LimitIs ==
  ASSUME NEW size \in Int
  PROVE  /\ EffectiveLimit(size) \in Nat /\ EffectiveLimit(size) > 0
         /\ \A p \in Nat : ClampOffset(Offset(p, size)) = p * EffectiveLimit(size)
<1> DEFINE L == EffectiveLimit(size)
<1>1. L \in Nat /\ L > 0
  BY DEF EffectiveLimit, DefaultLimit
<1> HIDE DEF L
<1>2. ASSUME NEW p \in Nat PROVE ClampOffset(IF p = 0 THEN -1 ELSE p * L) = p * L
  <2>1. p * L \in Int /\ p * L >= 0 /\ (p = 0 => p * L = 0)
    BY <1>1
  <2>2. QED
    BY <2>1 DEF ClampOffset
<1>3. QED
  BY <1>1, <1>2 DEF L, Offset

LEMMA TwoExtremes ==
  ASSUME NEW a \in Int, NEW b \in Int
  PROVE  /\ Min({a, b}) = IF a <= b THEN a ELSE b
         /\ Max({a, b}) = IF a >= b THEN a ELSE b
<1> DEFINE T == {a, b}
           low == IF a <= b THEN a ELSE b
           high == IF a >= b THEN a ELSE b
<1>1. T \subseteq Int /\ low \in T /\ high \in T /\ \A x \in T : low <= x /\ high >= x
  OBVIOUS
<1> HIDE DEF T, low, high
<1>2. Min(T) = low /\ Max(T) = high
  BY <1>1, ExtremesOf
<1>3. QED
  BY <1>2 DEF T, low, high

\* A page is what stands between its offset and the next one's.
LEMMA SliceIs ==
  ASSUME NEW n \in Nat, NEW E, NEW s \in [1..n -> E], NEW L \in Nat, NEW off \in Nat
  PROVE  LET page == Slice(s, L, off) IN
         /\ Len(page) \in Nat /\ DOMAIN page = 1..Len(page)
         /\ \A k \in 1..Len(page) : off + k \in 1..n /\ k <= L /\ page[k] = s[off + k]
         /\ \A r \in 1..n : off < r /\ r <= off + L => r - off \in 1..Len(page)
<1> DEFINE top == IF n <= off + L THEN n ELSE off + L
           m == IF top - off < 0 THEN 0 ELSE top - off
           page == Slice(s, L, off)
<1>1. Len(s) = n
  OBVIOUS
<1>2. Min({n, off + L}) = top
  BY TwoExtremes
<1>3. page = SubSeq(s, off + 1, top)
  BY <1>1, <1>2 DEF Slice
<1> HIDE DEF page
<1>4. /\ page \in Seq(E) /\ Len(page) = m
      /\ \A k \in 1..m : page[k] = s[off + k]
  <2>1. top \in Int /\ \A k \in (off + 1)..top : s[k] \in E
    OBVIOUS
  <2>2. /\ page \in Seq(E) /\ Len(page) = IF off + 1 <= top THEN top - (off + 1) + 1 ELSE 0
        /\ \A k \in 1..(top - (off + 1) + 1) : page[k] = s[(off + 1) + k - 1]
    <3> HIDE DEF top
    <3>1. off + 1 \in Int
      OBVIOUS
    <3>2. QED
      BY <1>3, <2>1, <3>1, SubSeqProperties
  <2>3. m = IF off + 1 <= top THEN top - (off + 1) + 1 ELSE 0
    BY <2>1
  <2>4. \A k \in 1..m : k \in 1..(top - (off + 1) + 1) /\ (off + 1) + k - 1 = off + k
    BY <2>1
  <2>5. QED
    BY <2>2, <2>3, <2>4
<1>5. m \in Nat /\ DOMAIN page = 1..m
  BY <1>4
<1>6. QED
  BY <1>4, <1>5 DEF page

\* A rank falls on one page.
OnPage(r, p, L) == p * L < r /\ r <= p * L + L

LEMMA OnePage ==
  ASSUME NEW n \in Nat, NEW L \in Nat, L > 0, NEW r \in 1..n
  PROVE  \E p \in 0..n : \A q \in Nat : OnPage(r, q, L) <=> p = q
<1> DEFINE T == {q \in 0..n : q * L < r}
<1>1. T \subseteq 0..n /\ T # {}
  <2>1. 0 * L = 0 /\ 0 \in 0..n
    OBVIOUS
  <2>2. 0 \in T
    BY <2>1
  <2>3. QED
    BY <2>2
<1>2. PICK p \in T : \A q \in T : q <= p
  <2> HIDE DEF T
  <2>1. QED
    BY <1>1, LargestOf
<1>3. p \in 0..n /\ p \in Nat /\ p * L < r /\ p * L \in Nat
  OBVIOUS
<1>4. (p + 1) * L = p * L + L
  BY <1>3
<1>5. r <= p * L + L
  <2>1. ASSUME ~ (r <= p * L + L) PROVE FALSE
    <3>1. (p + 1) * L < r /\ (p + 1) * L >= p + 1
      BY <1>3, <1>4, <2>1
    <3>2. p + 1 \in T
      BY <1>3, <3>1
    <3>3. QED
      BY <1>2, <1>3, <3>2
  <2>2. QED
    BY <2>1
<1>6. ASSUME NEW q \in Nat, q # p, q * L < r, r <= q * L + L PROVE FALSE
  <2>1. ASSUME NEW a \in Nat, NEW b \in Nat, a < b PROVE a * L + L <= b * L
    <3>1. a + 1 <= b
      BY <2>1
    <3>2. (a + 1) * L <= b * L
      BY <3>1
    <3>3. (a + 1) * L = a * L + L
      OBVIOUS
    <3>4. QED
      BY <3>2, <3>3
  <2>2. q * L \in Nat
    OBVIOUS
  <2>3. CASE q < p
    BY <1>3, <1>6, <2>1, <2>2, <2>3
  <2>4. CASE p < q
    BY <1>3, <1>5, <1>6, <2>1, <2>2, <2>4
  <2>5. QED
    BY <1>3, <1>6, <2>3, <2>4
<1>7. QED
  BY <1>3, <1>5, <1>6 DEF OnPage

\* pages is the list of entries E in pages of a size.
PagesOf(pages, E, size) ==
  /\ DOMAIN pages = 0..Cardinality(E)
  /\ \A p \in DOMAIN pages : pages[p] = Pages(E, size, Offset(p, size))

\* What a page shows are the entries whose ranks fall on it, each once.
LEMMA PageShows ==
  ASSUME NEW E, Entries(E), NEW size \in Int, NEW p \in Nat,
         NEW page \in Pages(E, size, Offset(p, size))
  PROVE  /\ Served(page) =
              {e.id : e \in {d \in E : OnPage(RankIn(d, Newest(E), E), p, EffectiveLimit(size))}}
         /\ Cardinality(Served(page)) = Len(page)
<1> DEFINE n == Cardinality(E)
           L == EffectiveLimit(size)
           off == p * L
           Rank(e) == RankIn(e, Newest(E), E)
<1>1. n \in Nat /\ L \in Nat /\ off \in Nat /\ ClampOffset(Offset(p, size)) = off
  <2>1. n \in Nat
    BY FS_CardinalityType DEF Entries
  <2>2. L \in Nat /\ ClampOffset(Offset(p, size)) = off
    BY LimitIs
  <2> HIDE DEF L
  <2>3. p * L \in Nat
    BY <2>2
  <2>4. QED
    BY <2>1, <2>2, <2>3
<1>2. PICK s \in Orders(E) : page = Slice(s, L, off)
  BY <1>1 DEF Pages
<1>3. s \in [1..n -> E] /\ Sorts(s, Newest(E), E)
  BY OrdersSort DEF Sorts
<1>4. /\ \A e \in E : Rank(e) \in 1..n /\ s[Rank(e)] = e
      /\ \A i \in 1..n : Rank(s[i]) = i
  BY <1>3, NewestOrders, SortRanks DEF Entries
<1> HIDE DEF L, off, n, Rank
<1>5. /\ Len(page) \in Nat /\ DOMAIN page = 1..Len(page)
      /\ \A k \in 1..Len(page) : off + k \in 1..n /\ k <= L /\ page[k] = s[off + k]
      /\ \A r \in 1..n : off < r /\ r <= off + L => r - off \in 1..Len(page)
  <2>1. s \in [1..n -> E] /\ n \in Nat /\ L \in Nat /\ off \in Nat
    BY <1>1, <1>3
  <2>2. LET pg == Slice(s, L, off) IN
        /\ Len(pg) \in Nat /\ DOMAIN pg = 1..Len(pg)
        /\ \A k \in 1..Len(pg) : off + k \in 1..n /\ k <= L /\ pg[k] = s[off + k]
        /\ \A r \in 1..n : off < r /\ r <= off + L => r - off \in 1..Len(pg)
    BY <2>1, SliceIs
  <2>3. QED
    BY <1>2, <2>2
<1> DEFINE shown == {d \in E : off < Rank(d) /\ Rank(d) <= off + L}
<1>6. ASSUME NEW k \in 1..Len(page)
      PROVE  page[k] \in shown /\ Rank(page[k]) = off + k /\ k \in Int
  <2>1. off + k \in 1..n /\ k <= L /\ page[k] = s[off + k] /\ k > 0 /\ k \in Int
    BY <1>5
  <2>2. page[k] \in E /\ Rank(page[k]) = off + k
    BY <1>3, <1>4, <2>1
  <2>3. off < off + k /\ off + k <= off + L
    BY <1>1, <2>1
  <2>4. QED
    BY <2>1, <2>2, <2>3
<1>7. ASSUME NEW d \in shown PROVE \E k \in 1..Len(page) : page[k] = d
  <2>1. Rank(d) \in 1..n /\ Rank(d) - off \in 1..Len(page)
    BY <1>4, <1>5
  <2>2. off + (Rank(d) - off) = Rank(d)
    BY <1>1, <2>1
  <2>3. page[Rank(d) - off] = d
    BY <1>4, <1>5, <2>1, <2>2
  <2>4. QED
    BY <2>1, <2>3
<1>8. Served(page) = {e.id : e \in shown}
  <2> HIDE DEF shown
  <2>1. QED
    BY <1>5, <1>6, <1>7 DEF Served
<1>9. \A i, j \in 1..Len(page) : page[i].id = page[j].id => i = j
  <2>1. ASSUME NEW i \in 1..Len(page), NEW j \in 1..Len(page), page[i].id = page[j].id
        PROVE  i = j
    <3>1. page[i] = page[j]
      BY <1>6, <2>1 DEF Entries
    <3>2. off + i = off + j /\ i \in Int /\ j \in Int
      BY <1>6, <3>1
    <3>3. QED
      BY <1>1, <3>2
  <2>2. QED
    BY <2>1
<1>10. Cardinality(Served(page)) = Len(page)
  <2> DEFINE m == Len(page)
             f == [k \in 1..m |-> page[k].id]
  <2>1. AllDifferent(f, m)
    BY <1>5, <1>9 DEF AllDifferent
  <2>2. Served(page) = {f[i] : i \in 1..m}
    BY <1>5 DEF Served
  <2> HIDE DEF f, m
  <2>3. IsFiniteSet({f[i] : i \in 1..m}) /\ Cardinality({f[i] : i \in 1..m}) = m
    BY <2>1, CountedOnce
  <2>4. QED
    BY <2>2, <2>3 DEF m
<1>11. QED
  BY <1>8, <1>10 DEF L, off, Rank, OnPage

LEMMA PagesServe ==
  ASSUME NEW E, Entries(E), NEW size \in Int, NEW pages, PagesOf(pages, E, size)
  PROVE  ServesOnce(pages, {e.id : e \in E})
<1> DEFINE n == Cardinality(E)
           L == EffectiveLimit(size)
           Rank(e) == RankIn(e, Newest(E), E)
           On(e, p) == OnPage(Rank(e), p, L)
<1>1. n \in Nat /\ L \in Nat /\ L > 0
  BY LimitIs, FS_CardinalityType DEF Entries
<1>2. \A e \in E : Rank(e) \in 1..n
  BY NewestOrders, RanksClimb DEF Entries
<1>3. ASSUME NEW p \in DOMAIN pages, NEW page \in pages[p]
      PROVE  /\ p \in Nat /\ Served(page) = {e.id : e \in {d \in E : On(d, p)}}
             /\ Cardinality(Served(page)) = Len(page)
  <2>1. p \in Nat /\ page \in Pages(E, size, Offset(p, size))
    BY <1>1, <1>3 DEF PagesOf
  <2>2. QED
    BY <2>1, PageShows
<1>0. \A p \in DOMAIN pages : pages[p] # {}
  BY OrdersExist DEF PagesOf, Pages
<1> HIDE DEF Rank, L
<1>4. ASSUME NEW e \in E
      PROVE  \E p \in DOMAIN pages :
               \A q \in DOMAIN pages : \A page \in pages[q] : e.id \in Served(page) <=> p = q
  <2>1. PICK p \in 0..n : \A q \in Nat : On(e, q) <=> p = q
    BY <1>1, <1>2, OnePage
  <2>2. ASSUME NEW q \in DOMAIN pages, NEW page \in pages[q]
        PROVE  e.id \in Served(page) <=> On(e, q)
    <3> HIDE DEF On
    <3>1. Served(page) = {d.id : d \in {c \in E : On(c, q)}}
      BY <1>3, <2>2
    <3>2. \A d \in E : d.id = e.id => d = e
      BY DEF Entries
    <3>3. QED
      BY <3>1, <3>2
  <2> HIDE DEF On
  <2>3. \A q \in DOMAIN pages : \A page \in pages[q] : e.id \in Served(page) <=> p = q
    BY <1>3, <2>1, <2>2
  <2>4. QED
    BY <2>1, <2>3 DEF PagesOf
<1> HIDE DEF On
<1> DEFINE ids == {e.id : e \in E}
<1>5. \A p \in DOMAIN pages : \A page \in pages[p] :
        Served(page) \subseteq ids /\ Cardinality(Served(page)) = Len(page)
  BY <1>3
<1>6. \A i \in ids : \E p \in DOMAIN pages :
        \A q \in DOMAIN pages : \A page \in pages[q] : i \in Served(page) <=> p = q
  BY <1>4
<1> HIDE DEF ids
<1>7. ServesOnce(pages, ids)
  BY <1>0, <1>5, <1>6 DEF ServesOnce
<1>8. QED
  BY <1>7 DEF ids

\* Entries made of the elements of a set, one of each.
Shows(f, W) ==
  /\ IsFiniteSet(W) /\ DOMAIN f = W
  /\ \A w \in W : f[w].id \in Int /\ f[w].at \in Int
  /\ \A v, w \in W : f[v].id = f[w].id => v = w

LEMMA ShownOnce ==
  ASSUME NEW W, NEW f, Shows(f, W)
  PROVE  /\ Entries({f[w] : w \in W})
         /\ Cardinality({f[w] : w \in W}) = Cardinality(W)
         /\ {e.id : e \in {f[w] : w \in W}} = {f[w].id : w \in W}
<1> DEFINE E == {f[w] : w \in W}
           g == [w \in W |-> f[w]]
<1>0. /\ g \in [W -> E]
      /\ \A v, w \in W : g[v] = g[w] => v = w
      /\ \A x \in E : \E w \in W : g[w] = x
  BY DEF Shows
<1> HIDE DEF g
<1>1. g \in Bijection(W, E)
  BY <1>0 DEF Bijection, Injection, Surjection, IsInjective
<1>2. ExistsBijection(W, E)
  BY <1>1 DEF ExistsBijection
<1>3. IsFiniteSet(E) /\ Cardinality(E) = Cardinality(W)
  BY <1>2, FS_Bijection DEF Shows
<1>4. Entries(E)
  BY <1>3 DEF Shows, Entries
<1>5. QED
  BY <1>3, <1>4

\* The tables can be listed: no id is given twice, no table is endless.
Listed ==
  /\ \A v, w \in warnings : v.id = w.id => v = w
  /\ IsFiniteSet(DOMAIN sessions)

LEMMA ListedWarnings ==
  ASSUME Typed, Listed, InsertWarnings
  PROVE  \A v, w \in warnings' : v.id = w.id => v = w
<1> DEFINE p == pend[cursor]
<1>1. PICK panic \in BOOLEAN, lost \in BOOLEAN :
        warnings' = IF lost THEN warnings ELSE warnings \cup
          {[id |-> nextWarn + i - 1, request |-> p.id, kind |-> WarningsOf(p.kind, panic)[i],
            at |-> now] : i \in DOMAIN WarningsOf(p.kind, panic)}
  BY DEF InsertWarnings
<1> DEFINE ws == WarningsOf(p.kind, panic)
           new == {[id |-> nextWarn + i - 1, request |-> p.id, kind |-> ws[i], at |-> now] :
                     i \in DOMAIN ws}
<1>2. cursor \in DOMAIN pend /\ p \in PreparedCalls(now, nextId) /\ nextWarn \in Nat
  BY PendElement DEF InsertWarnings, Typed, Counters
<1>3. Len(ws) \in Nat /\ DOMAIN ws = 1..Len(ws)
  BY <1>2, WarningsOfTyped, LenProperties DEF PreparedCalls
<1> HIDE DEF ws
<1>4. \A v \in new : v.id \in Nat /\ v.id >= nextWarn
  BY <1>2, <1>3
<1>5. \A v, w \in new : v.id = w.id => v = w
  BY <1>2, <1>3
<1>6. \A w \in warnings : w.id \in Nat /\ w.id < nextWarn
  BY <1>2 DEF Typed, TablesTyped
<1>7. warnings' \subseteq warnings \cup new
  BY <1>1 DEF ws
<1> HIDE DEF new
<1>8. QED
  BY <1>2, <1>4, <1>5, <1>6, <1>7 DEF Listed

LEMMA ListedSessions ==
  ASSUME Listed, RecordCall
  PROVE  IsFiniteSet(DOMAIN sessions')
<1> DEFINE p == pend[cursor]
<1>1. CASE p.session = NoSession
  BY <1>1 DEF RecordCall, Listed
<1>2. CASE p.session # NoSession
  <2>1. DOMAIN sessions' = DOMAIN sessions \cup {p.session}
    BY <1>2 DEF RecordCall, UpsertSession
  <2>2. QED
    BY <2>1, FS_AddElement DEF Listed
<1>3. QED
  BY <1>1, <1>2

LEMMA ListedStep == Typed /\ Listed /\ [Next]_vars => Listed'
<1> SUFFICES ASSUME Typed, Listed, [Next]_vars PROVE Listed'
  OBVIOUS
<1>1. CASE UNCHANGED vars \/ Tick \/ PrepareCall \/ InsertRequests \/ FallBack \/ InsertOne
           \/ RefuseOne \/ SkipCall \/ RecordCallFails
  <2>1. warnings' = warnings /\ sessions' = sessions
    BY <1>1 DEF vars, tables, Tick, PrepareCall, InsertRequests, FallBack, InsertOne, RefuseOne,
       SkipCall, RecordCallFails
  <2>2. QED
    BY <2>1 DEF Listed
<1>2. CASE InsertWarnings
  <2>1. sessions' = sessions
    BY <1>2 DEF InsertWarnings
  <2>2. QED
    BY <1>2, <2>1, ListedWarnings DEF Listed
<1>3. CASE RecordCall
  <2>1. warnings' = warnings
    BY <1>3 DEF RecordCall
  <2>2. QED
    BY <1>3, <2>1, ListedSessions DEF Listed
<1>4. CASE Purge
  <2>1. PICK S : S \subseteq DOMAIN rows /\ PurgeWhere(S)
    BY <1>4, PurgeTakesRows
  <2>2. warnings' \subseteq warnings /\ DOMAIN sessions' \in SUBSET DOMAIN sessions
    BY <2>1, PurgeWhereRows, PurgeWhereKeys
  <2>3. IsFiniteSet(DOMAIN sessions')
    BY <2>2, FS_Subset DEF Listed
  <2>4. QED
    BY <2>2, <2>3 DEF Listed
<1>5. QED
  BY <1>1, <1>2, <1>3, <1>4 DEF Next

LEMMA RequestsPaged ==
  ASSUME Typed, NEW size \in Int, NEW f
  PROVE  ServesOnce([p \in 0..CountRequests(rows, warnings, f) |->
                       ListRequests(rows, warnings, f, size, Offset(p, size))],
                    RequestWhere(rows, warnings, f))
<1> DEFINE W == RequestWhere(rows, warnings, f)
           show == [i \in W |-> [id |-> i, at |-> rows[i].started]]
           E == {show[i] : i \in W}
           pages == [p \in 0..CountRequests(rows, warnings, f) |->
                       ListRequests(rows, warnings, f, size, Offset(p, size))]
<1>1. W \subseteq DOMAIN rows
  BY DEF RequestWhere, StatsWindow
<1>2. W \in SUBSET (1..(nextId - 1)) /\ nextId - 1 \in Int
  BY <1>1 DEF Typed, TablesTyped, Counters
<1>3. IsFiniteSet(W)
  <2> HIDE DEF W
  <2>1. IsFiniteSet(1..(nextId - 1))
    BY <1>2, FS_Interval
  <2>2. QED
    BY <1>2, <2>1, FS_Subset
<1>4. \A i \in W : i \in Int /\ rows[i].started \in Int
  BY <1>1, <1>2, RowTyped
<1> HIDE DEF W
<1>5. /\ DOMAIN show = W
      /\ \A i \in W : show[i].id = i /\ show[i].id \in Int /\ show[i].at \in Int
  BY <1>4
<1>6. {[id |-> i, at |-> rows[i].started] : i \in W} = E
  OBVIOUS
<1> HIDE DEF show
<1>7. Shows(show, W)
  BY <1>3, <1>5 DEF Shows
<1>8. Entries(E) /\ Cardinality(E) = Cardinality(W) /\ {e.id : e \in E} = {show[i].id : i \in W}
  BY <1>7, ShownOnce
<1>9. {show[i].id : i \in W} = W
  BY <1>5
<1>10. /\ DOMAIN pages = 0..Cardinality(W)
       /\ \A p \in DOMAIN pages : pages[p] = Pages(E, size, Offset(p, size))
  BY <1>6 DEF CountRequests, ListRequests, W
<1> HIDE DEF E, pages
<1>11. PagesOf(pages, E, size)
  BY <1>8, <1>10 DEF PagesOf
<1>12. ServesOnce(pages, {e.id : e \in E})
  BY <1>8, <1>11, PagesServe
<1>13. {e.id : e \in E} = W
  BY <1>8, <1>9
<1>14. ServesOnce(pages, W)
  BY <1>12, <1>13
<1>15. QED
  BY <1>14 DEF pages, W

LEMMA WarningsPaged ==
  ASSUME Typed, Listed, IsFiniteSet(warnings), NEW size \in Int
  PROVE  ServesOnce([p \in 0..CountWarnings(warnings, <<>>) |->
                       ListWarnings(warnings, <<>>, size, Offset(p, size))],
                    {w.id : w \in warnings})
<1> DEFINE show == [w \in warnings |-> [id |-> w.id, at |-> w.at]]
           E == {show[w] : w \in warnings}
           pages == [p \in 0..CountWarnings(warnings, <<>>) |->
                       ListWarnings(warnings, <<>>, size, Offset(p, size))]
<1>1. WarningWhere(warnings, <<>>) = warnings
  BY EmptySeq DEF WarningWhere, Wants
<1>2. \A w \in warnings : w.id \in Int /\ w.at \in Int
  BY DEF Typed, TablesTyped, Counters
<1>3. /\ DOMAIN show = warnings
      /\ \A w \in warnings : show[w].id = w.id /\ show[w].id \in Int /\ show[w].at \in Int
  BY <1>2
<1>4. {[id |-> w.id, at |-> w.at] : w \in warnings} = E
  OBVIOUS
<1> HIDE DEF show
<1>5. Shows(show, warnings)
  BY <1>3 DEF Shows, Listed
<1>6. /\ Entries(E) /\ Cardinality(E) = Cardinality(warnings)
      /\ {e.id : e \in E} = {show[w].id : w \in warnings}
  BY <1>5, ShownOnce
<1>7. {show[w].id : w \in warnings} = {w.id : w \in warnings}
  BY <1>3
<1>8. /\ DOMAIN pages = 0..Cardinality(warnings)
      /\ \A p \in DOMAIN pages : pages[p] = Pages(E, size, Offset(p, size))
  BY <1>1, <1>4 DEF CountWarnings, ListWarnings
<1> HIDE DEF E, pages
<1>9. PagesOf(pages, E, size)
  BY <1>6, <1>8 DEF PagesOf
<1>10. ServesOnce(pages, {e.id : e \in E})
  BY <1>6, <1>9, PagesServe
<1>11. ServesOnce(pages, {w.id : w \in warnings})
  BY <1>6, <1>7, <1>10
<1>12. QED
  BY <1>11 DEF pages

LEMMA TextOrderIs ==
  ASSUME IsFiniteSet(DOMAIN sessions)
  PROVE  TextOrder(sessions) \in Bijection(DOMAIN sessions, 1..CountSessions(sessions))
<1> DEFINE D == DOMAIN sessions
           n == CountSessions(sessions)
<1>1. n \in Nat /\ n = Cardinality(D) /\ IsFiniteSet(1..n) /\ Cardinality(1..n) = n
  BY FS_CardinalityType, FS_Interval DEF CountSessions
<1>2. PICK g : g \in Bijection(D, 1..n)
  BY <1>1, FS_SameCardinalityBij DEF ExistsBijection
<1>3. g \in [D -> 1..n] /\ \A s, t \in D : g[s] = g[t] => s = t
  BY <1>2 DEF Bijection, Injection, IsInjective
<1>4. /\ TextOrder(sessions) \in [D -> 1..n]
      /\ \A s, t \in D : TextOrder(sessions)[s] = TextOrder(sessions)[t] => s = t
  BY <1>3 DEF TextOrder
<1>5. TextOrder(sessions) \in Injection(D, 1..n)
  BY <1>4 DEF Injection, IsInjective
<1>6. TextOrder(sessions) \in Surjection(D, 1..n)
  BY <1>1, <1>5, FS_Injection
<1>7. QED
  BY <1>5, <1>6 DEF Bijection

LEMMA SessionsPaged ==
  ASSUME Typed, History, Listed, NEW size \in Int
  PROVE  ServesOnce([p \in 0..CountSessions(sessions) |->
                       ListSessions(sessions, size, Offset(p, size))],
                    1..CountSessions(sessions))
<1> DEFINE D == DOMAIN sessions
           n == CountSessions(sessions)
           place == TextOrder(sessions)
           show == [s \in D |-> [id |-> place[s], at |-> sessions[s].last]]
           E == {show[s] : s \in D}
           pages == [p \in 0..n |-> ListSessions(sessions, size, Offset(p, size))]
<1>1. IsFiniteSet(D) /\ n = Cardinality(D) /\ place \in Bijection(D, 1..n)
  BY TextOrderIs DEF Listed, CountSessions
<1>2. /\ place \in [D -> 1..n] /\ \A s, t \in D : place[s] = place[t] => s = t
      /\ \A i \in 1..n : \E s \in D : place[s] = i
  BY <1>1 DEF Bijection, Injection, Surjection, IsInjective
<1> HIDE DEF n, place, D
<1>3. \A s \in D : sessions[s].last \in Int /\ place[s] \in Int
  BY <1>2, LastTyped DEF D, Typed, Counters
<1>4. /\ DOMAIN show = D
      /\ \A s \in D : show[s].id = place[s] /\ show[s].id \in Int /\ show[s].at \in Int
  BY <1>3
<1>5. {[id |-> place[s], at |-> sessions[s].last] : s \in D} = E
  OBVIOUS
<1> HIDE DEF show
<1>6. Shows(show, D)
  BY <1>1, <1>2, <1>4 DEF Shows
<1>7. Entries(E) /\ Cardinality(E) = Cardinality(D) /\ {e.id : e \in E} = {show[s].id : s \in D}
  BY <1>6, ShownOnce
<1>8. {show[s].id : s \in D} = 1..n
  BY <1>2, <1>4
<1>9. /\ DOMAIN pages = 0..Cardinality(D)
      /\ \A p \in DOMAIN pages : pages[p] = Pages(E, size, Offset(p, size))
  BY <1>1, <1>5 DEF ListSessions, place, D
<1> HIDE DEF E, pages
<1>10. PagesOf(pages, E, size)
  BY <1>7, <1>9 DEF PagesOf
<1>11. ServesOnce(pages, {e.id : e \in E})
  BY <1>7, <1>10, PagesServe
<1>12. ServesOnce(pages, 1..n)
  BY <1>7, <1>8, <1>11
<1>13. QED
  BY <1>12 DEF pages, n

\* Paging serves each row, warning and session once, for pages of any size
\* and whatever the tables hold: the keys of every ORDER BY, ties broken by
\* id, leave the database one order to answer in.
THEOREM SessionsPagesPartition ==
  Spec => /\ []PagesPartition
          /\ [](\A size \in Int : PagedBy(size))
<1>1. Init => Keyed /\ ReferencesIntact /\ Listed
  BY EmptySeq, FS_EmptySet DEF Init, Keyed, CallsKeyed, MemoKeyed, SessionsKeyed, ReferencesIntact,
     Listed
<1>2. Typed /\ History /\ Ledger /\ Listed => \A size \in Int : PagedBy(size)
  <2> SUFFICES ASSUME Typed, History, Ledger, Listed, NEW size \in Int PROVE PagedBy(size)
    OBVIOUS
  <2>1. QED
    BY RequestsPaged, WarningsPaged, SessionsPaged DEF PagedBy, Ledger
<1>3. (\A size \in Int : PagedBy(size)) => PagesPartition
  BY DEF PagesPartition
<1>4. QED
  BY <1>1, <1>2, <1>3, TypedInit, TypedStep, KeyedStep, HistoryInit, HistoryStep, ReferencesStep,
     LedgerInit, LedgerStep, ListedStep, PTL DEF Spec

-----------------------------------------------------------------------------
(***************************************************************************)
(* Statistics.                                                             *)
(***************************************************************************)

\* Whatever holds of the empty set and of one element more holds of every
\* subset of a finite set: Holds names the subsets of S it holds of.
Grows(Holds, S) ==
  /\ {} \in Holds
  /\ \A s \in SUBSET S : \A x \in S \ s : s \in Holds => s \cup {x} \in Holds

LEMMA GrowsToAll ==
  ASSUME NEW S, IsFiniteSet(S), NEW Holds, Grows(Holds, S)
  PROVE  S \in Holds
<1> DEFINE Bad == {n \in Nat : \E s \in SUBSET S : Cardinality(s) = n /\ s \notin Holds}
<1>1. ASSUME NEW m \in Bad, \A k \in Bad : m <= k PROVE FALSE
  <2>1. PICK s \in SUBSET S : Cardinality(s) = m /\ s \notin Holds
    OBVIOUS
  <2>2. PICK x \in s : TRUE
    BY <2>1 DEF Grows
  <2> DEFINE r == s \ {x}
  <2>3. r \in SUBSET S /\ x \in S \ r /\ r \cup {x} = s
    OBVIOUS
  <2>4. Cardinality(r) = m - 1 /\ m - 1 \in Nat
    BY <2>1, Smaller
  <2>5. r \in Holds
    <3> HIDE DEF r
    <3>1. QED
      BY <1>1, <2>3, <2>4
  <2> HIDE DEF r
  <2>6. QED
    BY <2>1, <2>3, <2>5 DEF Grows
<1>2. Bad = {}
  <2> HIDE DEF Bad
  <2>1. Bad \subseteq Nat
    BY DEF Bad
  <2>2. QED
    BY <1>1, <2>1, LeastOf
<1>3. Cardinality(S) \in Nat
  BY FS_CardinalityType
<1>4. QED
  BY <1>2, <1>3

\* Counting is summing up ones.
One(T, x) == IF x \in T THEN 1 ELSE 0

LEMMA CountSums ==
  ASSUME NEW S, IsFiniteSet(S), NEW T
  PROVE  Cardinality(S \cap T) = SumFunction([i \in S |-> One(T, i)])
<1> DEFINE Sum(s) == SumFunction([i \in s |-> One(T, i)])
           Holds == {s \in SUBSET S : Cardinality(s \cap T) = Sum(s)}
<1>1. {} \in Holds
  <2>1. {} \cap T = {} /\ DOMAIN [i \in {} |-> One(T, i)] = {}
    OBVIOUS
  <2>2. Sum({}) = 0
    BY <2>1, SumOfNone
  <2>3. QED
    BY <2>1, <2>2, FS_EmptySet
<1>2. ASSUME NEW s \in SUBSET S, NEW x \in S \ s, s \in Holds PROVE s \cup {x} \in Holds
  <2>1. IsFiniteSet(s) /\ x \notin s
    BY FS_Subset
  <2>2. Sum(s \cup {x}) = Sum(s) + One(T, x)
    <3> DEFINE v == [i \in s |-> One(T, i)]
               w == [i \in s \cup {x} |-> One(T, i)]
    <3>1. /\ DOMAIN v = s /\ DOMAIN w = s \cup {x} /\ \A i \in s : v[i] = w[i]
          /\ \A i \in s \cup {x} : w[i] \in Int
      BY DEF One
    <3>2. w[x] = One(T, x)
      OBVIOUS
    <3> HIDE DEF v, w
    <3>3. SumFunction(w) = SumFunction(v) + w[x]
      BY <2>1, <3>1, SumAdds
    <3>4. QED
      BY <3>2, <3>3 DEF v, w
  <2> DEFINE U == (s \cup {x}) \cap T
  <2>3. U \subseteq s \cup {x} /\ U \cap s = s \cap T /\ (x \in U <=> x \in T)
    OBVIOUS
  <2> HIDE DEF U
  <2>4. Cardinality(U) = Cardinality(U \cap s) + (IF x \in U THEN 1 ELSE 0)
    BY <2>1, <2>3, OneMoreCounted
  <2>5. Cardinality(U) = Cardinality(s \cap T) + One(T, x)
    BY <2>3, <2>4 DEF One
  <2>6. Cardinality(U) = Sum(s \cup {x})
    <3>1. Cardinality(s \cap T) = Sum(s)
      BY <1>2
    <3> HIDE DEF Sum
    <3>2. QED
      BY <2>2, <2>5, <3>1
  <2>7. s \cup {x} \in SUBSET S
    OBVIOUS
  <2> HIDE DEF Sum
  <2>8. QED
    BY <2>6, <2>7 DEF U
<1>3. Grows(Holds, S)
  <2> HIDE DEF Holds
  <2>1. QED
    BY <1>1, <1>2 DEF Grows
<1>4. S \in Holds
  <2> HIDE DEF Holds
  <2>1. QED
    BY <1>3, GrowsToAll
<1>5. QED
  BY <1>4

\* The sum over a set is the sum of the sums over its groups.
Group(label, s, g) == {i \in s : label[i] = g}
SumIn(v, s) == SumFunction([i \in s |-> v[i]])
GroupSums(v, label, s) == [g \in {label[i] : i \in s} |-> SumIn(v, Group(label, s, g))]

LEMMA SumInAdds ==
  ASSUME NEW v, NEW s, IsFiniteSet(s), NEW x, x \notin s, \A i \in s \cup {x} : v[i] \in Int
  PROVE  SumIn(v, s \cup {x}) = SumIn(v, s) + v[x] /\ SumIn(v, s) \in Int
<1> DEFINE f == [i \in s |-> v[i]]
           h == [i \in s \cup {x} |-> v[i]]
<1>0. IsFiniteSet(s) /\ x \notin s
  OBVIOUS
<1>1. /\ DOMAIN f = s /\ DOMAIN h = s \cup {x} /\ \A i \in s : f[i] = h[i]
      /\ \A i \in s \cup {x} : h[i] \in Int
  OBVIOUS
<1>2. h[x] = v[x] /\ \A i \in DOMAIN f : f[i] \in Int
  OBVIOUS
<1> HIDE DEF f, h
<1>3. SumFunction(h) = SumFunction(f) + h[x]
  BY <1>0, <1>1, SumGrows DEF OneLonger
<1>4. SumFunction(f) \in Int
  BY <1>1, <1>2, SumType
<1>5. QED
  BY <1>2, <1>3, <1>4 DEF f, h, SumIn

LEMMA GroupsSum ==
  ASSUME NEW S, IsFiniteSet(S), NEW v, \A i \in S : v[i] \in Int, NEW label
  PROVE  SumFunction(GroupSums(v, label, S)) = SumIn(v, S)
<1> DEFINE By(s) == SumFunction(GroupSums(v, label, s))
           Holds == {s \in SUBSET S : By(s) = SumIn(v, s)}
<1>1. {} \in Holds
  <2>1. DOMAIN GroupSums(v, label, {}) = {} /\ DOMAIN [i \in {} |-> v[i]] = {}
    BY DEF GroupSums
  <2>2. By({}) = 0 /\ SumIn(v, {}) = 0
    BY <2>1, SumOfNone DEF SumIn
  <2>3. QED
    BY <2>2
<1>2. ASSUME NEW s \in SUBSET S, NEW x \in S \ s, s \in Holds PROVE s \cup {x} \in Holds
  <2> DEFINE t == s \cup {x}
             g0 == label[x]
             H == {label[i] : i \in s} \ {g0}
             old == GroupSums(v, label, s)
             new == GroupSums(v, label, t)
             rest == [g \in H |-> old[g]]
  <2>1. IsFiniteSet(s) /\ x \notin s /\ \A i \in t : v[i] \in Int
    BY FS_Subset
  <2>2. \A g : IsFiniteSet(Group(label, s, g)) /\ Group(label, s, g) \in SUBSET s
    BY <2>1, FS_Subset DEF Group
  <2>3. \A g : SumIn(v, Group(label, s, g)) \in Int
    <3>1. ASSUME NEW g PROVE SumIn(v, Group(label, s, g)) \in Int
      <4> DEFINE f == [i \in Group(label, s, g) |-> v[i]]
      <4>1. IsFiniteSet(DOMAIN f) /\ \A i \in DOMAIN f : f[i] \in Int
        BY <2>1, <2>2
      <4> HIDE DEF f
      <4>2. SumFunction(f) \in Int
        BY <4>1, SumType
      <4>3. QED
        BY <4>2 DEF f, SumIn
    <3>2. QED
      BY <3>1
  <2>4. IsFiniteSet(H)
    <3> DEFINE f == [i \in s |-> label[i]]
    <3>1. f \in Surjection(s, {label[i] : i \in s})
      BY DEF Surjection
    <3>2. IsFiniteSet({label[i] : i \in s})
      BY <2>1, <3>1, FS_Surjection
    <3>3. QED
      BY <3>2, FS_Subset
  <2>5. g0 \notin H /\ DOMAIN rest = H /\ DOMAIN new = H \cup {g0}
        /\ DOMAIN old = {label[i] : i \in s}
    BY DEF GroupSums
  <2>6. \A g \in H : /\ rest[g] = SumIn(v, Group(label, s, g))
                     /\ new[g] = SumIn(v, Group(label, s, g))
                     /\ rest[g] \in Int /\ g \in DOMAIN old
    <3>1. \A g \in H : Group(label, t, g) = Group(label, s, g)
      BY DEF Group
    <3>2. \A g \in H : g \in {label[i] : i \in s} /\ g \in {label[i] : i \in t}
      OBVIOUS
    <3>3. \A g \in H : old[g] = SumIn(v, Group(label, s, g))
      BY <3>2 DEF GroupSums
    <3>4. \A g \in H : new[g] = SumIn(v, Group(label, t, g))
      BY <3>2 DEF GroupSums
    <3>5. \A g \in H : rest[g] = old[g]
      OBVIOUS
    <3> HIDE DEF H, rest, old, new, t
    <3>6. \A g \in H : SumIn(v, Group(label, t, g)) = SumIn(v, Group(label, s, g))
      BY <3>1
    <3>7. QED
      BY <2>3, <2>5, <3>2, <3>3, <3>4, <3>5, <3>6
  <2>7. new[g0] = SumIn(v, Group(label, s, g0)) + v[x] /\ new[g0] \in Int
    <3>1. Group(label, t, g0) = Group(label, s, g0) \cup {x} /\ x \notin Group(label, s, g0)
      BY <2>1 DEF Group
    <3>2. \A i \in Group(label, s, g0) \cup {x} : v[i] \in Int
      BY <2>1, <2>2
    <3>3. SumIn(v, Group(label, t, g0)) = SumIn(v, Group(label, s, g0)) + v[x]
      BY <2>2, <3>1, <3>2, SumInAdds
    <3>4. g0 \in {label[i] : i \in t}
      OBVIOUS
    <3>5. new[g0] = SumIn(v, Group(label, t, g0))
      BY <3>4 DEF GroupSums
    <3>6. v[x] \in Int
      BY <2>1
    <3> HIDE DEF new, t, g0
    <3>7. QED
      BY <2>3, <3>3, <3>5, <3>6
  <2>8. SumFunction(new) = SumFunction(rest) + new[g0]
    <3> HIDE DEF new, rest, H, g0
    <3>1. \A g \in H \cup {g0} : new[g] \in Int
      BY <2>6, <2>7
    <3>2. \A g \in H : rest[g] = new[g]
      BY <2>6
    <3>3. g0 \notin H /\ DOMAIN rest = H /\ DOMAIN new = H \cup {g0}
      BY <2>5
    <3>4. QED
      BY <2>4, <3>1, <3>2, <3>3, SumGrows DEF OneLonger
  <2>9. SumFunction(old) = SumFunction(rest) + SumIn(v, Group(label, s, g0))
    <3>1. CASE g0 \in DOMAIN old
      <4>1. DOMAIN old = H \cup {g0} /\ old[g0] = SumIn(v, Group(label, s, g0))
        BY <2>5, <3>1 DEF GroupSums
      <4>2. \A g \in H : rest[g] = old[g]
        OBVIOUS
      <4> HIDE DEF old, rest, H, g0
      <4>3. \A g \in H \cup {g0} : old[g] \in Int
        BY <2>3, <2>6, <4>1, <4>2
      <4>4. g0 \notin H /\ DOMAIN rest = H /\ DOMAIN old = H \cup {g0}
        BY <2>5, <4>1
      <4>6. SumFunction(old) = SumFunction(rest) + old[g0]
        BY <2>4, <4>2, <4>3, <4>4, SumGrows DEF OneLonger
      <4>7. QED
        BY <4>1, <4>6
    <3>2. CASE g0 \notin DOMAIN old
      <4>1. Group(label, s, g0) = {} /\ H = DOMAIN old
        BY <2>5, <3>2 DEF Group
      <4>2. SumIn(v, Group(label, s, g0)) = 0
        <5>1. DOMAIN [i \in Group(label, s, g0) |-> v[i]] = {}
          BY <4>1
        <5>2. QED
          BY <5>1, SumOfNone DEF SumIn
      <4>3. rest = old
        BY <4>1 DEF GroupSums
      <4>4. SumFunction(rest) \in Int
        <5> HIDE DEF rest, H, old
        <5>1. QED
          BY <2>4, <2>5, <2>6, SumType
      <4> HIDE DEF rest, old
      <4>5. QED
        BY <4>2, <4>3, <4>4
    <3>3. QED
      BY <3>1, <3>2
  <2>10. SumIn(v, t) = SumIn(v, s) + v[x]
    BY <2>1, SumInAdds
  <2>11. By(s) = SumIn(v, s) /\ v[x] \in Int /\ SumFunction(rest) \in Int
    <3>1. SumFunction(rest) \in Int
      <4> HIDE DEF rest, H
      <4>1. QED
        BY <2>4, <2>5, <2>6, SumType
    <3>2. QED
      BY <1>2, <2>1, <3>1
  <2>12. SumFunction(old) = SumIn(v, s)
    BY <2>11
  <2>13. v[x] \in Int /\ SumIn(v, Group(label, s, g0)) \in Int
    BY <2>3, <2>11
  <2>14. SumFunction(new) = SumIn(v, t)
    <3> HIDE DEF old, new, rest, t, g0, By
    <3>1. QED
      BY <2>7, <2>8, <2>9, <2>10, <2>11, <2>12, <2>13
  <2>15. QED
    BY <2>14
<1>3. Grows(Holds, S)
  <2> HIDE DEF Holds
  <2>1. QED
    BY <1>1, <1>2 DEF Grows
<1>4. S \in Holds
  <2> HIDE DEF Holds
  <2>1. QED
    BY <1>3, GrowsToAll
<1>5. QED
  BY <1>4

\* What a row adds to a column of the totals.
Columns == {"requests", "tokens", "cost", "unpriced"}
Unpriced == {i \in DOMAIN rows : rows[i].kind.cost = NoCost}
Adds(c) ==
  [i \in DOMAIN rows |->
     CASE c = "requests" -> 1
       [] c = "tokens"   -> rows[i].kind.tokens
       [] c = "cost"     -> Cost(rows, i)
       [] c = "unpriced" -> One(Unpriced, i)]

LEMMA AddsNumbers ==
  ASSUME Typed, NEW c \in Columns
  PROVE  \A i \in DOMAIN rows : Adds(c)[i] \in Int
<1> SUFFICES ASSUME NEW i \in DOMAIN rows PROVE Adds(c)[i] \in Int
  OBVIOUS
<1>1. rows[i].kind.tokens \in Int /\ Cost(rows, i) \in Int /\ One(Unpriced, i) \in Int
  BY RowTyped DEF One
<1>2. QED
  BY <1>1 DEF Adds, Columns

LEMMA RowsFinite ==
  ASSUME Typed, NEW S, S \subseteq DOMAIN rows
  PROVE  IsFiniteSet(S) /\ Cardinality(S) \in Nat
<1>1. S \in SUBSET (1..(nextId - 1)) /\ nextId - 1 \in Int
  BY DEF Typed, TablesTyped, Counters
<1>2. IsFiniteSet(1..(nextId - 1))
  BY <1>1, FS_Interval
<1>3. QED
  BY <1>1, <1>2, FS_Subset, FS_CardinalityType

\* Every column of the totals is a sum over the rows.
LEMMA ColumnsSum ==
  ASSUME Typed, NEW S, S \subseteq DOMAIN rows
  PROVE  \A c \in Columns : Totals(rows, S)[c] = SumIn(Adds(c), S)
<1>0. IsFiniteSet(S)
  BY RowsFinite
<1>1. Totals(rows, S)["requests"] = SumIn(Adds("requests"), S)
  <2>1. [i \in S |-> Adds("requests")[i]] = [i \in S |-> One(S, i)]
    BY DEF Adds, One
  <2>2. S \cap S = S
    OBVIOUS
  <2>3. Cardinality(S \cap S) = SumFunction([i \in S |-> One(S, i)])
    BY <1>0, CountSums
  <2>4. QED
    BY <2>1, <2>2, <2>3 DEF Totals, SumIn
<1>2. Totals(rows, S)["tokens"] = SumIn(Adds("tokens"), S)
  <2>1. [i \in S |-> Adds("tokens")[i]] = [i \in S |-> rows[i].kind.tokens]
    BY DEF Adds
  <2>2. QED
    BY <2>1 DEF Totals, SumIn
<1>3. Totals(rows, S)["cost"] = SumIn(Adds("cost"), S)
  <2>1. [i \in S |-> Adds("cost")[i]] = [i \in S |-> Cost(rows, i)]
    BY DEF Adds
  <2>2. QED
    BY <2>1 DEF Totals, SumIn
<1>4. Totals(rows, S)["unpriced"] = SumIn(Adds("unpriced"), S)
  <2>1. [i \in S |-> Adds("unpriced")[i]] = [i \in S |-> One(Unpriced, i)]
    BY DEF Adds
  <2>2. S \cap Unpriced = {i \in S : rows[i].kind.cost = NoCost}
    BY DEF Unpriced
  <2>3. Cardinality(S \cap Unpriced) = SumFunction([i \in S |-> One(Unpriced, i)])
    BY <1>0, CountSums
  <2>4. QED
    BY <2>1, <2>2, <2>3 DEF Totals, SumIn
<1>5. QED
  BY <1>1, <1>2, <1>3, <1>4 DEF Columns

\* A GROUP BY loses no row and counts none twice, whatever the label.
LEMMA GroupedSums ==
  ASSUME Typed, NEW S, S \subseteq DOMAIN rows, NEW label, DOMAIN label = S
  PROVE  SumOf(Grouped(rows, label)) = Totals(rows, S)
<1> DEFINE groups == Grouped(rows, label)
<1>1. /\ DOMAIN groups = {label[i] : i \in S}
      /\ \A g \in DOMAIN groups : groups[g] = Totals(rows, Group(label, S, g))
  BY DEF Grouped, Range, Group
<1> HIDE DEF groups
<1>2. ASSUME NEW c \in Columns
      PROVE  SumFunction([g \in DOMAIN groups |-> groups[g][c]]) = Totals(rows, S)[c]
  <2>1. \A g : Group(label, S, g) \subseteq DOMAIN rows
    BY DEF Group
  <2>2. \A g \in DOMAIN groups : groups[g][c] = SumIn(Adds(c), Group(label, S, g))
    BY <1>1, <2>1, ColumnsSum
  <2>3. [g \in DOMAIN groups |-> groups[g][c]] = GroupSums(Adds(c), label, S)
    BY <1>1, <2>2 DEF GroupSums
  <2>4. IsFiniteSet(S) /\ \A i \in S : Adds(c)[i] \in Int
    BY AddsNumbers, RowsFinite
  <2>5. SumFunction(GroupSums(Adds(c), label, S)) = SumIn(Adds(c), S)
    BY <2>4, GroupsSum
  <2>6. QED
    BY <2>3, <2>5, ColumnsSum
<1>3. SumOf(groups) = [c \in Columns |-> Totals(rows, S)[c]]
  BY <1>2 DEF SumOf, Columns
<1>4. Totals(rows, S) = [c \in Columns |-> Totals(rows, S)[c]]
  BY DEF Totals, Columns
<1>5. QED
  BY <1>3, <1>4 DEF groups

LEMMA ReportsAddUp ==
  ASSUME Typed, NEW f, DOMAIN f \subseteq {"since", "until"}
  PROVE  GroupsAddUp(f)
<1> DEFINE S == StatsWindow(rows, f)
           models == [i \in S |-> ModelLabel(rows[i])]
           sources == [i \in S |-> SourceLabel(rows[i])]
           periods == [i \in S |-> (rows[i].started + (-1)) \div 2]
<1>1. S \subseteq DOMAIN rows
  BY DEF StatsWindow
<1>2. StatsSummary(rows, warnings, f).totals = Totals(rows, S)
  BY DEF StatsSummary
<1>3. /\ StatsByModel(rows, f) = Grouped(rows, models)
      /\ StatsByCostSource(rows, f) = Grouped(rows, sources)
      /\ StatsByPeriod(rows, f, 2, -1) = Grouped(rows, periods)
  BY DEF StatsByModel, StatsByCostSource, StatsByPeriod
<1>4. DOMAIN models = S /\ DOMAIN sources = S /\ DOMAIN periods = S
  OBVIOUS
<1>5. CountRequests(rows, warnings, f) = Cardinality(S)
  <2>1. RequestWhere(rows, warnings, f) = S
    BY DEF RequestWhere, Wants
  <2>2. QED
    BY <2>1 DEF CountRequests
<1>6. Totals(rows, S).requests = Cardinality(S)
  BY DEF Totals
<1> HIDE DEF S, models, sources, periods
<1>7. /\ SumOf(Grouped(rows, models)) = Totals(rows, S)
      /\ SumOf(Grouped(rows, sources)) = Totals(rows, S)
      /\ SumOf(Grouped(rows, periods)) = Totals(rows, S)
  BY <1>1, <1>4, GroupedSums
<1>8. QED
  BY <1>2, <1>3, <1>5, <1>6, <1>7 DEF GroupsAddUp

\* What percentileMs picks from: the values in order, shortest first.
Ascends(s, value) ==
  LET n == Cardinality(DOMAIN value) IN
  /\ s \in [1..n -> DOMAIN value]
  /\ \A i, j \in 1..n : i < j => s[i] # s[j] /\ value[s[i]] <= value[s[j]]

LEMMA AscentExists ==
  ASSUME NEW value, IsFiniteSet(DOMAIN value), \A i \in DOMAIN value : i \in Int /\ value[i] \in Int
  PROVE  \E s : Ascends(s, value)
<1> DEFINE S == DOMAIN value
           R == {q \in S \X S : value[q[1]] < value[q[2]]
                                  \/ (value[q[1]] = value[q[2]] /\ q[1] < q[2])}
<1>1. \A a, b \in S : <<a, b>> \in R <=> value[a] < value[b] \/ (value[a] = value[b] /\ a < b)
  OBVIOUS
<1> HIDE DEF R
<1>2. OrderOn(R, S)
  BY <1>1 DEF OrderOn
<1>3. PICK s : Sorts(s, R, S)
  <2> HIDE DEF S
  <2>1. QED
    BY <1>2, SortExists DEF S
<1>4. ASSUME NEW i \in 1..Cardinality(S), NEW j \in 1..Cardinality(S), i < j
      PROVE  s[i] # s[j] /\ value[s[i]] <= value[s[j]]
  <2>1. s[i] \in S /\ s[j] \in S /\ <<s[i], s[j]>> \in R
    BY <1>3, <1>4 DEF Sorts
  <2>2. QED
    BY <1>1, <2>1
<1>5. QED
  BY <1>3, <1>4 DEF Sorts, Ascends

\* The nearest rank divides the values: fewer than p percent are below it,
\* at least p percent are not above it.
LEMMA NearestRankDivides ==
  ASSUME NEW value, IsFiniteSet(DOMAIN value), DOMAIN value # {},
         \A i \in DOMAIN value : i \in Int /\ value[i] \in Int,
         NEW p \in 1..100, NEW d, d = Percentile(value, p)
  PROVE  /\ 100 * Cardinality({i \in DOMAIN value : value[i] < d}) < p * Cardinality(DOMAIN value)
         /\ 100 * Cardinality({i \in DOMAIN value : value[i] <= d}) >= p * Cardinality(DOMAIN value)
<1> DEFINE S == DOMAIN value
           n == Cardinality(S)
           sorted == CHOOSE s \in [1..n -> S] :
                       \A i, j \in 1..n : i < j => s[i] # s[j] /\ value[s[i]] <= value[s[j]]
           rank == (p * n + 99) \div 100
           k == Min({Max({rank, 1}), n})
<1>1. n \in Nat /\ n # 0
  BY FS_CardinalityType, FS_EmptySet
<1>2. Ascends(sorted, value)
  BY AscentExists DEF Ascends
<1>3. /\ sorted \in [1..n -> S]
      /\ \A i, j \in 1..n : i < j => sorted[i] # sorted[j] /\ value[sorted[i]] <= value[sorted[j]]
  BY <1>2 DEF Ascends
<1>4. d = value[sorted[k]]
  BY <1>1 DEF Percentile
<1>5. /\ rank \in 1..n /\ 100 * rank >= p * n /\ 100 * (rank - 1) < p * n
  <2> DEFINE pn == p * n
  <2>1. pn \in Int /\ pn >= 1 /\ pn <= 100 * n
    <3>1. pn \in Int
      BY <1>1
    <3>2. 1 * n <= p * n /\ p * n <= 100 * n
      BY <1>1
    <3>3. QED
      BY <1>1, <3>1, <3>2
  <2> HIDE DEF pn
  <2>2. LET r == (pn + 99) \div 100 IN
        r \in Int /\ 100 * r >= pn /\ 100 * (r - 1) < pn /\ r >= 1 /\ r <= n
    BY <1>1, <2>1
  <2>3. QED
    BY <1>1, <2>2 DEF pn
<1> HIDE DEF n, rank, sorted
<1>6. k = rank
  <2>0. rank \in Int /\ rank >= 1 /\ n \in Int /\ rank <= n
    BY <1>1, <1>5
  <2>1. /\ Min({rank, 1}) = IF rank <= 1 THEN rank ELSE 1
        /\ Max({rank, 1}) = IF rank >= 1 THEN rank ELSE 1
    BY <2>0, TwoExtremes
  <2>2. /\ Min({rank, n}) = IF rank <= n THEN rank ELSE n
        /\ Max({rank, n}) = IF rank >= n THEN rank ELSE n
    BY <2>0, TwoExtremes
  <2>3. QED
    BY <2>0, <2>1, <2>2
<1> HIDE DEF k
<1> DEFINE First(m) == {sorted[i] : i \in 1..m}
<1>7. /\ \A e \in S : \E i \in 1..n : sorted[i] = e
      /\ \A m \in 0..n : IsFiniteSet(First(m)) /\ Cardinality(First(m)) = m
  <2>1. \A i, j \in 1..n : i < j => sorted[i] # sorted[j]
    BY <1>3
  <2>2. IsFiniteSet(S) /\ n = Cardinality(S)
    BY DEF n
  <2> HIDE DEF S
  <2>3. sorted \in [1..Cardinality(S) -> S]
        /\ \A i, j \in 1..Cardinality(S) : i < j => sorted[i] # sorted[j]
    BY <1>3, <2>1, <2>2
  <2>4. \A e \in S : \E i \in 1..Cardinality(S) : sorted[i] = e
    BY <2>2, <2>3, ListsAll
  <2>5. Counted(sorted, Cardinality(S))
    BY <2>2, <2>3, ListsAll
  <2>6. QED
    BY <2>2, <2>4, <2>5 DEF Counted
<1>8. \A i \in 1..n : value[sorted[i]] \in Int
  BY <1>3
<1>9. k \in 1..n /\ k \in Int /\ k - 1 \in 0..n /\ k \in 0..n
  BY <1>1, <1>5, <1>6
<1> DEFINE Below == {i \in S : value[i] < d}
           NotAbove == {i \in S : value[i] <= d}
<1>10. Below \subseteq First(k - 1)
  <2>1. ASSUME NEW e \in S, value[e] < d PROVE \E i \in 1..(k - 1) : e = sorted[i]
    <3>1. PICK i \in 1..n : sorted[i] = e
      BY <1>7
    <3>2. ~ (k < i) /\ k # i
      BY <1>3, <1>4, <1>8, <1>9, <2>1, <3>1
    <3>3. i \in 1..(k - 1)
      BY <1>1, <1>9, <3>2
    <3>4. QED
      BY <3>1, <3>3
  <2>2. QED
    BY <2>1
<1>11. First(k) \subseteq NotAbove
  <2>1. ASSUME NEW i \in 1..k PROVE sorted[i] \in S /\ value[sorted[i]] <= d
    <3>1. i \in 1..n /\ (i = k \/ i < k)
      BY <1>1, <1>9
    <3>2. QED
      BY <1>3, <1>4, <1>8, <1>9, <3>1
  <2>2. QED
    BY <2>1
<1>12. Cardinality(Below) \in Nat /\ Cardinality(Below) <= k - 1
  <2>1. IsFiniteSet(First(k - 1)) /\ Cardinality(First(k - 1)) = k - 1
    BY <1>7, <1>9
  <2> HIDE DEF First, Below
  <2>2. Below \in SUBSET First(k - 1)
    BY <1>10
  <2>3. QED
    BY <2>1, <2>2, FS_Subset, FS_CardinalityType
<1>13. Cardinality(NotAbove) \in Nat /\ Cardinality(NotAbove) >= k
  <2>1. IsFiniteSet(First(k)) /\ Cardinality(First(k)) = k
    BY <1>7, <1>9
  <2>2. IsFiniteSet(NotAbove)
    BY FS_Subset
  <2> HIDE DEF First, NotAbove
  <2>3. First(k) \in SUBSET NotAbove
    BY <1>11
  <2>4. QED
    BY <2>1, <2>2, <2>3, FS_Subset, FS_CardinalityType
<1> DEFINE pn == p * n
           below == Cardinality(Below)
           upto == Cardinality(NotAbove)
<1>14. pn \in Int /\ 100 * k >= pn /\ 100 * (k - 1) < pn
  BY <1>1, <1>5, <1>6
<1>15. below \in Nat /\ upto \in Nat /\ below <= k - 1 /\ upto >= k
  BY <1>12, <1>13
<1> HIDE DEF pn, below, upto
<1>16. 100 * below < pn /\ 100 * upto >= pn
  BY <1>9, <1>14, <1>15
<1>17. QED
  BY <1>16 DEF pn, below, upto, n

LEMMA DurationsDivide ==
  ASSUME Typed, NEW f
  PROVE  PercentilesDivide(f)
<1> DEFINE S == StatsWindow(rows, f)
           duration == [i \in S |-> rows[i].kind.duration]
<1>1. S \subseteq DOMAIN rows /\ DOMAIN duration = S
  BY DEF StatsWindow
<1>2. IsFiniteSet(S)
  <2> HIDE DEF S
  <2>1. QED
    BY <1>1, RowsFinite
<1>3. \A i \in S : i \in Int /\ duration[i] = rows[i].kind.duration /\ duration[i] \in Int
  <2>1. \A i \in DOMAIN rows : i \in Int /\ rows[i].kind \in Kinds
    BY DEF Typed, TablesTyped, RowsAt, Counters
  <2>2. \A i \in DOMAIN rows : rows[i].kind.duration \in Int
    BY <2>1, SessionsAssumption
  <2>3. QED
    BY <1>1, <2>1, <2>2
<1>4. /\ StatsSummary(rows, warnings, f).p50 = Percentile(duration, 50)
      /\ StatsSummary(rows, warnings, f).p95 = Percentile(duration, 95)
  BY DEF StatsSummary
<1> HIDE DEF duration, S
<1>5. ASSUME NEW p \in 1..100 PROVE Divides(Percentile(duration, p), f, p)
  <2> DEFINE d == Percentile(duration, p)
  <2>1. CASE S = {}
    BY <2>1 DEF Divides, S
  <2>2. CASE S # {}
    <3>1. IsFiniteSet(DOMAIN duration) /\ DOMAIN duration # {}
          /\ \A i \in DOMAIN duration : i \in Int /\ duration[i] \in Int
      BY <1>1, <1>2, <1>3, <2>2
    <3>2. /\ 100 * Cardinality({i \in DOMAIN duration : duration[i] < d})
               < p * Cardinality(DOMAIN duration)
          /\ 100 * Cardinality({i \in DOMAIN duration : duration[i] <= d})
               >= p * Cardinality(DOMAIN duration)
      BY <3>1, NearestRankDivides
    <3> HIDE DEF d
    <3>3. /\ {i \in DOMAIN duration : duration[i] < d} = {i \in S : rows[i].kind.duration < d}
          /\ {i \in DOMAIN duration : duration[i] <= d} = {i \in S : rows[i].kind.duration <= d}
      BY <1>1, <1>3
    <3>4. Divides(d, f, p)
      BY <1>1, <3>2, <3>3 DEF Divides, S
    <3>5. QED
      BY <3>4 DEF d
  <2>3. QED
    BY <2>1, <2>2
<1>6. Divides(Percentile(duration, 50), f, 50) /\ Divides(Percentile(duration, 95), f, 95)
  BY <1>5
<1>7. QED
  BY <1>4, <1>6 DEF PercentilesDivide

\* What the unpriced purge takes is of the unpriced source and has no cost.
LEMMA UnpricedAgree ==
  ASSUME Typed
  PROVE  /\ CountUnpriced(rows) > 0 =>
              CountUnpriced(rows) <= StatsByCostSource(rows, <<>>)["unpriced"].requests
         /\ \A i \in UnpricedRows(rows) : rows[i].kind.cost = NoCost
<1> DEFINE source == [i \in DOMAIN rows |-> SourceLabel(rows[i])]
           G == {i \in DOMAIN rows : source[i] = "unpriced"}
           U == UnpricedRows(rows)
<1>1. StatsWindow(rows, <<>>) = DOMAIN rows
  <2>1. DOMAIN <<>> = {}
    BY EmptySeq
  <2>2. \A t : InWindow(t, <<>>)
    BY <2>1 DEF InWindow
  <2>3. QED
    BY <2>2 DEF StatsWindow
<1>2. StatsByCostSource(rows, <<>>) = Grouped(rows, source)
  BY <1>1 DEF StatsByCostSource
<1>3. U \in SUBSET G
  BY DEF UnpricedRows
<1>4. IsFiniteSet(G) /\ IsFiniteSet(U)
  <2>1. G \subseteq DOMAIN rows /\ U \subseteq DOMAIN rows
    BY <1>3
  <2> HIDE DEF G, U
  <2>2. QED
    BY <2>1, RowsFinite
<1>5. Cardinality(U) <= Cardinality(G) /\ Cardinality(U) \in Nat
  <2> HIDE DEF G, U
  <2>1. QED
    BY <1>3, <1>4, FS_Subset, FS_CardinalityType
<1>6. ASSUME U # {} PROVE Grouped(rows, source)["unpriced"].requests = Cardinality(G)
  <2>1. PICK i \in DOMAIN rows : source[i] = "unpriced"
    BY <1>3, <1>6
  <2>2. "unpriced" \in Range(source)
    BY <2>1 DEF Range
  <2>3. Grouped(rows, source)["unpriced"] = Totals(rows, G)
    BY <2>2 DEF Grouped
  <2>4. Totals(rows, G).requests = Cardinality(G)
    BY DEF Totals
  <2> HIDE DEF G, source
  <2>5. QED
    BY <2>3, <2>4
<1>7. U = {} => Cardinality(U) = 0
  BY FS_EmptySet
<1>8. ASSUME NEW i \in U PROVE rows[i].kind.cost = NoCost
  <2>1. i \in DOMAIN rows /\ SourceLabel(rows[i]) = "unpriced"
    BY DEF UnpricedRows
  <2>2. rows[i].kind \in Kinds
    BY <2>1 DEF Typed, TablesTyped, RowsAt
  <2>3. rows[i].kind.source \in {NoSource, "unpriced"}
    BY <2>1 DEF SourceLabel
  <2>4. QED
    BY <2>2, <2>3, SessionsAssumption
<1> HIDE DEF U, G, source
<1>9. QED
  BY <1>2, <1>5, <1>6, <1>7, <1>8 DEF CountUnpriced, U

\* Every warning is in the group of its kind and in no other.
LEMMA WarningGroupsAddUp ==
  ASSUME IsFiniteSet(warnings)
  PROVE  CountWarnings(warnings, <<>>)
           = SumFunction([g \in WarningSummary(warnings, <<>>) |-> g.count])
<1> DEFINE Of(k) == {w \in warnings : w.kind = k}
           Summed(k) == [kind |-> k, count |-> Cardinality(Of(k)),
                         newest |-> Max({w.at : w \in Of(k)})]
           label == [w \in warnings |-> Summed(w.kind)]
           one == [w \in warnings |-> One(warnings, w)]
<1>1. WarningWhere(warnings, <<>>) = warnings
  BY EmptySeq DEF WarningWhere, Wants
<1>2. WarningSummary(warnings, <<>>) = {label[w] : w \in warnings}
  BY <1>1 DEF WarningSummary
<1>3. ASSUME NEW g \in {label[w] : w \in warnings}
      PROVE  g.count = SumIn(one, Group(label, warnings, g))
  <2>1. PICK v \in warnings : g = Summed(v.kind)
    OBVIOUS
  <2>2. g.count = Cardinality(Of(v.kind)) /\ g.kind = v.kind
    BY <2>1
  <2>3. \A w \in warnings : label[w] = Summed(w.kind) /\ Summed(w.kind).kind = w.kind
    OBVIOUS
  <2> HIDE DEF Summed, label
  <2>4. Group(label, warnings, g) = Of(v.kind)
    BY <2>1, <2>2, <2>3 DEF Group
  <2> DEFINE T == Of(v.kind)
  <2>5. IsFiniteSet(T)
    BY FS_Subset
  <2>6. [w \in T |-> one[w]] = [w \in T |-> One(T, w)] /\ T \cap T = T
    BY DEF One
  <2> HIDE DEF T
  <2>7. Cardinality(T \cap T) = SumFunction([i \in T |-> One(T, i)])
    BY <2>5, CountSums
  <2>8. SumIn(one, T) = Cardinality(T)
    BY <2>6, <2>7 DEF SumIn
  <2>9. QED
    BY <2>2, <2>4, <2>8 DEF T
<1>4. [g \in WarningSummary(warnings, <<>>) |-> g.count] = GroupSums(one, label, warnings)
  <2> HIDE DEF label, one
  <2>1. QED
    BY <1>2, <1>3 DEF GroupSums
<1>5. \A w \in warnings : one[w] \in Int
  BY DEF One
<1>6. SumIn(one, warnings) = Cardinality(warnings)
  <2>1. [i \in warnings |-> one[i]] = [i \in warnings |-> One(warnings, i)]
        /\ warnings \cap warnings = warnings
    OBVIOUS
  <2>2. Cardinality(warnings \cap warnings) = SumFunction([i \in warnings |-> One(warnings, i)])
    BY CountSums
  <2>3. QED
    BY <2>1, <2>2 DEF SumIn
<1> HIDE DEF one, label
<1>7. SumFunction(GroupSums(one, label, warnings)) = SumIn(one, warnings)
  BY <1>5, GroupsSum
<1>8. QED
  BY <1>1, <1>4, <1>6, <1>7 DEF CountWarnings

\* The statistics agree with one another and with the lists, whatever the
\* tables hold and for every window: grouping neither loses a row nor counts
\* one twice, and the percentiles divide the calls (StatsSummary,
\* StatsByModel, StatsByCostSource, StatsByPeriod, percentileMs,
\* WarningSummary).
THEOREM SessionsReportsAgree ==
  Spec => /\ []ReportsAgree
          /\ [](\A f : DOMAIN f \subseteq {"since", "until"} =>
                  GroupsAddUp(f) /\ PercentilesDivide(f))
<1>1. Init => Keyed /\ ReferencesIntact
  BY EmptySeq DEF Init, Keyed, CallsKeyed, MemoKeyed, SessionsKeyed, ReferencesIntact
<1>2. Typed /\ Ledger => \A f : DOMAIN f \subseteq {"since", "until"} =>
                            GroupsAddUp(f) /\ PercentilesDivide(f)
  BY ReportsAddUp, DurationsDivide
<1>3. Typed /\ Ledger => ReportsAgree
  <2> SUFFICES ASSUME Typed, Ledger PROVE ReportsAgree
    OBVIOUS
  <2>1. \A f \in {<<>>} \cup [since : 0..MaxTime, until : 1..MaxTime] :
          DOMAIN f \subseteq {"since", "until"}
    BY EmptySeq
  <2>2. CountWarnings(warnings, <<>>)
          = SumFunction([g \in WarningSummary(warnings, <<>>) |-> g.count])
    BY WarningGroupsAddUp DEF Ledger
  <2>3. QED
    BY <1>2, <2>1, <2>2, UnpricedAgree DEF ReportsAgree
<1>4. QED
  BY <1>1, <1>2, <1>3, TypedInit, TypedStep, KeyedStep, HistoryInit, HistoryStep, ReferencesStep,
     LedgerInit, LedgerStep, PTL DEF Spec

=============================================================================
