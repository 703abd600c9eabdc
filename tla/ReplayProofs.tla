---------------------------- MODULE ReplayProofs ----------------------------
(***************************************************************************)
(* Which row a replay's reply names, and how many rows a replay leaves, for *)
(* any number of route calls and originals, any sink and any clock.        *)
(***************************************************************************)
EXTENDS Replay, FiniteSetTheorems, SequenceTheorems, TLAPS

----------------------------------------------------------------------------
(* The order of a list of replays.                                         *)

Later(r, s) == r.started > s.started \/ (r.started = s.started /\ r.id > s.id)

Row == [id : Nat, of : Nat, started : Nat, by : Handlers]
Sunk == [of : Originals, started : Nat, by : Handlers]

LEMMA LaterIsOrder ==
  ASSUME NEW r \in Row, NEW s \in Row, NEW t \in Row
  PROVE  /\ Later(r, s) => ~ Later(s, r)
         /\ Later(r, s) /\ Later(s, t) => Later(r, t)
         /\ r.id # s.id => Later(r, s) \/ Later(s, r)
  BY DEF Later, Row

\* Any rows there are have a newest one.
HaveNewest == \A T \in SUBSET kept : T # {} => \E r \in T : \A s \in T \ {r} : Later(r, s)

----------------------------------------------------------------------------
(* The inductive invariant.                                                *)

Stages == {"idle", "post", "get", "snapshot", "send", "upstream", "await", "replied"}

Typed ==
  /\ freeId \in Nat \ {0} /\ clock \in Nat
  /\ kept \subseteq Row /\ gone \subseteq Originals /\ sunk \in Seq(Sunk)
  /\ h \in [Handlers -> [at : Stages, of : Originals \cup {0}, noCapture : BOOLEAN, before : Nat,
                         started : Nat, code : Nat, row : Nat]]
  /\ \A x \in Handlers : h[x].at \notin {"idle", "replied"} => h[x].of \in Originals

IdsGrow ==
  /\ \A r \in kept : r.id \in 1..(freeId - 1)
  /\ \A r, s \in kept : r.id = s.id => r = s
  /\ \A x \in Handlers : h[x].before < freeId

Sent(y) == h[y].at \in {"await", "replied"}

\* A call in the sink or in the store is of a route call that has sent it.
CallsAreOurs ==
  /\ \A i \in DOMAIN sunk : Sent(sunk[i].by) /\ sunk[i].of = h[sunk[i].by].of
  /\ \A r \in kept : Sent(r.by) /\ r.of \in {h[r.by].of, 0}
  /\ \A r \in kept : r.of \notin gone

RivalsKnown ==
  \A x, y \in Handlers :
    x # y /\ OnItsWay(x) /\ Pending(y) /\ h[x].of = h[y].of => {x, y} \in rivals

\* A row of the same original is the call's own, a rival's, or one that the
\* row of the snapshot, while it lasts, hides.
Hidden(x, r) ==
  /\ h[x].before # 0
  /\ \A b \in kept : b.id = h[x].before => b.of = h[x].of /\ (b = r \/ Later(b, r))

RowsKnown ==
  \A x \in Handlers : h[x].at \in {"send", "upstream", "await"} =>
    \A r \in kept : r.of = h[x].of => r.by = x \/ {x, r.by} \in rivals \/ Hidden(x, r)

Inv ==
  /\ Typed /\ HaveNewest /\ IdsGrow /\ CallsAreOurs /\ RivalsKnown /\ RowsKnown
  /\ ReplyNamesItsReplay

LEMMA InitHolds ==
  ASSUME ReplayInit
  PROVE  Inv
<1> USE DEF ReplayInit
<1>1. Cardinality(Originals) \in Nat /\ Originals \subseteq Nat
  BY ReplayAssumption, FS_CardinalityType
<1>2. Typed
  BY <1>1, EmptySeq DEF Typed, Stages, NoCall
<1>3. HaveNewest /\ RowsKnown
  BY DEF HaveNewest, RowsKnown
<1>4. IdsGrow /\ CallsAreOurs
  BY <1>1 DEF IdsGrow, CallsAreOurs, NoCall
<1>5. RivalsKnown /\ ReplyNamesItsReplay
  BY DEF RivalsKnown, OnItsWay, ReplyNamesItsReplay, NoCall
<1> QED
  BY <1>2, <1>3, <1>4, <1>5 DEF Inv

\* What the query answers.
LEMMA NewestIsNewest ==
  ASSUME Inv, NEW of \in Originals
  PROVE  /\ NewestReplay(of) \in Nat
         /\ \/ /\ NewestReplay(of) = 0 /\ \A r \in kept : r.of # of
            \/ \E r \in kept : /\ r.of = of /\ r.id = NewestReplay(of)
                               /\ \A s \in kept \ {r} : s.of = of => Later(r, s)
<1> DEFINE mine == {r \in kept : r.of = of}
<1>1. CASE mine = {}
  <2>1. NewestReplay(of) = 0
    BY <1>1 DEF NewestReplay
  <2> QED
    BY <1>1, <2>1
<1>2. CASE mine # {}
  <2> DEFINE r == CHOOSE r \in mine : \A s \in mine \ {r} : Later(r, s)
  <2>1. \E m \in mine : \A s \in mine \ {m} : Later(m, s)
    BY <1>2 DEF Inv, HaveNewest
  <2>2. r \in mine /\ \A s \in mine \ {r} : Later(r, s)
    <3> HIDE DEF mine
    <3> QED
      BY <2>1
  <2>3. NewestReplay(of) = r.id
    BY <1>2 DEF NewestReplay, Later
  <2>4. r.id \in Nat
    BY <2>2 DEF Inv, Typed, Row
  <2> HIDE DEF r
  <2> QED
    BY <2>2, <2>3, <2>4
<1> QED
  BY <1>1, <1>2

----------------------------------------------------------------------------
(* Steps of the route, which leave rows, sink and clock alone.             *)

CallRecords == [at : Stages, of : Originals \cup {0}, noCapture : BOOLEAN, before : Nat,
                started : Nat, code : Nat, row : Nat]

LEMMA RecordKeepsShape ==
  ASSUME NEW c \in CallRecords, NEW at \in Stages
  PROVE  /\ \A of \in Originals \cup {0} : [c EXCEPT !.at = at, !.of = of] \in CallRecords
         /\ \A n \in Nat : [c EXCEPT !.at = at, !.before = n] \in CallRecords
         /\ \A n \in Nat : [c EXCEPT !.at = at, !.started = n] \in CallRecords
<1>1. ASSUME NEW of \in Originals \cup {0} PROVE [c EXCEPT !.at = at, !.of = of] \in CallRecords
  BY DEF CallRecords
<1>2. ASSUME NEW n \in Nat PROVE [c EXCEPT !.at = at, !.before = n] \in CallRecords
  BY DEF CallRecords
<1>3. ASSUME NEW n \in Nat PROVE [c EXCEPT !.at = at, !.started = n] \in CallRecords
  BY DEF CallRecords
<1> QED
  BY <1>1, <1>2, <1>3

Named(x) ==
  h[x].at = "replied" /\ h[x].row # 0 =>
    /\ h[x].row > h[x].before
    /\ h[x].row < freeId
    /\ \A r \in kept : r.id = h[x].row =>
         /\ r.of \in {h[x].of, 0}
         /\ \/ r.by = x
            \/ {x, r.by} \in rivals
            \/ h[x].before # 0 /\ \A s \in kept : s.id # h[x].before

RowsKnownTo(x) ==
  h[x].at \in {"send", "upstream", "await"} =>
    \A r \in kept : r.of = h[x].of => r.by = x \/ {x, r.by} \in rivals \/ Hidden(x, r)

OnlyCall(x) ==
  /\ UNCHANGED <<kept, gone, freeId, sunk, clock>>
  /\ h' \in [Handlers -> CallRecords]
  /\ \A y \in Handlers \ {x} : h'[y] = h[y]

\* What one call's step has to show for itself.
LEMMA CallStepKeeps ==
  ASSUME Inv, NEW x \in Handlers, OnlyCall(x), rivals \subseteq rivals',
         h'[x].at \notin {"idle", "replied"} => h'[x].of \in Originals,
         h'[x].before < freeId,
         Sent(x) => h'[x].at \in {"await", "replied"} /\ h'[x].of = h[x].of,
         RivalsKnown', RowsKnownTo(x)', Named(x)'
  PROVE  Inv'
<1> USE DEF Inv, OnlyCall
<1>1. Typed'
  BY DEF Typed, CallRecords
<1>2. HaveNewest' /\ IdsGrow'
  BY DEF HaveNewest, IdsGrow
<1>3. CallsAreOurs'
  <2>1. \A y \in Handlers : Sent(y) => Sent(y)' /\ h'[y].of = h[y].of
    BY DEF Sent
  <2>2. \A i \in DOMAIN sunk : sunk[i].by \in Handlers
    <3>1. sunk \in Seq(Sunk)
      BY DEF Typed
    <3>2. \A i \in DOMAIN sunk : sunk[i] \in Sunk
      BY <3>1
    <3> QED
      BY <3>2 DEF Sunk
  <2>3. \A r \in kept : r.by \in Handlers
    BY DEF Typed, Row
  <2> QED
    BY <2>1, <2>2, <2>3 DEF CallsAreOurs
<1>4. RowsKnown'
  <2>1. \A y \in Handlers \ {x} : RowsKnownTo(y) => RowsKnownTo(y)'
    BY DEF RowsKnownTo, Hidden
  <2>2. \A y \in Handlers : RowsKnownTo(y)
    BY DEF RowsKnown, RowsKnownTo
  <2> QED
    BY <2>1, <2>2 DEF RowsKnown, RowsKnownTo
<1>5. ReplyNamesItsReplay'
  <2>1. \A y \in Handlers \ {x} : Named(y) => Named(y)'
    BY DEF Named
  <2>2. \A y \in Handlers : Named(y)
    BY DEF ReplyNamesItsReplay, Named
  <2> QED
    BY <2>1, <2>2 DEF ReplyNamesItsReplay, Named
<1> QED
  BY <1>1, <1>2, <1>3, <1>4, <1>5

\* A step that puts nobody on the way makes no rivals.
LEMMA NoNewRivals ==
  ASSUME Inv, NEW x \in Handlers, OnlyCall(x), rivals' = rivals,
         OnItsWay(x)' => OnItsWay(x) /\ h'[x].of = h[x].of,
         OnItsWay(x) => h'[x].of = h[x].of,
         Sent(x) => h'[x].of = h[x].of
  PROVE  RivalsKnown'
<1> USE DEF Inv, OnlyCall
<1>1. \A y \in Handlers : Pending(y)' => Pending(y) /\ h'[y].of = h[y].of
  <2> SUFFICES ASSUME NEW y \in Handlers, Pending(y)' PROVE Pending(y) /\ h'[y].of = h[y].of
    OBVIOUS
  <2>1. CASE y # x
    BY <2>1 DEF Pending, OnItsWay
  <2>2. CASE y = x
    <3>1. Pending(x)
      BY <2>2 DEF Pending
    <3>2. OnItsWay(x) \/ Sent(x)
      BY <3>1 DEF Pending, CallsAreOurs
    <3> QED
      BY <2>2, <3>1, <3>2
  <2> QED
    BY <2>1, <2>2
<1>2. \A y \in Handlers : OnItsWay(y)' => OnItsWay(y) /\ h'[y].of = h[y].of
  BY DEF OnItsWay
<1> QED
  BY <1>1, <1>2 DEF RivalsKnown

LEMMA ReplySets ==
  ASSUME Inv, NEW x \in Handlers, NEW code \in Nat, NEW row \in Nat, Reply(x, code, row)
  PROVE  /\ h' \in [Handlers -> CallRecords]
         /\ \A y \in Handlers \ {x} : h'[y] = h[y]
         /\ h'[x].at = "replied" /\ h'[x].row = row
         /\ h'[x].of = h[x].of /\ h'[x].before = h[x].before
<1>1. h \in [Handlers -> CallRecords] /\ "replied" \in Stages
  BY DEF Inv, Typed, CallRecords, Stages
<1>2. h'[x] = [h[x] EXCEPT !.at = "replied", !.code = code, !.row = row]
  BY <1>1 DEF Reply
<1>3. h'[x] \in CallRecords
  BY <1>1, <1>2 DEF CallRecords
<1> QED
  BY <1>1, <1>2, <1>3 DEF Reply, CallRecords

\* A reply that names no row.
LEMMA RefusalKeeps ==
  ASSUME Inv, NEW x \in Handlers, NEW code \in Nat, Reply(x, code, 0), rivals' = rivals,
         h[x].at # "replied", UNCHANGED <<kept, gone, freeId, sunk, clock>>
  PROVE  Inv'
<1>1. OnlyCall(x) /\ h'[x].at = "replied" /\ h'[x].row = 0 /\ h'[x].of = h[x].of
      /\ h'[x].before = h[x].before
  BY ReplySets DEF OnlyCall
<1>2. ~ OnItsWay(x)' /\ RowsKnownTo(x)' /\ Named(x)'
  BY <1>1 DEF OnItsWay, RowsKnownTo, Named
<1>3. RivalsKnown'
  BY <1>1, <1>2, NoNewRivals
<1>4. h'[x].before < freeId
  BY <1>1 DEF Inv, IdsGrow
<1> QED
  BY <1>1, <1>2, <1>3, <1>4, CallStepKeeps DEF Sent

LEMMA AskPriceKeeps ==
  ASSUME Inv, NEW x \in Handlers, AskPrice(x)
  PROVE  Inv'
<1> USE DEF AskPrice
<1>1. CASE Reply(x, 404, 0)
  BY <1>1, RefusalKeeps
<1>2. ASSUME NEW of \in Originals, h' = [h EXCEPT ![x].at = "post", ![x].of = of] PROVE Inv'
  <2>1. OnlyCall(x) /\ h'[x].at = "post" /\ h'[x].of = of /\ h'[x].before = h[x].before
    <3>1. h \in [Handlers -> CallRecords] /\ "post" \in Stages
      BY DEF Inv, Typed, CallRecords, Stages
    <3>2. h'[x] = [h[x] EXCEPT !.at = "post", !.of = of] /\ \A y \in Handlers \ {x} : h'[y] = h[y]
      BY <1>2, <3>1
    <3>3. h'[x] \in CallRecords
      <4> DEFINE c == h[x]
      <4>1. c \in CallRecords
        BY <3>1
      <4>2. h'[x] = [c EXCEPT !.at = "post", !.of = of]
        BY <3>2
      <4> HIDE DEF c
      <4>3. [c EXCEPT !.at = "post", !.of = of] \in CallRecords
        BY <3>1, <4>1, RecordKeepsShape
      <4> QED
        BY <4>2, <4>3
    <3>4. h' \in [Handlers -> CallRecords]
      BY <1>2, <3>1, <3>3
    <3> QED
      BY <3>1, <3>2, <3>4 DEF OnlyCall, CallRecords
  <2>2. ~ OnItsWay(x) /\ ~ OnItsWay(x)' /\ ~ Sent(x) /\ RowsKnownTo(x)' /\ Named(x)'
    BY <2>1 DEF OnItsWay, RowsKnownTo, Named, Sent
  <2>3. RivalsKnown'
    BY <2>1, <2>2, NoNewRivals
  <2>4. h'[x].before < freeId
    BY <2>1 DEF Inv, IdsGrow
  <2> QED
    BY <2>1, <2>2, <2>3, <2>4, CallStepKeeps
<1> QED
  BY <1>1, <1>2

\* Whoever is on the way for the same original, or has a call there, is a rival.
LEMMA AskKeeps ==
  ASSUME Inv, NEW x \in Handlers, Ask(x)
  PROVE  Inv'
<1>0. h[x].at \in {"idle", "post"} /\ UNCHANGED <<kept, gone, freeId, sunk, clock>>
  BY DEF Ask
<1>1. CASE Reply(x, 403, 0)
  <2>1. h'[x].at = "replied"
    BY <1>1, ReplySets
  <2>2. rivals' = rivals
    BY <2>1 DEF Ask
  <2> QED
    BY <1>0, <1>1, <2>2, RefusalKeeps
<1>2. ASSUME NEW of \in Originals, NEW noCapture \in BOOLEAN,
             h' = [h EXCEPT ![x] = [NoCall EXCEPT !.at = "get", !.of = of, !.noCapture = noCapture]]
      PROVE  Inv'
  <2>1. /\ OnlyCall(x) /\ h'[x].at = "get" /\ h'[x].of = of /\ h'[x].before = 0
    BY <1>0, <1>2 DEF OnlyCall, Inv, Typed, CallRecords, Stages, NoCall
  <2>2. ~ Sent(x) /\ ~ OnItsWay(x) /\ OnItsWay(x)' /\ RowsKnownTo(x)' /\ Named(x)'
    BY <1>0, <2>1 DEF OnItsWay, RowsKnownTo, Named, Sent
  <2>3. rivals' = rivals \cup {{x, y} : y \in {y \in Handlers \ {x} : Pending(y) /\ of = h[y].of}}
    BY <2>1 DEF Ask
  <2>4. RivalsKnown'
    <3> SUFFICES ASSUME NEW y \in Handlers, NEW z \in Handlers, y # z,
                        OnItsWay(y)', Pending(z)', h'[y].of = h'[z].of
                 PROVE  {y, z} \in rivals'
      BY DEF RivalsKnown
    <3>1. \A w \in Handlers \ {x} : /\ h'[w] = h[w] /\ (OnItsWay(w)' <=> OnItsWay(w))
                                    /\ (Pending(w)' <=> Pending(w))
      BY <2>1 DEF OnlyCall, OnItsWay, Pending
    <3>2. CASE y # x /\ z # x
      <4>1. {y, z} \in rivals
        BY <3>1, <3>2 DEF Inv, RivalsKnown
      <4> QED
        BY <2>3, <4>1
    <3>3. CASE y = x
      <4>1. z \in Handlers \ {x} /\ Pending(z) /\ of = h[z].of
        BY <2>1, <3>1, <3>3
      <4> QED
        BY <2>3, <3>3, <4>1
    <3>4. CASE z = x
      <4>1. y \in Handlers \ {x} /\ Pending(y) /\ of = h[y].of
        BY <2>1, <3>1, <3>4 DEF Pending
      <4>2. {y, z} = {x, y}
        BY <3>4
      <4> QED
        BY <2>3, <4>1, <4>2
    <3> QED
      BY <3>2, <3>3, <3>4
  <2>5. h'[x].before < freeId
    <3>1. \A n \in Nat \ {0} : 0 < n
      OBVIOUS
    <3>2. freeId \in Nat \ {0}
      BY DEF Inv, Typed
    <3> QED
      BY Zenon, <2>1, <3>1, <3>2
  <2>6. rivals \subseteq rivals'
    BY <2>3
  <2> QED
    BY <2>1, <2>2, <2>4, <2>5, <2>6, CallStepKeeps
<1>3. \/ Reply(x, 403, 0)
      \/ \E of \in Originals, noCapture \in BOOLEAN :
           h' = [h EXCEPT ![x] = [NoCall EXCEPT !.at = "get", !.of = of, !.noCapture = noCapture]]
  BY DEF Ask
<1> QED
  BY <1>1, <1>2, <1>3

\* A call that goes on to its next stage without an answer to remember.
LEMMA AdvanceKeeps ==
  ASSUME Inv, NEW x \in Handlers, NEW stage \in {"snapshot", "upstream"}, NEW started \in Nat,
         h' = [h EXCEPT ![x].at = stage, ![x].started = started], rivals' = rivals,
         h[x].at \in {"get", "send"}, stage = "upstream" => h[x].at = "send",
         UNCHANGED <<kept, gone, freeId, sunk, clock>>
  PROVE  Inv'
<1>1. h \in [Handlers -> CallRecords] /\ stage \in Stages
  BY DEF Inv, Typed, CallRecords, Stages
<1>2. /\ h'[x] = [h[x] EXCEPT !.at = stage, !.started = started]
      /\ \A y \in Handlers \ {x} : h'[y] = h[y]
  BY <1>1
<1>3. h'[x] \in CallRecords
  <2>1. h[x] \in CallRecords
    BY <1>1
  <2> QED
    BY Zenon, <1>1, <1>2, <2>1, RecordKeepsShape
<1>4. h' \in [Handlers -> CallRecords]
  BY <1>1, <1>3
<1>5. h'[x].at = stage /\ h'[x].of = h[x].of /\ h'[x].before = h[x].before
  BY <1>1, <1>2 DEF CallRecords
<1>6. OnlyCall(x)
  BY <1>2, <1>4 DEF OnlyCall
<1>7. OnItsWay(x) /\ ~ Sent(x) /\ Named(x)' /\ h'[x].before < freeId /\ h'[x].of \in Originals
  BY <1>5 DEF OnItsWay, Sent, Named, Inv, IdsGrow, Typed
<1>8. RowsKnownTo(x)'
  <2>1. CASE stage = "snapshot"
    BY <1>5, <2>1 DEF RowsKnownTo
  <2>2. CASE h[x].at = "send"
    <3>1. RowsKnownTo(x)
      BY DEF Inv, RowsKnown, RowsKnownTo
    <3> QED
      BY <1>5, <2>2, <3>1 DEF RowsKnownTo, Hidden
  <2> QED
    BY <2>1, <2>2
<1>9. RivalsKnown'
  BY <1>5, <1>6, <1>7, NoNewRivals
<1> QED
  BY <1>6, <1>7, <1>8, <1>9, CallStepKeeps

LEMMA GetOriginalKeeps ==
  ASSUME Inv, NEW x \in Handlers, GetOriginal(x)
  PROVE  Inv'
<1>0. /\ h[x].at = "get" /\ UNCHANGED <<kept, gone, freeId, sunk, clock, rivals>>
      /\ \/ h' = [h EXCEPT ![x].at = "snapshot"]
         \/ \E code \in {400, 404, 500} : Reply(x, code, 0)
  BY DEF GetOriginal
<1>1. CASE h' = [h EXCEPT ![x].at = "snapshot"]
  <2>1. h[x] \in CallRecords /\ h \in [Handlers -> CallRecords]
    BY DEF Inv, Typed, CallRecords
  <2> DEFINE started == h[x].started
  <2>2. h' = [h EXCEPT ![x].at = "snapshot", ![x].started = started] /\ started \in Nat
    BY <1>1, <2>1 DEF CallRecords
  <2>3. rivals' = rivals /\ UNCHANGED <<kept, gone, freeId, sunk, clock>>
    BY <1>0
  <2>4. h[x].at \in {"get", "send"} /\ ("snapshot" = "upstream" => h[x].at = "send")
    BY <1>0
  <2>5. "snapshot" \in {"snapshot", "upstream"}
    OBVIOUS
  <2> HIDE DEF started
  <2> QED
    BY Zenon, <2>2, <2>3, <2>4, <2>5, AdvanceKeeps
<1>2. ASSUME NEW code \in {400, 404, 500}, Reply(x, code, 0) PROVE Inv'
  BY <1>0, <1>2, RefusalKeeps
<1> QED
  BY <1>0, <1>1, <1>2

LEMMA SendKeeps ==
  ASSUME Inv, NEW x \in Handlers, Send(x)
  PROVE  Inv'
<1>1. clock \in Nat
  BY DEF Inv, Typed
<1> QED
  BY <1>1, AdvanceKeeps DEF Send

\* The newest row of the original hides every other, as long as it is there.
LEMMA SnapshotKeeps ==
  ASSUME Inv, NEW x \in Handlers, Snapshot(x)
  PROVE  Inv'
<1>0. /\ h[x].at = "snapshot" /\ UNCHANGED <<kept, gone, freeId, sunk, clock, rivals>>
      /\ \/ h' = [h EXCEPT ![x].at = "send", ![x].before = NewestReplay(h[x].of)]
         \/ Reply(x, 500, 0)
  BY DEF Snapshot
<1>1. CASE Reply(x, 500, 0)
  BY <1>0, <1>1, RefusalKeeps
<1>2. CASE h' = [h EXCEPT ![x].at = "send", ![x].before = NewestReplay(h[x].of)]
  <2> DEFINE of == h[x].of
  <2>1. h \in [Handlers -> CallRecords] /\ "send" \in Stages /\ of \in Originals
    BY <1>0 DEF Inv, Typed, CallRecords, Stages
  <2>2. NewestReplay(of) \in Nat
    BY <2>1, NewestIsNewest
  <2>3. /\ h'[x] = [h[x] EXCEPT !.at = "send", !.before = NewestReplay(of)]
        /\ \A y \in Handlers \ {x} : h'[y] = h[y]
    BY <1>2, <2>1
  <2>4. h'[x] \in CallRecords
    <3> DEFINE c == h[x]
               newest == NewestReplay(of)
    <3>1. c \in CallRecords /\ newest \in Nat
      BY <2>1, <2>2
    <3>2. h'[x] = [c EXCEPT !.at = "send", !.before = newest]
      BY <2>3
    <3> HIDE DEF c, newest
    <3>3. [c EXCEPT !.at = "send", !.before = newest] \in CallRecords
      BY <2>1, <3>1, RecordKeepsShape
    <3> QED
      BY <3>2, <3>3
  <2>5. OnlyCall(x)
    BY <1>0, <1>2, <2>1, <2>3, <2>4 DEF OnlyCall
  <2>6. h'[x].at = "send" /\ h'[x].of = of /\ h'[x].before = NewestReplay(of)
    BY <2>1, <2>3 DEF CallRecords
  <2>7. OnItsWay(x) /\ ~ Sent(x) /\ Named(x)'
    BY <1>0, <2>6 DEF OnItsWay, Sent, Named
  <2>8. CASE NewestReplay(of) = 0 /\ \A r \in kept : r.of # of
    <3>1. h'[x].before < freeId
      BY <2>6, <2>8 DEF Inv, Typed
    <3>2. RowsKnownTo(x)'
      BY <1>0, <2>6, <2>8 DEF RowsKnownTo
    <3>3. RivalsKnown'
      BY <1>0, <2>5, <2>6, <2>7, NoNewRivals
    <3> QED
      BY <1>0, <2>1, <2>5, <2>6, <2>7, <3>1, <3>2, <3>3, CallStepKeeps
  <2>9. ASSUME NEW b \in kept, b.of = of, b.id = NewestReplay(of),
               \A s \in kept \ {b} : s.of = of => Later(b, s)
        PROVE  Inv'
    <3>1. b.id \in 1..(freeId - 1) /\ freeId \in Nat /\ \A s \in kept : s.id = b.id => s = b
      BY <2>9 DEF Inv, IdsGrow, Typed
    <3>2. h'[x].before < freeId /\ h'[x].before # 0
      BY <2>6, <2>9, <3>1
    <3>3. RowsKnownTo(x)'
      BY <1>0, <2>6, <2>9, <3>1, <3>2 DEF RowsKnownTo, Hidden
    <3>4. RivalsKnown'
      BY <1>0, <2>5, <2>6, <2>7, NoNewRivals
    <3> QED
      BY <1>0, <2>1, <2>5, <2>6, <2>7, <3>2, <3>3, <3>4, CallStepKeeps
  <2> QED
    BY <2>1, <2>8, <2>9, NewestIsNewest
<1> QED
  BY <1>0, <1>1, <1>2

\* The row that is newest now and was not hidden at the snapshot has come since.
LEMMA AwaitKeeps ==
  ASSUME Inv, NEW x \in Handlers, AwaitReplayRow(x)
  PROVE  Inv'
<1> DEFINE of == h[x].of
<1>0. /\ h[x].at = "await" /\ UNCHANGED <<kept, gone, freeId, sunk, clock, rivals>>
      /\ \/ NewestReplay(of) > h[x].before /\ Reply(x, 200, NewestReplay(of))
         \/ Reply(x, 500, 0)
  BY DEF AwaitReplayRow
<1>1. CASE Reply(x, 500, 0)
  BY <1>0, <1>1, RefusalKeeps
<1>2. CASE NewestReplay(of) > h[x].before /\ Reply(x, 200, NewestReplay(of))
  <2>1. of \in Originals /\ h[x].before \in Nat /\ h[x].before < freeId /\ freeId \in Nat
    BY <1>0 DEF Inv, Typed, IdsGrow
  <2>2. NewestReplay(of) \in Nat
    BY <2>1, NewestIsNewest
  <2>3. PICK n \in kept : /\ n.of = of /\ n.id = NewestReplay(of)
                          /\ \A s \in kept \ {n} : s.of = of => Later(n, s)
    BY <1>2, <2>1, <2>2, NewestIsNewest
  <2>4. /\ OnlyCall(x) /\ h'[x].at = "replied" /\ h'[x].row = n.id
        /\ h'[x].of = of /\ h'[x].before = h[x].before
    BY <1>0, <1>2, <2>2, <2>3, ReplySets DEF OnlyCall
  <2>5. n.id < freeId /\ n.id > h[x].before /\ \A r \in kept : r.id = n.id => r = n
    BY <1>2, <2>1, <2>3 DEF Inv, IdsGrow
  <2>6. n.by = x \/ {x, n.by} \in rivals \/ Hidden(x, n)
    BY <1>0, <2>3 DEF Inv, RowsKnown
  <2>7. Hidden(x, n) => \A s \in kept : s.id # h[x].before
    <3> SUFFICES ASSUME Hidden(x, n), NEW s \in kept, s.id = h[x].before PROVE FALSE
      OBVIOUS
    <3>1. s.of = of /\ (s = n \/ Later(s, n))
      BY DEF Hidden
    <3>2. s # n
      BY <2>1, <2>5
    <3>3. Later(s, n) /\ Later(n, s)
      BY <2>3, <3>1, <3>2
    <3> QED
      BY <3>3, LaterIsOrder DEF Inv, Typed
  <2>8. Named(x)'
    BY <1>0, <2>3, <2>4, <2>5, <2>6, <2>7 DEF Named, Hidden
  <2>9. ~ OnItsWay(x)' /\ OnItsWay(x) /\ RowsKnownTo(x)'
    BY <1>0, <2>4 DEF OnItsWay, RowsKnownTo
  <2>10. RivalsKnown'
    BY <1>0, <2>4, <2>9, NoNewRivals
  <2> QED
    BY <1>0, <2>1, <2>4, <2>8, <2>9, <2>10, CallStepKeeps
<1> QED
  BY <1>0, <1>1, <1>2

\* The call enters the sink as its own, or does not enter it.
LEMMA AnswerKeeps ==
  ASSUME Inv, NEW x \in Handlers, Answer(x)
  PROVE  Inv'
<1>0. h[x].at = "upstream" /\ UNCHANGED <<kept, gone, freeId, clock, rivals>> /\ sunk' = Submitted(x)
  BY DEF Answer
<1>1. CASE h[x].noCapture
  <2>1. sunk' = sunk /\ Reply(x, 200, 0)
    BY <1>0, <1>1 DEF Answer, Submitted
  <2> QED
    BY <1>0, <2>1, RefusalKeeps
<1>2. CASE ~ h[x].noCapture
  <2> DEFINE e == [of |-> h[x].of, started |-> h[x].started, by |-> x]
  <2>1. h \in [Handlers -> CallRecords] /\ "await" \in Stages /\ sunk \in Seq(Sunk)
        /\ h[x].of \in Originals
    BY <1>0 DEF Inv, Typed, CallRecords, Stages
  <2>2. h' = [h EXCEPT ![x].at = "await"]
    BY <1>0, <1>2 DEF Answer
  <2>3. h'[x] = [h[x] EXCEPT !.at = "await"] /\ \A y \in Handlers \ {x} : h'[y] = h[y]
    BY <2>1, <2>2
  <2>4. h'[x] \in CallRecords /\ h'[x].at = "await" /\ h'[x].of = h[x].of /\ h'[x].before = h[x].before
    <3>1. h[x] \in CallRecords
      BY <2>1
    <3> QED
      BY <2>1, <2>3, <3>1 DEF CallRecords
  <2>5. h' \in [Handlers -> CallRecords]
    BY <2>1, <2>2, <2>4
  <2>6. e \in Sunk /\ e.by = x /\ e.of = h[x].of
    BY <2>1 DEF Sunk, CallRecords
  <2>7. sunk' = sunk \/ sunk' = Append(sunk, e)
    BY <1>0 DEF Submitted
  <2> HIDE DEF e
  <2>8. /\ sunk' \in Seq(Sunk)
        /\ \A i \in DOMAIN sunk' : (i \in DOMAIN sunk /\ sunk'[i] = sunk[i]) \/ sunk'[i] = e
    BY <2>1, <2>6, <2>7
  <2>9. Typed'
    BY <1>0, <2>1, <2>3, <2>4, <2>5, <2>8 DEF Inv, Typed, CallRecords
  <2>10. HaveNewest' /\ IdsGrow'
    BY <1>0, <2>3, <2>4 DEF Inv, HaveNewest, IdsGrow
  <2>11. \A y \in Handlers : (Sent(y) => Sent(y)') /\ h'[y].of = h[y].of
    BY <1>0, <2>3, <2>4 DEF Sent
  <2>12. CallsAreOurs'
    <3>1. \A i \in DOMAIN sunk : sunk[i] \in Sunk
      BY <2>1
    <3>2. \A i \in DOMAIN sunk : sunk[i].by \in Handlers
      BY <3>1 DEF Sunk
    <3>3. \A r \in kept : r.by \in Handlers
      BY DEF Inv, Typed, Row
    <3>4. Sent(x)'
      BY <2>4 DEF Sent
    <3>5. \A i \in DOMAIN sunk' : /\ h'[sunk'[i].by].at \in {"await", "replied"}
                                   /\ sunk'[i].of = h'[sunk'[i].by].of
      <4> SUFFICES ASSUME NEW i \in DOMAIN sunk'
                   PROVE  /\ h'[sunk'[i].by].at \in {"await", "replied"}
                          /\ sunk'[i].of = h'[sunk'[i].by].of
        OBVIOUS
      <4>1. CASE sunk'[i] = e
        BY <2>4, <2>6, <4>1
      <4>2. CASE i \in DOMAIN sunk /\ sunk'[i] = sunk[i]
        <5>1. Sent(sunk[i].by) /\ sunk[i].of = h[sunk[i].by].of /\ sunk[i].by \in Handlers
          BY <3>2, <4>2 DEF Inv, CallsAreOurs
        <5> QED
          BY <2>11, <4>2, <5>1 DEF Sent
      <4> QED
        BY <2>8, <4>1, <4>2
    <3>6. \A r \in kept : Sent(r.by)' /\ r.of \in {h'[r.by].of, 0} /\ r.of \notin gone
      BY <2>11, <3>3 DEF Inv, CallsAreOurs
    <3> QED
      BY <1>0, <3>5, <3>6 DEF CallsAreOurs, Sent
  <2>13. \A y \in Handlers : (OnItsWay(y)' => OnItsWay(y)) /\ (Pending(y)' => Pending(y))
    <3>1. \A y \in Handlers : OnItsWay(y)' => OnItsWay(y)
      BY <1>0, <2>3 DEF OnItsWay
    <3>2. Pending(x)
      BY <1>0 DEF Pending, OnItsWay
    <3>3. \A y \in Handlers \ {x} : Pending(y)' => Pending(y)
      BY <2>6, <2>8, <3>1 DEF Pending
    <3> QED
      BY <3>1, <3>2, <3>3
  <2>14. RivalsKnown'
    BY <1>0, <2>11, <2>13 DEF Inv, RivalsKnown
  <2>15. RowsKnown'
    <3>1. \A y \in Handlers : h'[y].at \in {"send", "upstream", "await"}
              => h[y].at \in {"send", "upstream", "await"}
      BY <1>0, <2>3
    <3>2. \A y \in Handlers : h'[y].of = h[y].of /\ h'[y].before = h[y].before
      BY <2>3, <2>4
    <3> QED
      BY <1>0, <3>1, <3>2 DEF Inv, RowsKnown, Hidden
  <2>16. ReplyNamesItsReplay'
    <3>1. \A y \in Handlers : Named(y)
      BY DEF Inv, ReplyNamesItsReplay, Named
    <3>2. \A y \in Handlers \ {x} : Named(y)'
      BY <1>0, <2>3, <3>1 DEF Named
    <3>3. Named(x)'
      BY <2>4 DEF Named
    <3> QED
      BY <3>2, <3>3 DEF ReplyNamesItsReplay, Named
  <2> QED
    BY <2>9, <2>10, <2>12, <2>14, <2>15, <2>16 DEF Inv
<1> QED
  BY <1>1, <1>2

----------------------------------------------------------------------------
(* The neighbours' steps, which leave the route's calls alone.             *)

\* What is left of the sink was there before.
LEMMA SinkShrinks ==
  ASSUME Inv, sunk # <<>>, sunk' = Tail(sunk)
  PROVE  /\ sunk' \in Seq(Sunk)
         /\ \A i \in DOMAIN sunk' : \E j \in DOMAIN sunk : sunk'[i] = sunk[j]
         /\ Head(sunk) \in Sunk
         /\ \E j \in DOMAIN sunk : Head(sunk) = sunk[j]
<1>1. sunk \in Seq(Sunk)
  BY DEF Inv, Typed
<1>2. \A i \in DOMAIN sunk' : i + 1 \in DOMAIN sunk /\ sunk'[i] = sunk[i + 1]
  BY <1>1
<1>3. 1 \in DOMAIN sunk /\ Head(sunk) = sunk[1]
  BY <1>1
<1> QED
  BY <1>1, <1>2, <1>3

\* A row with a new id is a rival's for everyone who waits.
LEMMA InsertReplayKeeps ==
  ASSUME Inv, InsertReplay
  PROVE  Inv'
<1> DEFINE e == Head(sunk)
           n == [id |-> freeId, of |-> e.of, started |-> e.started, by |-> e.by]
<1>0. /\ sunk # <<>> /\ sunk' = Tail(sunk) /\ UNCHANGED <<gone, clock, h, rivals>>
      /\ \/ e.of \notin gone /\ kept' = kept \cup {n} /\ freeId' = freeId + 1
         \/ UNCHANGED <<kept, freeId>>
  BY DEF InsertReplay
<1>1. /\ sunk' \in Seq(Sunk) /\ e \in Sunk
      /\ \A i \in DOMAIN sunk' : \E j \in DOMAIN sunk : sunk'[i] = sunk[j]
      /\ \E j \in DOMAIN sunk : e = sunk[j]
  BY <1>0, SinkShrinks
<1>2. /\ freeId \in Nat \ {0} /\ kept \subseteq Row /\ \A x \in Handlers : h[x].before \in Nat
      /\ \A x \in Handlers : h[x].before < freeId
  BY DEF Inv, Typed, IdsGrow
<1>3. /\ n \in Row /\ n.id = freeId /\ n.of = e.of /\ n.by = e.by
  BY <1>1, <1>2, ReplayAssumption DEF Row, Sunk
<1>4. /\ Sent(e.by) /\ e.of = h[e.by].of /\ Pending(e.by) /\ e.by \in Handlers
  BY <1>1 DEF Inv, CallsAreOurs, Pending, Sunk
<1> HIDE DEF n, e
<1>5. /\ \A i \in DOMAIN sunk' : Sent(sunk'[i].by) /\ sunk'[i].of = h[sunk'[i].by].of
      /\ \A y \in Handlers : (Pending(y)' => Pending(y)) /\ (OnItsWay(y)' <=> OnItsWay(y))
  BY <1>0, <1>1 DEF Inv, CallsAreOurs, Pending, OnItsWay
<1>6. RivalsKnown'
  BY <1>0, <1>5 DEF Inv, RivalsKnown
<1>7. CASE UNCHANGED <<kept, freeId>>
  <2>1. Typed'
    BY <1>0, <1>1, <1>7 DEF Inv, Typed
  <2>2. HaveNewest' /\ IdsGrow' /\ RowsKnown' /\ ReplyNamesItsReplay'
    BY <1>0, <1>7 DEF Inv, HaveNewest, IdsGrow, RowsKnown, Hidden, ReplyNamesItsReplay
  <2>3. CallsAreOurs'
    BY <1>0, <1>5, <1>7 DEF Inv, CallsAreOurs, Sent
  <2> QED
    BY <1>6, <2>1, <2>2, <2>3 DEF Inv
<1>8. CASE e.of \notin gone /\ kept' = kept \cup {n} /\ freeId' = freeId + 1
  <2>1. Typed'
    BY <1>0, <1>1, <1>2, <1>3, <1>8 DEF Inv, Typed
  <2>2. \A r \in kept : r.id \in 1..(freeId - 1) /\ r.id # n.id /\ r \in Row
    BY <1>2, <1>3 DEF Inv, IdsGrow
  <2>3. HaveNewest'
    <3> SUFFICES ASSUME NEW T \in SUBSET (kept \cup {n}), T # {}
                 PROVE  \E r \in T : \A s \in T \ {r} : Later(r, s)
      BY <1>8 DEF HaveNewest
    <3>1. CASE n \notin T
      <4>1. T \in SUBSET kept
        BY <3>1
      <4> QED
        BY <4>1 DEF Inv, HaveNewest
    <3>2. CASE n \in T /\ T \ {n} = {}
      BY <3>2
    <3>3. CASE n \in T /\ T \ {n} # {}
      <4>1. T \ {n} \in SUBSET kept
        OBVIOUS
      <4>2. PICK m \in T \ {n} : \A s \in (T \ {n}) \ {m} : Later(m, s)
        BY <3>3, <4>1 DEF Inv, HaveNewest
      <4>3. m \in kept /\ m \in Row /\ m.id # n.id /\ \A s \in T : s \in Row
        BY <1>3, <2>2, <4>1, <4>2
      <4>4. CASE Later(m, n)
        BY <4>2, <4>4
      <4>5. CASE Later(n, m)
        <5>1. \A s \in T \ {n} : Later(n, s)
          BY <1>3, <4>2, <4>3, <4>5, LaterIsOrder
        <5> QED
          BY <3>3, <5>1
      <4>6. Later(m, n) \/ Later(n, m)
        BY <1>3, <4>3, LaterIsOrder
      <4> QED
        BY <4>4, <4>5, <4>6
    <3> QED
      BY <3>1, <3>2, <3>3
  <2>4. IdsGrow'
    <3>1. \A r \in kept \cup {n} : r.id \in 1..freeId
      BY <1>2, <1>3, <2>2
    <3>2. \A r, s \in kept \cup {n} : r.id = s.id => r = s
      BY <2>2 DEF Inv, IdsGrow
    <3>3. \A x \in Handlers : h[x].before < freeId + 1
      BY <1>2
    <3> QED
      BY <1>0, <1>2, <1>8, <3>1, <3>2, <3>3 DEF IdsGrow
  <2>5. CallsAreOurs'
    BY <1>0, <1>3, <1>4, <1>5, <1>8 DEF Inv, CallsAreOurs, Sent
  <2>6. RowsKnown'
    <3> SUFFICES ASSUME NEW x \in Handlers, h[x].at \in {"send", "upstream", "await"},
                        NEW r \in kept \cup {n}, r.of = h[x].of
                 PROVE  r.by = x \/ {x, r.by} \in rivals \/ Hidden(x, r)'
      BY <1>0, <1>8 DEF RowsKnown
    <3>1. CASE r = n
      <4>1. OnItsWay(x) /\ h[x].of = h[e.by].of /\ r.by = e.by
        BY <1>3, <1>4, <3>1 DEF OnItsWay
      <4> QED
        BY <1>4, <4>1 DEF Inv, RivalsKnown
    <3>2. CASE r \in kept
      <4>1. Hidden(x, r) => Hidden(x, r)'
        BY <1>0, <1>2, <1>3, <1>8 DEF Hidden
      <4> QED
        BY <3>2, <4>1 DEF Inv, RowsKnown
    <3> QED
      BY <3>1, <3>2
  <2>7. ReplyNamesItsReplay'
    <3> SUFFICES ASSUME NEW x \in Handlers, h[x].at = "replied", h[x].row # 0
                 PROVE  Named(x)'
      BY <1>0 DEF ReplyNamesItsReplay, Named
    <3>1. h[x].row > h[x].before /\ h[x].row < freeId /\ h[x].row \in Nat
      BY DEF Inv, ReplyNamesItsReplay, Typed
    <3>2. n.id # h[x].row /\ n.id # h[x].before
      BY <1>2, <1>3, <3>1
    <3>3. h[x].row < freeId'
      BY <1>2, <1>8, <3>1
    <3>4. \A r \in kept : r.id = h[x].row =>
            /\ r.of \in {h[x].of, 0}
            /\ \/ r.by = x
               \/ {x, r.by} \in rivals
               \/ h[x].before # 0 /\ \A s \in kept : s.id # h[x].before
      BY DEF Inv, ReplyNamesItsReplay
    <3> QED
      BY <1>0, <1>8, <3>1, <3>2, <3>3, <3>4 DEF Named
  <2> QED
    BY <1>6, <2>1, <2>3, <2>4, <2>5, <2>6, <2>7 DEF Inv
<1> QED
  BY <1>0, <1>7, <1>8

\* The link is cleared in every replay of the original and in no other.
LEMMA PurgeOriginalKeeps ==
  ASSUME Inv, NEW of \in Originals, PurgeOriginal(of)
  PROVE  Inv'
<1> DEFINE f(r) == IF r.of = of THEN [r EXCEPT !.of = 0] ELSE r
<1>0. /\ of \notin gone /\ gone' = gone \cup {of} /\ kept' = {f(r) : r \in kept}
      /\ UNCHANGED <<freeId, sunk, clock, h, rivals>>
  BY DEF PurgeOriginal
<1>1. \A r \in kept : /\ r \in Row /\ f(r) \in Row
                      /\ f(r).id = r.id /\ f(r).started = r.started /\ f(r).by = r.by
                      /\ f(r).of = (IF r.of = of THEN 0 ELSE r.of)
                      /\ f(r).of # 0 => f(r) = r
  BY DEF Inv, Typed, Row
<1>2. 0 \notin Originals /\ \A x \in Handlers : h[x].at \notin {"idle", "replied"} => h[x].of # 0
  BY ReplayAssumption DEF Inv, Typed
<1> HIDE DEF f
<1>3. Typed'
  <2>1. kept' \subseteq Row
    BY <1>0, <1>1
  <2> QED
    BY <1>0, <2>1 DEF Inv, Typed
<1>4. HaveNewest'
  <2> SUFFICES ASSUME NEW T \in SUBSET kept', T # {}
               PROVE  \E r \in T : \A s \in T \ {r} : Later(r, s)
    BY DEF HaveNewest
  <2> DEFINE U == {r \in kept : f(r) \in T}
  <2>1. U \in SUBSET kept /\ U # {}
    BY <1>0
  <2>2. PICK u \in U : \A s \in U \ {u} : Later(u, s)
    BY <2>1 DEF Inv, HaveNewest
  <2>3. \A t \in T \ {f(u)} : Later(f(u), t)
    <3> SUFFICES ASSUME NEW t \in T \ {f(u)} PROVE Later(f(u), t)
      OBVIOUS
    <3>1. PICK s \in kept : t = f(s)
      BY <1>0
    <3>2. s \in U \ {u}
      BY <3>1
    <3>3. Later(u, s)
      BY <2>2, <3>2
    <3> QED
      BY <1>1, <3>1, <3>3 DEF Later
  <2> QED
    BY <2>3
<1>5. IdsGrow'
  <2>1. \A r, s \in kept : f(r).id = f(s).id => f(r) = f(s)
    BY <1>1 DEF Inv, IdsGrow
  <2>2. \A r \in kept : f(r).id \in 1..(freeId - 1)
    BY <1>1 DEF Inv, IdsGrow
  <2> QED
    BY <1>0, <2>1, <2>2 DEF Inv, IdsGrow
<1>6. CallsAreOurs'
  <2>1. \A i \in DOMAIN sunk : Sent(sunk[i].by) /\ sunk[i].of = h[sunk[i].by].of
    BY DEF Inv, CallsAreOurs
  <2>2. \A r \in kept : Sent(f(r).by) /\ f(r).of \in {h[f(r).by].of, 0}
    BY <1>1 DEF Inv, CallsAreOurs
  <2>3. \A r \in kept : f(r).of \notin gone \cup {of}
    BY <1>1, <1>2 DEF Inv, CallsAreOurs, Typed
  <2> QED
    BY <1>0, <2>1, <2>2, <2>3 DEF CallsAreOurs, Sent
<1>7. RivalsKnown'
  BY <1>0 DEF Inv, RivalsKnown, OnItsWay, Pending
<1>8. RowsKnown'
  <2> SUFFICES ASSUME NEW x \in Handlers, h[x].at \in {"send", "upstream", "await"},
                      NEW r \in kept', r.of = h[x].of
               PROVE  r.by = x \/ {x, r.by} \in rivals \/ Hidden(x, r)'
    BY <1>0 DEF RowsKnown
  <2>1. r.of # 0
    BY <1>2
  <2>2. r \in kept /\ r.of # of
    BY <1>0, <1>1, <2>1
  <2>3. Hidden(x, r) => Hidden(x, r)'
    <3> SUFFICES ASSUME Hidden(x, r), NEW b \in kept', b.id = h[x].before
                 PROVE  b.of = h[x].of /\ (b = r \/ Later(b, r))
      BY <1>0 DEF Hidden
    <3>1. PICK c \in kept : b = f(c)
      BY <1>0
    <3>2. c.of = h[x].of /\ (c = r \/ Later(c, r))
      BY <1>1, <3>1 DEF Hidden
    <3>3. b = c
      BY <2>1, <2>2, <3>1, <3>2 DEF f
    <3> QED
      BY <3>2, <3>3
  <2> QED
    BY <2>2, <2>3 DEF Inv, RowsKnown
<1>9. ReplyNamesItsReplay'
  <2> SUFFICES ASSUME NEW x \in Handlers, h[x].at = "replied", h[x].row # 0
               PROVE  Named(x)'
    BY <1>0 DEF ReplyNamesItsReplay, Named
  <2>1. Named(x)
    BY DEF Inv, ReplyNamesItsReplay, Named
  <2> QED
    BY <1>0, <1>1, <2>1 DEF Named
<1> QED
  BY <1>3, <1>4, <1>5, <1>6, <1>7, <1>8, <1>9 DEF Inv

\* Fewer rows.
LEMMA PurgeReplayKeeps ==
  ASSUME Inv, NEW r \in kept, PurgeReplay(r)
  PROVE  Inv'
<1>1. kept' \subseteq kept /\ UNCHANGED <<gone, freeId, sunk, clock, h, rivals>>
  BY DEF PurgeReplay
<1>2. Typed' /\ IdsGrow' /\ HaveNewest'
  BY <1>1 DEF Inv, Typed, IdsGrow, HaveNewest
<1>3. CallsAreOurs' /\ RivalsKnown'
  BY <1>1 DEF Inv, CallsAreOurs, RivalsKnown, Sent, OnItsWay, Pending
<1>4. RowsKnown'
  BY <1>1 DEF Inv, RowsKnown, Hidden
<1>5. ReplyNamesItsReplay'
  BY <1>1 DEF Inv, ReplyNamesItsReplay
<1> QED
  BY <1>2, <1>3, <1>4, <1>5 DEF Inv

\* No reading of the clock that was taken changes.
LEMMA OthersKeep ==
  ASSUME Inv, UNCHANGED <<kept, gone, freeId, sunk, h, rivals>>,
         clock' \in Nat
  PROVE  Inv'
<1>1. Typed' /\ IdsGrow' /\ HaveNewest'
  BY DEF Inv, Typed, IdsGrow, HaveNewest
<1>2. CallsAreOurs' /\ RivalsKnown'
  BY DEF Inv, CallsAreOurs, RivalsKnown, Sent, OnItsWay, Pending
<1>3. RowsKnown' /\ ReplyNamesItsReplay'
  BY DEF Inv, RowsKnown, Hidden, ReplyNamesItsReplay
<1> QED
  BY <1>1, <1>2, <1>3 DEF Inv

LEMMA NextKeeps ==
  ASSUME Inv, [ReplayNext]_replayVars
  PROVE  Inv'
<1>1. ASSUME NEW x \in Handlers, AskPrice(x) \/ Ask(x) PROVE Inv'
  BY <1>1, AskPriceKeeps, AskKeeps
<1>2. ASSUME NEW x \in Handlers, Route(x) PROVE Inv'
  BY <1>2, GetOriginalKeeps, SnapshotKeeps, SendKeeps, AnswerKeeps, AwaitKeeps DEF Route
<1>3. CASE InsertReplay
  BY <1>3, InsertReplayKeeps
<1>4. ASSUME NEW of \in Originals, PurgeOriginal(of) PROVE Inv'
  BY <1>4, PurgeOriginalKeeps
<1>5. ASSUME NEW r \in kept, PurgeReplay(r) PROVE Inv'
  BY <1>5, PurgeReplayKeeps
<1>6. CASE SetClock
  BY <1>6, OthersKeep, ReplayAssumption DEF SetClock
<1>7. CASE UNCHANGED replayVars
  <2>1. clock' \in Nat
    BY <1>7 DEF replayVars, Inv, Typed
  <2> QED
    BY <1>7, <2>1, OthersKeep DEF replayVars
<1> QED
  BY <1>1, <1>2, <1>3, <1>4, <1>5, <1>6, <1>7 DEF ReplayNext

\* A reply that names a row names one of the request replayed, stored after the
\* look the route took before it sent; and it is the row of the call the route
\* sent, or a rival's, or the row of that look has been purged: for any number of
\* route calls, any sink and any setting of the clock.
THEOREM RepliesNameTheirRow == ReplaySpec => []ReplyNamesItsReplay
<1>1. ReplayInit => Inv
  BY InitHolds
<1>2. Inv /\ [ReplayNext]_replayVars => Inv'
  BY NextKeeps
<1>3. Inv => ReplyNamesItsReplay
  BY DEF Inv
<1> QED
  BY <1>1, <1>2, <1>3, PTL DEF ReplaySpec

----------------------------------------------------------------------------
(* How many rows a replay leaves.                                          *)

\* Counting without numbers: a route call has its row or its place in the sink,
\* never both and never two, and only when it is to be recorded.
OneEach ==
  /\ \A r, s \in kept : r.by = s.by => r = s
  /\ \A i, j \in DOMAIN sunk : sunk[i].by = sunk[j].by => i = j
  /\ \A r \in kept : \A i \in DOMAIN sunk : r.by # sunk[i].by

OnlyRecorded ==
  /\ \A r \in kept : ~ Unrecorded(r.by)
  /\ \A i \in DOMAIN sunk : ~ Unrecorded(sunk[i].by)

\* The code is the reply's.
CodeIsReplys == \A x \in Handlers : h[x].at # "replied" => h[x].code = 0

RowInv == OneEach /\ OnlyRecorded /\ CodeIsReplys

\* A step of one route call that puts nothing in the sink: it has no row yet, or
\* it is still to be recorded.
LEMMA CallStepKeepsRows ==
  ASSUME Inv, RowInv, NEW x \in Handlers, UNCHANGED <<kept, sunk>>,
         \A y \in Handlers \ {x} : h'[y] = h[y],
         Unrecorded(x) \/ ~ Unrecorded(x)',
         h'[x].at # "replied" => h'[x].code = 0
  PROVE  RowInv'
<1>1. (\A r \in kept : r.by \in Handlers) /\ \A i \in DOMAIN sunk : sunk[i].by \in Handlers
  <2>1. sunk \in Seq(Sunk) /\ kept \subseteq Row
    BY DEF Inv, Typed
  <2>2. \A i \in DOMAIN sunk : sunk[i] \in Sunk
    BY <2>1
  <2> QED
    BY <2>1, <2>2 DEF Sunk, Row
<1>2. OneEach'
  BY DEF RowInv, OneEach
<1>3. \A y \in Handlers : ~ Unrecorded(y) => ~ Unrecorded(y)'
  BY DEF Unrecorded
<1>4. OnlyRecorded'
  BY <1>1, <1>3 DEF RowInv, OnlyRecorded
<1>5. CodeIsReplys'
  BY DEF RowInv, CodeIsReplys
<1> QED
  BY <1>2, <1>4, <1>5 DEF RowInv

\* The fields of a call that replied, and of one that goes on.
LEMMA ReplyFields ==
  ASSUME Inv, NEW x \in Handlers, NEW code \in Nat, NEW row \in Nat, Reply(x, code, row)
  PROVE  /\ \A y \in Handlers \ {x} : h'[y] = h[y]
         /\ h'[x].at = "replied" /\ h'[x].code = code /\ h'[x].noCapture = h[x].noCapture
<1>1. h \in [Handlers -> CallRecords]
  BY DEF Inv, Typed, CallRecords
<1>2. h'[x] = [h[x] EXCEPT !.at = "replied", !.code = code, !.row = row]
  BY <1>1 DEF Reply
<1>3. h[x] \in CallRecords
  BY <1>1
<1>4. h'[x].at = "replied" /\ h'[x].code = code /\ h'[x].noCapture = h[x].noCapture
  BY <1>2, <1>3 DEF CallRecords
<1>5. \A y \in Handlers \ {x} : h'[y] = h[y]
  BY <1>1 DEF Reply
<1> QED
  BY <1>4, <1>5

\* Up to the send a call has no row, whatever it does.
LEMMA EarlyStepKeepsRows ==
  ASSUME Inv, RowInv, NEW x \in Handlers,
         AskPrice(x) \/ Ask(x) \/ GetOriginal(x) \/ Snapshot(x) \/ Send(x)
  PROVE  RowInv'
<1>1. h \in [Handlers -> CallRecords] /\ h[x] \in CallRecords
  BY DEF Inv, Typed, CallRecords
<1>2. UNCHANGED <<kept, sunk>>
  BY DEF AskPrice, Ask, GetOriginal, Snapshot, Send
<1>3. h[x].at \in {"idle", "post", "get", "snapshot", "send"}
  BY DEF AskPrice, Ask, GetOriginal, Snapshot, Send
<1>4. Unrecorded(x) /\ h[x].code = 0
  BY <1>3 DEF Unrecorded, RowInv, CodeIsReplys
<1>5. ASSUME NEW code \in Nat, Reply(x, code, 0) PROVE RowInv'
  BY <1>2, <1>4, <1>5, ReplyFields, CallStepKeepsRows
<1>6. ASSUME NEW c \in CallRecords, c.at # "replied", c.code = 0, h' = [h EXCEPT ![x] = c]
      PROVE  RowInv'
  <2>1. h'[x] = c /\ \A y \in Handlers \ {x} : h'[y] = h[y]
    BY <1>1, <1>6
  <2> QED
    BY <1>2, <1>4, <1>6, <2>1, CallStepKeepsRows
<1>7. CASE AskPrice(x)
  <2>1. ASSUME NEW of \in Originals, h' = [h EXCEPT ![x].at = "post", ![x].of = of] PROVE RowInv'
    <3> DEFINE c == [h[x] EXCEPT !.at = "post", !.of = of]
    <3>1. c \in CallRecords /\ c.at = "post" /\ c.code = 0
      BY <1>1, <1>4 DEF CallRecords, Stages
    <3>2. h' = [h EXCEPT ![x] = c]
      BY <1>1, <2>1
    <3> HIDE DEF c
    <3> QED
      BY <1>6, <3>1, <3>2
  <2> QED
    BY <1>5, <1>7, <2>1 DEF AskPrice
<1>8. CASE Ask(x)
  <2>1. ASSUME NEW of \in Originals, NEW noCapture \in BOOLEAN,
               h' = [h EXCEPT ![x] = [NoCall EXCEPT !.at = "get", !.of = of, !.noCapture = noCapture]]
        PROVE  RowInv'
    <3> DEFINE c == [NoCall EXCEPT !.at = "get", !.of = of, !.noCapture = noCapture]
    <3>1. c \in CallRecords /\ c.at = "get" /\ c.code = 0
      BY DEF CallRecords, Stages, NoCall
    <3> HIDE DEF c
    <3> QED
      BY <1>6, <2>1, <3>1 DEF c
  <2>2. \/ Reply(x, 403, 0)
        \/ \E of \in Originals, noCapture \in BOOLEAN :
             h' = [h EXCEPT ![x] = [NoCall EXCEPT !.at = "get", !.of = of, !.noCapture = noCapture]]
    BY <1>8 DEF Ask
  <2>3. Reply(x, 403, 0) => RowInv'
    BY <1>5
  <2> QED
    BY <2>1, <2>2, <2>3
<1>9. ASSUME NEW at \in {"snapshot", "send", "upstream"},
             NEW before \in Nat, NEW started \in Nat,
             h' = [h EXCEPT ![x] = [h[x] EXCEPT !.at = at, !.before = before, !.started = started]]
      PROVE  RowInv'
  <2> DEFINE c == [h[x] EXCEPT !.at = at, !.before = before, !.started = started]
  <2>1. c \in CallRecords /\ c.at = at /\ c.code = 0
    BY <1>1, <1>4 DEF CallRecords, Stages
  <2> HIDE DEF c
  <2> QED
    BY <1>6, <1>9, <2>1 DEF c
<1>10. CASE GetOriginal(x)
  <2>1. CASE h' = [h EXCEPT ![x].at = "snapshot"]
    <3>1. h' = [h EXCEPT ![x] = [h[x] EXCEPT !.at = "snapshot", !.before = h[x].before,
                                             !.started = h[x].started]]
      BY <1>1, <2>1 DEF CallRecords
    <3> QED
      BY <1>1, <1>9, <3>1 DEF CallRecords
  <2> QED
    BY <1>5, <1>10, <2>1 DEF GetOriginal
<1>11. CASE Snapshot(x)
  <2>1. NewestReplay(h[x].of) \in Nat
    <3>1. h[x].of \in Originals
      BY <1>11 DEF Snapshot, Inv, Typed
    <3> QED
      BY <3>1, NewestIsNewest
  <2>2. CASE h' = [h EXCEPT ![x].at = "send", ![x].before = NewestReplay(h[x].of)]
    <3>1. h' = [h EXCEPT ![x] = [h[x] EXCEPT !.at = "send", !.before = NewestReplay(h[x].of),
                                             !.started = h[x].started]]
      BY <1>1, <2>2 DEF CallRecords
    <3> QED
      BY <1>1, <1>9, <2>1, <3>1 DEF CallRecords
  <2> QED
    BY <1>5, <1>11, <2>2 DEF Snapshot
<1>12. CASE Send(x)
  <2>1. h' = [h EXCEPT ![x] = [h[x] EXCEPT !.at = "upstream", !.before = h[x].before,
                                           !.started = clock]]
    BY <1>1, <1>12 DEF CallRecords, Send
  <2>2. clock \in Nat /\ h[x].before \in Nat
    BY <1>1 DEF CallRecords, Inv, Typed
  <2> QED
    BY <1>9, <2>1, <2>2
<1> QED
  BY <1>7, <1>8, <1>10, <1>11, <1>12

\* The one step that puts a call in the sink: it had none, and it is recorded.
LEMMA AnswerKeepsRows ==
  ASSUME Inv, RowInv, NEW x \in Handlers, Answer(x)
  PROVE  RowInv'
<1>1. h \in [Handlers -> CallRecords] /\ h[x] \in CallRecords /\ sunk \in Seq(Sunk) /\ kept \subseteq Row
  BY DEF Inv, Typed, CallRecords
<1>2. h[x].at = "upstream" /\ h[x].code = 0 /\ Unrecorded(x) /\ kept' = kept
  BY DEF Answer, RowInv, CodeIsReplys, Unrecorded
<1>3. CASE h[x].noCapture
  <2>1. Reply(x, 200, 0) /\ sunk' = sunk
    BY <1>3 DEF Answer, Submitted
  <2> QED
    BY <1>2, <2>1, ReplyFields, CallStepKeepsRows
<1>4. CASE ~ h[x].noCapture
  <2> DEFINE e == [of |-> h[x].of, started |-> h[x].started, by |-> x]
  <2>1. h' = [h EXCEPT ![x].at = "await"]
    BY <1>4 DEF Answer
  <2>2. /\ h'[x].at = "await" /\ h'[x].code = 0 /\ h'[x].noCapture = FALSE
        /\ \A y \in Handlers \ {x} : h'[y] = h[y]
    <3>1. h'[x] = [h[x] EXCEPT !.at = "await"] /\ \A y \in Handlers \ {x} : h'[y] = h[y]
      BY <1>1, <2>1
    <3>2. h[x].noCapture = FALSE
      BY <1>1, <1>4 DEF CallRecords
    <3> QED
      BY <1>1, <1>2, <3>1, <3>2 DEF CallRecords
  <2>3. e.by = x /\ (sunk' = sunk \/ sunk' = Append(sunk, e))
    BY DEF Answer, Submitted
  <2> HIDE DEF e
  <2>4. CASE sunk' = sunk
    BY <1>2, <2>2, <2>4, CallStepKeepsRows
  <2>5. CASE sunk' = Append(sunk, e)
    <3>1. \A i \in DOMAIN sunk' : i # Len(sunk) + 1 => i \in DOMAIN sunk /\ sunk'[i] = sunk[i]
      BY <1>1, <2>5
    <3>2. sunk'[Len(sunk) + 1] = e
      BY <1>1, <2>5
    <3>3. \A i \in DOMAIN sunk : sunk[i].by \in Handlers \ {x}
      <4>1. \A i \in DOMAIN sunk : sunk[i] \in Sunk
        BY <1>1
      <4> QED
        BY <1>2, <4>1 DEF Sunk, RowInv, OnlyRecorded
    <3>4. \A r \in kept : r.by \in Handlers \ {x}
      BY <1>1, <1>2 DEF Row, RowInv, OnlyRecorded
    <3>5. ~ Unrecorded(x)' /\ \A y \in Handlers \ {x} : ~ Unrecorded(y) => ~ Unrecorded(y)'
      BY <2>2 DEF Unrecorded
    <3>6. OneEach'
      <4>1. \A r, s \in kept' : r.by = s.by => r = s
        BY <1>2 DEF RowInv, OneEach
      <4>2. ASSUME NEW i \in DOMAIN sunk', NEW j \in DOMAIN sunk', sunk'[i].by = sunk'[j].by
            PROVE  i = j
        BY <2>3, <3>1, <3>2, <3>3, <4>2 DEF RowInv, OneEach
      <4>3. ASSUME NEW r \in kept', NEW i \in DOMAIN sunk' PROVE r.by # sunk'[i].by
        BY <1>2, <2>3, <3>1, <3>2, <3>4 DEF RowInv, OneEach
      <4> QED
        BY <4>1, <4>2, <4>3 DEF OneEach
    <3>7. OnlyRecorded'
      <4>1. \A y \in Handlers \ {x} : ~ Unrecorded(y) => ~ Unrecorded(y)'
        BY <3>5
      <4>2. ASSUME NEW r \in kept' PROVE ~ Unrecorded(r.by)'
        <5>1. PICK y \in Handlers \ {x} : y = r.by /\ ~ Unrecorded(y)
          BY <1>2, <3>4 DEF RowInv, OnlyRecorded
        <5> QED
          BY <4>1, <5>1 DEF Unrecorded
      <4>3. ASSUME NEW i \in DOMAIN sunk' PROVE ~ Unrecorded(sunk[i].by)'
        <5>1. CASE i = Len(sunk) + 1
          BY <2>2, <2>3, <3>2, <5>1 DEF Unrecorded
        <5>2. CASE i # Len(sunk) + 1
          <6>1. PICK y \in Handlers \ {x} : y = sunk'[i].by /\ ~ Unrecorded(y)
            BY <3>1, <3>3, <5>2 DEF RowInv, OnlyRecorded
          <6> QED
            BY <4>1, <6>1 DEF Unrecorded
        <5> QED
          BY <5>1, <5>2
      <4> QED
        BY <4>2, <4>3 DEF OnlyRecorded
    <3>8. CodeIsReplys'
      BY <2>2 DEF RowInv, CodeIsReplys
    <3> QED
      BY <3>6, <3>7, <3>8 DEF RowInv
  <2> QED
    BY <2>3, <2>4, <2>5
<1> QED
  BY <1>3, <1>4

\* A reply after the wait is never a refusal.
LEMMA AwaitKeepsRows ==
  ASSUME Inv, RowInv, NEW x \in Handlers, AwaitReplayRow(x)
  PROVE  RowInv'
<1>1. h[x].at = "await" /\ UNCHANGED <<kept, sunk>>
  BY DEF AwaitReplayRow
<1>2. NewestReplay(h[x].of) \in Nat
  BY <1>1, NewestIsNewest DEF Inv, Typed
<1>3. PICK code \in {200, 500}, row \in Nat : Reply(x, code, row)
  BY <1>2 DEF AwaitReplayRow
<1>4. /\ \A y \in Handlers \ {x} : h'[y] = h[y]
      /\ h'[x].at = "replied" /\ h'[x].code = code /\ h'[x].noCapture = h[x].noCapture
  BY <1>3, ReplyFields
<1>5. Unrecorded(x) \/ ~ Unrecorded(x)'
  BY <1>3, <1>4 DEF Unrecorded
<1> QED
  BY <1>1, <1>4, <1>5, CallStepKeepsRows

\* The row takes the place of the call in the sink.
LEMMA InsertKeepsRows ==
  ASSUME Inv, RowInv, InsertReplay
  PROVE  RowInv'
<1> DEFINE n == [id |-> freeId, of |-> Head(sunk).of, started |-> Head(sunk).started,
                 by |-> Head(sunk).by]
<1>1. sunk # <<>> /\ sunk' = Tail(sunk) /\ h' = h /\ (kept' = kept \/ kept' = kept \cup {n})
  BY DEF InsertReplay
<1>2. sunk \in Seq(Sunk)
  BY DEF Inv, Typed
<1>3. 1 \in DOMAIN sunk /\ Head(sunk) = sunk[1]
  BY <1>1, <1>2
<1>4. \A i \in DOMAIN sunk' : /\ i + 1 \in DOMAIN sunk /\ i + 1 # 1
                              /\ i \in Nat /\ sunk'[i] = sunk[i + 1]
  BY <1>1, <1>2
<1>5. n.by = sunk[1].by
  BY <1>3
<1> HIDE DEF n
<1>6. OneEach'
  <2>1. ASSUME NEW r \in kept', NEW s \in kept', r.by = s.by PROVE r = s
    BY <1>1, <1>3, <1>5, <2>1 DEF RowInv, OneEach
  <2>2. ASSUME NEW i \in DOMAIN sunk', NEW j \in DOMAIN sunk', sunk'[i].by = sunk'[j].by
        PROVE  i = j
    <3>1. i + 1 = j + 1
      BY <1>4, <2>2 DEF RowInv, OneEach
    <3> QED
      BY <1>4, <3>1
  <2>3. ASSUME NEW r \in kept', NEW i \in DOMAIN sunk' PROVE r.by # sunk'[i].by
    BY <1>1, <1>3, <1>4, <1>5 DEF RowInv, OneEach
  <2> QED
    BY <2>1, <2>2, <2>3 DEF OneEach
<1>7. OnlyRecorded' /\ CodeIsReplys'
  BY <1>1, <1>3, <1>4, <1>5 DEF RowInv, OnlyRecorded, CodeIsReplys, Unrecorded
<1> QED
  BY <1>6, <1>7 DEF RowInv

LEMMA NextKeepsRows ==
  ASSUME Inv, RowInv, [ReplayNext]_replayVars
  PROVE  RowInv'
<1>1. ASSUME NEW x \in Handlers, AskPrice(x) \/ Ask(x) PROVE RowInv'
  BY <1>1, EarlyStepKeepsRows
<1>2. ASSUME NEW x \in Handlers, Route(x) PROVE RowInv'
  BY <1>2, EarlyStepKeepsRows, AnswerKeepsRows, AwaitKeepsRows DEF Route
<1>3. CASE InsertReplay
  BY <1>3, InsertKeepsRows
<1>4. ASSUME NEW of \in Originals, PurgeOriginal(of) PROVE RowInv'
  <2> DEFINE f(r) == IF r.of = of THEN [r EXCEPT !.of = 0] ELSE r
  <2>1. sunk' = sunk /\ h' = h /\ kept' = {f(r) : r \in kept}
    BY <1>4 DEF PurgeOriginal
  <2>2. \A r \in kept : f(r).by = r.by
    BY DEF Inv, Typed, Row
  <2> HIDE DEF f
  <2>3. OneEach'
    BY <2>1, <2>2 DEF RowInv, OneEach
  <2>4. OnlyRecorded' /\ CodeIsReplys'
    BY <2>1, <2>2 DEF RowInv, OnlyRecorded, CodeIsReplys, Unrecorded
  <2> QED
    BY <2>3, <2>4 DEF RowInv
<1>5. ASSUME kept' \subseteq kept, sunk' = sunk, h' = h PROVE RowInv'
  BY <1>5 DEF RowInv, OneEach, OnlyRecorded, CodeIsReplys, Unrecorded
<1>6. ASSUME NEW r \in kept, PurgeReplay(r) PROVE RowInv'
  BY <1>5, <1>6 DEF PurgeReplay
<1>7. CASE SetClock \/ UNCHANGED replayVars
  BY <1>5, <1>7 DEF SetClock, replayVars
<1> QED
  BY <1>1, <1>2, <1>3, <1>4, <1>6, <1>7 DEF ReplayNext

\* No two of S, and it has at most one member.
LEMMA AtMostOne ==
  ASSUME NEW S, \A a, b \in S : a = b
  PROVE  /\ S = {} => Cardinality(S) = 0
         /\ S # {} => Cardinality(S) = 1
<1>1. S = {} => Cardinality(S) = 0
  BY FS_EmptySet
<1>2. CASE S # {}
  <2>1. PICK a \in S : TRUE
    BY <1>2
  <2>2. S = {a}
    BY <2>1
  <2> QED
    BY <1>1, <2>2, FS_Singleton
<1> QED
  BY <1>1, <1>2

LEMMA RowsCounted ==
  ASSUME Inv, RowInv
  PROVE  OneRowPerReplay
<1> SUFFICES ASSUME NEW x \in Handlers
             PROVE  Cardinality({r \in kept : r.by = x})
                      + Cardinality({i \in DOMAIN sunk : sunk[i].by = x})
                      <= IF Unrecorded(x) THEN 0 ELSE 1
  BY DEF OneRowPerReplay
<1> DEFINE R == {r \in kept : r.by = x}
           S == {i \in DOMAIN sunk : sunk[i].by = x}
<1>1. (\A r, s \in R : r = s) /\ (\A i, j \in S : i = j)
  BY DEF RowInv, OneEach
<1>2. R = {} \/ S = {}
  BY DEF RowInv, OneEach
<1>3. Unrecorded(x) => R = {} /\ S = {}
  BY DEF RowInv, OnlyRecorded
<1> HIDE DEF R, S
<1>4. Cardinality(R) \in {0, 1} /\ Cardinality(S) \in {0, 1}
      /\ (R = {} => Cardinality(R) = 0) /\ (S = {} => Cardinality(S) = 0)
  BY <1>1, AtMostOne
<1>5. Cardinality(R) + Cardinality(S) <= IF Unrecorded(x) THEN 0 ELSE 1
  BY <1>2, <1>3, <1>4
<1> QED
  BY <1>5 DEF R, S

\* However sends, inserts, purges and replies interleave, a replay leaves at most
\* one row, and none when it was turned away or is not to be recorded.
THEOREM ReplaysLeaveOneRow == ReplaySpec => []OneRowPerReplay
<1>1. ReplayInit => Inv /\ RowInv
  <2>1. ASSUME ReplayInit PROVE RowInv
    BY <2>1 DEF ReplayInit, RowInv, OneEach, OnlyRecorded, CodeIsReplys, NoCall
  <2> QED
    BY <2>1, InitHolds
<1>2. Inv /\ RowInv /\ [ReplayNext]_replayVars => Inv' /\ RowInv'
  BY NextKeeps, NextKeepsRows
<1>3. Inv /\ RowInv => OneRowPerReplay
  BY RowsCounted
<1> QED
  BY <1>1, <1>2, <1>3, PTL DEF ReplaySpec
=============================================================================
