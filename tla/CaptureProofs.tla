--------------------------- MODULE CaptureProofs ---------------------------
(***************************************************************************)
(* What Capture keeps for every set of calls, every channel capacity,      *)
(* every batch size and any number of faults: its types, the conservation  *)
(* of accepted calls, the quiet timer, the batch limit, the refinement of  *)
(* CaptureLog, and what its counters and its faults say of the calls.      *)
(*                                                                         *)
(* Conservation is not inductive alone: Receive appends to a batch of      *)
(* which nothing may have been prepared, InsertOne and Fold take the head  *)
(* of a sequence that must not be empty, and EndFlush throws away a batch  *)
(* that must have been prepared to its last call.  FlushPhases says so.    *)
(*                                                                         *)
(* The refinement needs that invariant and no more.  The counts need three *)
(* facts of their own: ShutdownCancelled (a flush writes on a context that *)
(* works unless Run was cancelled), StatsExact (the counters at every      *)
(* step, not only while Run waits) and OwedRows (which rows finishCall     *)
(* still owes).                                                            *)
(***************************************************************************)
EXTENDS Capture, SequenceTheorems, FiniteSetTheorems, TLAPS

\* What the consumer's phases say about the flush under way.
FlushPhases ==
  /\ pc \in {"select", "drain", "done"} => prepared = 0
  /\ pc \in {"rows", "finish", "fold"} => prepared = Len(batch)
  /\ pc = "rows" => pend # << >>
  /\ pc \notin {"prepare", "rows"} => pend = << >>
  /\ pc = "fold" => todo # << >>

\* The inductive invariant.
IInv == TypeOK /\ FlushPhases /\ EveryCallInOnePlace

-----------------------------------------------------------------------------
(***************************************************************************)
(* Sequences as sets: what appending, removing the head and concatenating  *)
(* do to the range and to the absence of repetitions.                      *)
(***************************************************************************)

\* A sequence that gains a new last element gains it in its range, once.
LEMMA AppendRange ==
  ASSUME NEW S, NEW s \in Seq(S), NEW e \in S
  PROVE  /\ Append(s, e) \in Seq(S)
         /\ Len(Append(s, e)) = Len(s) + 1
         /\ Range(Append(s, e)) = Range(s) \cup {e}
         /\ IsInjective(s) /\ e \notin Range(s) => IsInjective(Append(s, e))
<1>1. /\ Append(s, e) \in Seq(S)
      /\ Len(Append(s, e)) = Len(s) + 1
      /\ \A i \in 1..Len(s) : Append(s, e)[i] = s[i]
      /\ Append(s, e)[Len(s) + 1] = e
  BY AppendProperties
<1>2. DOMAIN s = 1..Len(s) /\ DOMAIN Append(s, e) = 1..(Len(s) + 1) /\ Len(s) \in Nat
  BY <1>1, LenProperties
<1>3. Range(Append(s, e)) = Range(s) \cup {e}
  BY <1>1, <1>2 DEF Range
<1>4. ASSUME IsInjective(s), e \notin Range(s)
      PROVE  IsInjective(Append(s, e))
  BY <1>1, <1>2, <1>4 DEF Range, IsInjective
<1>5. QED
  BY <1>1, <1>3, <1>4

\* Nothing is left behind the only element.
LEMMA LastIsAlone ==
  ASSUME NEW S, NEW s \in Seq(S), s # << >>
  PROVE  Len(s) = 1 <=> Tail(s) = << >>
<1>1. Tail(s) \in Seq(S) /\ Len(Tail(s)) = Len(s) - 1 /\ Len(s) \in Nat
  BY HeadTailProperties, LenProperties
<1>2. Len(Tail(s)) = 0 <=> Tail(s) = << >>
  BY <1>1, EmptySeq
<1>3. QED
  BY <1>1, <1>2

\* The head leaves the range of a sequence without repetitions.
LEMMA TailRange ==
  ASSUME NEW S, NEW s \in Seq(S), s # << >>
  PROVE  /\ Head(s) \in S /\ Head(s) \in Range(s)
         /\ Tail(s) \in Seq(S)
         /\ Len(Tail(s)) = Len(s) - 1
         /\ IsInjective(s) => /\ IsInjective(Tail(s))
                              /\ Range(Tail(s)) = Range(s) \ {Head(s)}
<1>1. /\ Head(s) \in S
      /\ Tail(s) \in Seq(S)
      /\ Len(Tail(s)) = Len(s) - 1
      /\ \A i \in 1..Len(Tail(s)) : Tail(s)[i] = s[i + 1]
  BY HeadTailProperties
<1>2. Len(s) \in Nat \ {0}
  BY EmptySeq
<1>3. DOMAIN s = 1..Len(s) /\ DOMAIN Tail(s) = 1..(Len(s) - 1)
  BY <1>1, <1>2, LenProperties
<1>4. Head(s) = s[1]
  BY <1>2
<1>5. Head(s) \in Range(s)
  BY <1>2, <1>3, <1>4 DEF Range
<1>6. ASSUME IsInjective(s)
      PROVE  IsInjective(Tail(s)) /\ Range(Tail(s)) = Range(s) \ {Head(s)}
  <2>1. \A i \in 1..(Len(s) - 1) : Tail(s)[i] = s[i + 1] /\ i + 1 \in 1..Len(s)
    BY <1>1, <1>2
  <2>2. IsInjective(Tail(s))
    BY <2>1, <1>2, <1>3, <1>6 DEF IsInjective
  <2>3. \A i \in 1..(Len(s) - 1) : s[i + 1] \in Range(s) /\ s[i + 1] # s[1]
    BY <2>1, <1>2, <1>3, <1>6 DEF IsInjective, Range
  <2>4. \A i \in 1..Len(s) : s[i] # s[1] => i - 1 \in 1..(Len(s) - 1) /\ s[i] = Tail(s)[i - 1]
    BY <2>1, <1>2
  <2>5. \A x : x \in Range(Tail(s)) <=> \E i \in 1..(Len(s) - 1) : Tail(s)[i] = x
    BY <1>3 DEF Range
  <2>6. \A x : x \in Range(s) <=> \E i \in 1..Len(s) : s[i] = x
    BY <1>3 DEF Range
  <2>7. \A x : x \in Range(Tail(s)) => x \in Range(s) /\ x # Head(s)
    BY <2>1, <2>3, <2>5, <1>4
  <2>8. \A x : x \in Range(s) /\ x # Head(s) => x \in Range(Tail(s))
    BY <2>4, <2>5, <2>6, <1>4
  <2>9. QED
    BY <2>2, <2>7, <2>8
<1>7. QED
  BY <1>1, <1>5, <1>6

\* Two sequences with nothing in common and no repetitions concatenate to one.
LEMMA ConcatRange ==
  ASSUME NEW S, NEW s \in Seq(S), NEW t \in Seq(S)
  PROVE  /\ s \o t \in Seq(S)
         /\ Range(s \o t) = Range(s) \cup Range(t)
         /\ IsInjective(s) /\ IsInjective(t) /\ Range(s) \cap Range(t) = {}
              => IsInjective(s \o t)
<1>1. /\ s \o t \in Seq(S)
      /\ Len(s \o t) = Len(s) + Len(t)
      /\ \A i \in 1..(Len(s) + Len(t)) :
           (s \o t)[i] = IF i <= Len(s) THEN s[i] ELSE t[i - Len(s)]
  BY ConcatProperties
<1>2. /\ Len(s) \in Nat /\ Len(t) \in Nat
      /\ DOMAIN s = 1..Len(s) /\ DOMAIN t = 1..Len(t)
      /\ DOMAIN (s \o t) = 1..(Len(s) + Len(t))
  BY <1>1, LenProperties
<1>3. Range(s \o t) = Range(s) \cup Range(t)
  <2>1. Range(s \o t) \subseteq Range(s) \cup Range(t)
    BY <1>1, <1>2 DEF Range
  <2>2. \A i \in 1..Len(s) : i \in 1..(Len(s) + Len(t)) /\ (s \o t)[i] = s[i]
    BY <1>1, <1>2
  <2>3. \A i \in 1..Len(t) :
          /\ i + Len(s) \in 1..(Len(s) + Len(t))
          /\ (s \o t)[i + Len(s)] = t[i]
    BY <1>1, <1>2
  <2>4. Range(s) \subseteq Range(s \o t)
    BY <2>2, <1>2 DEF Range
  <2>5. Range(t) \subseteq Range(s \o t)
    BY <2>3, <1>2 DEF Range
  <2>6. QED
    BY <2>1, <2>4, <2>5
<1>4. ASSUME IsInjective(s), IsInjective(t), Range(s) \cap Range(t) = {}
      PROVE  IsInjective(s \o t)
  <2>1. \A i \in 1..Len(s), j \in 1..Len(t) : s[i] # t[j]
    BY <1>2, <1>4 DEF Range
  <2>2. QED
    BY <2>1, <1>1, <1>2, <1>4 DEF IsInjective
<1>5. QED
  BY <1>1, <1>3, <1>4

\* The empty sequence has an empty range and no repetitions.
LEMMA EmptyRange == Range(<< >>) = {} /\ IsInjective(<< >>)
  BY DEF Range, IsInjective

-----------------------------------------------------------------------------
(***************************************************************************)
(* Types and phases.                                                       *)
(***************************************************************************)

\* What every step may assume of the state it starts from.
TypedPhases == TypeOK /\ FlushPhases

LEMMA TypedPhasesInit == Init => TypedPhases
<1> SUFFICES ASSUME Init PROVE TypedPhases
  OBVIOUS
<1>1. << >> \in Seq(Calls) /\ Len(<< >>) = 0
  BY EmptySeq
<1>2. stage \in [Calls -> Stages]
  BY DEF Init, Stages
<1>3. FlushPhases
  BY DEF Init, FlushPhases
<1>4. /\ sink \in [accepted : Nat, dropped : Nat]
      /\ stats \in [processed : Nat, failed : Nat]
  BY DEF Init
<1>5. queue \in Seq(Calls) /\ Len(queue) <= Capacity
  BY <1>1, CaptureAssumption DEF Init
<1>6. batch \in Seq(Calls) /\ prepared \in 0..Len(batch)
  BY <1>1 DEF Init
<1>7. pend \in Seq(Calls) /\ todo \in Seq(Calls) /\ rows \in Seq(Calls)
  BY <1>1 DEF Init
<1>8. faults \in 0..MaxFaults
  BY CaptureAssumption DEF Init
<1>9. /\ uncounted \subseteq Calls /\ warned \subseteq Calls /\ folded \subseteq Calls
      /\ pc \in Phases
      /\ timer \in BOOLEAN /\ cancelled \in BOOLEAN
      /\ final \in BOOLEAN /\ expired \in BOOLEAN
  BY DEF Init, Phases
<1>10. QED
  BY <1>2, <1>3, <1>4, <1>5, <1>6, <1>7, <1>8, <1>9 DEF TypedPhases, TypeOK

\* Consumer.Stats stays a pair of naturals, whichever counter grows.
LEMMA StatsGrow ==
  ASSUME NEW s \in [processed : Nat, failed : Nat], NEW n \in Nat
  PROVE  /\ [s EXCEPT !.processed = @ + n] \in [processed : Nat, failed : Nat]
         /\ [s EXCEPT !.failed = @ + n] \in [processed : Nat, failed : Nat]
  OBVIOUS

\* A producer's step, a cancellation and the passing of time leave the flush alone.
LEMMA TypedPhasesOutside ==
  ASSUME TypedPhases,
         Producer \/ Cancel \/ Expire
  PROVE  TypedPhases'
<1> USE CaptureAssumption DEF TypedPhases, TypeOK, FlushPhases, flushVars, clockVars, producerVars
<1>1. ASSUME NEW c \in Calls, Submit(c)
      PROVE  TypedPhases'
  <2>1. CASE HasRoom
    <3>1. /\ queue' = Append(queue, c)
          /\ stage' = [stage EXCEPT ![c] = "queued"]
      BY <1>1, <2>1 DEF Submit
    <3>2. queue' \in Seq(Calls) /\ Len(queue') <= Capacity
      BY <3>1, <2>1, AppendRange, LenProperties DEF HasRoom
    <3>3. QED
      BY <1>1, <3>1, <3>2 DEF Submit, Stages
  <2>2. CASE ~HasRoom
    BY <1>1, <2>2 DEF Submit, Stages
  <2>3. QED
    BY <2>1, <2>2
<1>2. ASSUME NEW c \in Calls, CountSubmit(c)
      PROVE  TypedPhases'
  BY <1>2, SMTT(30) DEF CountSubmit
<1>3. CASE Cancel
  BY <1>3 DEF Cancel
<1>4. CASE Expire
  BY <1>4 DEF Expire
<1>5. QED
  BY <1>1, <1>2, <1>3, <1>4 DEF Producer

\* Run's own steps: receiving, waiting, and shutting down.
LEMMA TypedPhasesRun ==
  ASSUME TypedPhases,
         Receive \/ QuietTimeout \/ CtxDone \/ DrainReceive \/ DrainStop
  PROVE  TypedPhases'
<1> USE CaptureAssumption DEF TypedPhases, TypeOK, FlushPhases, flushVars, clockVars, producerVars
<1>1. ASSUME queue # << >>,
             queue' = Tail(queue),
             batch' = Append(batch, Head(queue)),
             stage' = [stage EXCEPT ![Head(queue)] = "taken"]
      PROVE  /\ queue' \in Seq(Calls) /\ Len(queue') <= Capacity
             /\ batch' \in Seq(Calls) /\ prepared \in 0..Len(batch')
             /\ stage' \in [Calls -> Stages]
  <2>1. Head(queue) \in Calls /\ Tail(queue) \in Seq(Calls) /\ Len(Tail(queue)) = Len(queue) - 1
    BY <1>1, TailRange
  <2>2. Append(batch, Head(queue)) \in Seq(Calls) /\ Len(Append(batch, Head(queue))) = Len(batch) + 1
    BY <2>1, AppendRange
  <2>3. QED
    BY <1>1, <2>1, <2>2, LenProperties DEF Stages
<1>2. CASE Receive
  BY <1>1, <1>2 DEF Receive, ArmTimer, Phases
<1>3. CASE QuietTimeout
  BY <1>3 DEF QuietTimeout, Phases
<1>4. CASE CtxDone
  BY <1>4 DEF CtxDone, Phases
<1>5. CASE DrainReceive
  BY <1>1, <1>5 DEF DrainReceive, Phases
<1>6. CASE DrainStop
  BY <1>6 DEF DrainStop, Phases
<1>7. QED
  BY <1>2, <1>3, <1>4, <1>5, <1>6

\* The flush, from prepareCall to the emptied batch.
LEMMA TypedPhasesFlush ==
  ASSUME TypedPhases, Flush
  PROVE  TypedPhases'
<1> USE CaptureAssumption DEF TypedPhases, TypeOK, FlushPhases, flushVars, clockVars, producerVars
<1>1. CASE Prepare
  <2>1. prepared + 1 \in 1..Len(batch) /\ batch[prepared + 1] \in Calls
    <3>1. batch \in Seq(Calls) /\ prepared \in 0..Len(batch) /\ prepared < Len(batch)
      BY <1>1 DEF Prepare
    <3>2. Len(batch) \in Nat
      BY <3>1, LenProperties, Zenon
    <3>3. prepared + 1 \in 1..Len(batch)
      BY <3>1, <3>2
    <3>4. QED
      BY <3>1, <3>3, ElementOfSeq
  <2>2. Append(pend, batch[prepared + 1]) \in Seq(Calls)
    BY <2>1, AppendRange
  <2>3. stage' \in [Calls -> Stages] /\ pend' \in Seq(Calls)
    BY <1>1, <2>1, <2>2 DEF Prepare, Stages, Settled
  <2>4. stats' \in [processed : Nat, failed : Nat]
    BY <1>1, StatsGrow DEF Prepare
  <2>5. prepared' \in 0..Len(batch')
    BY <1>1, <2>1 DEF Prepare
  <2>6. QED
    BY <1>1, <2>3, <2>4, <2>5 DEF Prepare
<1>2. CASE NothingToInsert
  BY <1>2 DEF NothingToInsert, Phases
<1>3. CASE InsertGrouped
  <2>1. rows' \in Seq(Calls)
    BY <1>3, ConcatProperties DEF InsertGrouped
  <2>2. stage' \in [Calls -> Stages]
    BY <1>3 DEF InsertGrouped, Stages, Settled
  <2>3. stats' \in [processed : Nat, failed : Nat]
    <3>1. Len(pend) \in Nat
      BY LenProperties
    <3>2. stats' = [stats EXCEPT !.processed = @ + Len(pend)]
      BY <1>3 DEF InsertGrouped, CountCommitted
    <3>3. QED
      BY <3>1, <3>2, StatsGrow
  <2>4. QED
    BY <1>3, <2>1, <2>2, <2>3, EmptySeq DEF InsertGrouped, Phases
<1>4. CASE RollBack
  <2>1. faults' \in 0..MaxFaults
    BY <1>4 DEF RollBack, Refused, Fault
  <2>2. QED
    BY <1>4, <2>1 DEF RollBack, RetryRowByRow, Phases
<1>5. CASE InsertOne
  <2>1. /\ Head(pend) \in Calls
        /\ Tail(pend) \in Seq(Calls)
        /\ Len(Tail(pend)) = Len(pend) - 1
    BY <1>5, TailRange DEF InsertOne
  <2>2. rows' \in Seq(Calls) /\ todo' \in Seq(Calls)
    <3>1. Append(rows, Head(pend)) \in Seq(Calls) /\ Append(todo, Head(pend)) \in Seq(Calls)
      BY <2>1, AppendRange
    <3>2. QED
      BY <1>5, <3>1 DEF InsertOne, AttachRow
  <2>3. stage' \in [Calls -> Stages] /\ stats' \in [processed : Nat, failed : Nat]
    <3>1. /\ [stage EXCEPT ![Head(pend)] = "stored"] \in [Calls -> Stages]
          /\ [stage EXCEPT ![Head(pend)] = "failed"] \in [Calls -> Stages]
      BY <2>1 DEF Stages, Settled
    <3>2. /\ [stats EXCEPT !.processed = @ + 1] \in [processed : Nat, failed : Nat]
          /\ [stats EXCEPT !.failed = @ + 1] \in [processed : Nat, failed : Nat]
      BY StatsGrow
    <3>3. QED
      BY <1>5, <3>1, <3>2 DEF InsertOne
  <2>4. faults' \in 0..MaxFaults
    BY <1>5 DEF InsertOne, Refused, Fault
  <2>5. /\ pc' \in {"finish", "rows"}
        /\ pc' = "rows" <=> pend' # << >>
    <3>1. pend \in Seq(Calls) /\ pend # << >>
      BY <1>5 DEF InsertOne
    <3>2. Len(pend) = 1 <=> Tail(pend) = << >>
      BY <3>1, LastIsAlone, Zenon
    <3>3. /\ pend' = Tail(pend)
          /\ pc' = IF Len(pend) = 1 THEN "finish" ELSE "rows"
      BY <1>5 DEF InsertOne
    <3>4. QED
      BY Zenon, <3>2, <3>3
  <2>6. QED
    BY <1>5, <2>1, <2>2, <2>3, <2>4, <2>5 DEF InsertOne, Phases
<1>6. CASE WriteWarnings
  BY <1>6 DEF WriteWarnings, Phases
<1>7. CASE WarningsFail
  <2>1. Tail(todo) \in Seq(Calls)
    <3>1. todo \in Seq(Calls) /\ todo # << >>
      BY <1>7 DEF WarningsFail
    <3>2. QED
      BY <3>1, TailRange, Zenon
  <2>2. faults' \in 0..MaxFaults
    BY <1>7 DEF WarningsFail, Refused, Fault
  <2>3. stats' \in [processed : Nat, failed : Nat] /\ todo' \in Seq(Calls)
    BY <1>7, <2>1, StatsGrow DEF WarningsFail
  <2>4. /\ pc' \in {"finish", "fold"}
        /\ pc' = "fold" => todo' # << >>
    BY <1>7 DEF WarningsFail
  <2>5. QED
    BY <1>7, <2>2, <2>3, <2>4 DEF WarningsFail, Phases
<1>8. CASE Fold
  <2>1. Tail(todo) \in Seq(Calls) /\ Head(todo) \in Calls
    <3>1. todo \in Seq(Calls) /\ todo # << >>
      BY <1>8 DEF Fold
    <3>2. QED
      BY <3>1, TailRange, Zenon
  <2>2. faults' \in 0..MaxFaults
    BY <1>8 DEF Fold, Refused, Fault
  <2>3. stats' \in [processed : Nat, failed : Nat] /\ folded' \subseteq Calls
    <3>1. [stats EXCEPT !.failed = @ + 1] \in [processed : Nat, failed : Nat]
      BY StatsGrow
    <3>2. QED
      BY <1>8, <2>1, <3>1 DEF Fold
  <2>4. QED
    BY <1>8, <2>1, <2>2, <2>3 DEF Fold, Phases
<1>9. CASE EndFlush
  <2>1. << >> \in Seq(Calls) /\ Len(<< >>) = 0
    BY EmptySeq
  <2>2. batch' = << >> /\ prepared' = 0 /\ timer' = FALSE /\ pc' \in {"done", "select"}
    BY <1>9 DEF EndFlush, EmptyBatch, RewindCursor, StopTimer
  <2>3. batch' \in Seq(Calls) /\ prepared' \in 0..Len(batch')
    BY <2>1, <2>2
  <2>4. QED
    BY <1>9, <2>2, <2>3 DEF EndFlush, Phases
<1>10. QED
  BY <1>1, <1>2, <1>3, <1>4, <1>5, <1>6, <1>7, <1>8, <1>9 DEF Flush

LEMMA TypedPhasesStep == TypedPhases /\ [Next]_vars => TypedPhases'
<1> SUFFICES ASSUME TypedPhases, [Next]_vars PROVE TypedPhases'
  OBVIOUS
<1>1. CASE Producer \/ Cancel \/ Expire
  BY <1>1, TypedPhasesOutside
<1>2. CASE Consumer
  BY <1>2, TypedPhasesRun, TypedPhasesFlush DEF Consumer
<1>3. CASE UNCHANGED vars
  BY <1>3 DEF vars, TypedPhases, TypeOK, FlushPhases
<1>4. QED
  BY <1>1, <1>2, <1>3 DEF Next, Done

\* Every reachable state is typed, in every instance: in particular the cursor
\* of a flush stays within its batch and the channel within its capacity.
THEOREM TypeCorrect == Spec => []TypeOK
<1>1. TypedPhases => TypeOK
  BY DEF TypedPhases
<1>2. QED
  BY <1>1, TypedPhasesInit, TypedPhasesStep, PTL DEF Spec

-----------------------------------------------------------------------------
(***************************************************************************)
(* Conservation.                                                           *)
(***************************************************************************)

\* What a flush over batch b has left to prepare once n calls are prepared.
Rest(b, n) == {b[i] : i \in (n + 1)..Len(b)}

\* All of it at first, one call fewer with every prepareCall, nothing at the end.
LEMMA RestOfBatch ==
  ASSUME NEW S, NEW b \in Seq(S), IsInjective(b)
  PROVE  /\ Rest(b, 0) = Range(b)
         /\ Rest(b, Len(b)) = {}
         /\ \A n \in 0..(Len(b) - 1) :
              /\ b[n + 1] \in Rest(b, n)
              /\ Rest(b, n + 1) = Rest(b, n) \ {b[n + 1]}
<1>1. Len(b) \in Nat /\ DOMAIN b = 1..Len(b)
  BY LenProperties
<1>2. Rest(b, 0) = Range(b)
  BY <1>1 DEF Rest, Range
<1>3. Rest(b, Len(b)) = {}
  BY <1>1 DEF Rest
<1>4. ASSUME NEW n \in 0..(Len(b) - 1)
      PROVE  /\ b[n + 1] \in Rest(b, n)
             /\ Rest(b, n + 1) = Rest(b, n) \ {b[n + 1]}
  <2>1. n + 1 \in (n + 1)..Len(b)
    BY <1>1
  <2>2. \A i \in (n + 1)..Len(b) : i = n + 1 \/ i \in (n + 2)..Len(b)
    BY <1>1
  <2>3. \A i \in (n + 2)..Len(b) : i \in (n + 1)..Len(b) /\ b[i] # b[n + 1]
    BY <1>1 DEF IsInjective
  <2>4. Rest(b, n + 1) = {b[i] : i \in (n + 2)..Len(b)}
    BY DEF Rest
  <2>5. \A x : x \in Rest(b, n + 1) <=> x \in Rest(b, n) /\ x # b[n + 1]
    BY <2>1, <2>2, <2>3, <2>4 DEF Rest
  <2>6. QED
    BY <2>1, <2>5 DEF Rest
<1>5. QED
  BY <1>2, <1>3, <1>4

LEMMA PlacesInit == Init => EveryCallInOnePlace
<1> SUFFICES ASSUME Init PROVE EveryCallInOnePlace
  OBVIOUS
<1>1. \A s : s # "open" => CallsAt({s}) = {}
  BY DEF Init, CallsAt
<1>2. Unprepared = {}
  BY EmptySeq DEF Init, Unprepared
<1>3. QED
  BY <1>1, <1>2, EmptyRange DEF Init, EveryCallInOnePlace

\* A step that moves no call between stages and touches no place.
LEMMA PlacesStay ==
  ASSUME EveryCallInOnePlace,
         UNCHANGED <<stage, queue, batch, prepared, pend, rows>>
  PROVE  EveryCallInOnePlace'
BY DEF EveryCallInOnePlace, Unprepared, CallsAt

\* The sink: a call enters the channel, or is dropped and enters nothing.
LEMMA PlacesSubmit ==
  ASSUME TypedPhases, EveryCallInOnePlace,
         NEW c \in Calls, Submit(c)
  PROVE  EveryCallInOnePlace'
<1> USE DEF TypedPhases, TypeOK
<1>1. UNCHANGED <<batch, prepared, pend, rows>> /\ stage[c] = "open"
  BY DEF Submit, flushVars
<1>2. Unprepared' = Unprepared
  BY <1>1 DEF Unprepared
<1>3. CASE HasRoom
  <2>1. /\ queue' = Append(queue, c)
        /\ stage' = [stage EXCEPT ![c] = "queued"]
    BY <1>3 DEF Submit
  <2>2. /\ CallsAt({"queued"})' = CallsAt({"queued"}) \cup {c}
        /\ c \notin CallsAt({"queued"})
        /\ \A s \in {"taken", "pending", "stored"} : CallsAt({s})' = CallsAt({s})
    BY <1>1, <2>1 DEF CallsAt
  <2>3. Range(queue') = Range(queue) \cup {c} /\ IsInjective(queue')
    BY <2>1, <2>2, AppendRange DEF EveryCallInOnePlace
  <2>4. QED
    BY <1>1, <1>2, <2>2, <2>3 DEF EveryCallInOnePlace
<1>4. CASE ~HasRoom
  <2>1. /\ queue' = queue
        /\ stage' = [stage EXCEPT ![c] = "dropped"]
    BY <1>4 DEF Submit
  <2>2. \A s \in {"queued", "taken", "pending", "stored"} : CallsAt({s})' = CallsAt({s})
    BY <1>1, <2>1 DEF CallsAt
  <2>3. QED
    BY <1>1, <1>2, <2>1, <2>2 DEF EveryCallInOnePlace
<1>5. QED
  BY <1>3, <1>4

\* Run and drainRemaining move the head of the channel to the end of a batch
\* nothing of which is prepared.
LEMMA PlacesReceive ==
  ASSUME TypedPhases, EveryCallInOnePlace, Receive \/ DrainReceive
  PROVE  EveryCallInOnePlace'
<1> USE DEF TypedPhases, TypeOK, FlushPhases
<1> DEFINE h == Head(queue)
<1>1. /\ queue # << >>
      /\ prepared = 0 /\ prepared' = 0
      /\ queue' = Tail(queue)
      /\ batch' = Append(batch, h)
      /\ stage' = [stage EXCEPT ![h] = "taken"]
      /\ UNCHANGED <<pend, rows>>
  BY DEF Receive, DrainReceive, flushVars
<1>2. /\ h \in Calls /\ h \in Range(queue)
      /\ Range(Tail(queue)) = Range(queue) \ {h} /\ IsInjective(Tail(queue))
  BY <1>1, TailRange DEF EveryCallInOnePlace
<1>3. h \in CallsAt({"queued"}) /\ stage[h] = "queued"
  BY <1>2 DEF EveryCallInOnePlace, CallsAt
<1>4. /\ CallsAt({"taken"})' = CallsAt({"taken"}) \cup {h}
      /\ CallsAt({"queued"})' = CallsAt({"queued"}) \ {h}
      /\ h \notin CallsAt({"taken"})
      /\ \A s \in {"pending", "stored"} : CallsAt({s})' = CallsAt({s})
  BY <1>1, <1>2, <1>3 DEF CallsAt
<1>5. Range(batch) = CallsAt({"taken"}) /\ IsInjective(batch)
  BY <1>1, RestOfBatch DEF EveryCallInOnePlace, Unprepared, Rest
<1>6. /\ Append(batch, h) \in Seq(Calls)
      /\ Range(Append(batch, h)) = Range(batch) \cup {h}
      /\ IsInjective(Append(batch, h))
  BY <1>2, <1>4, <1>5, AppendRange
<1>7. Unprepared' = Range(batch) \cup {h}
  <2>1. Unprepared' = Rest(Append(batch, h), 0)
    BY <1>1 DEF Unprepared, Rest
  <2>2. Rest(Append(batch, h), 0) = Range(Append(batch, h))
    BY <1>6, RestOfBatch
  <2>3. QED
    BY <1>6, <2>1, <2>2
<1>8. QED
  BY <1>1, <1>2, <1>4, <1>5, <1>6, <1>7 DEF EveryCallInOnePlace

\* prepareCall takes the next call of the batch, to the rows to insert or away.
LEMMA PlacesPrepare ==
  ASSUME TypedPhases, EveryCallInOnePlace, Prepare
  PROVE  EveryCallInOnePlace'
<1> USE DEF TypedPhases, TypeOK
<1> DEFINE c == batch[prepared + 1]
<1>1. /\ prepared \in 0..(Len(batch) - 1)
      /\ prepared' = prepared + 1
      /\ UNCHANGED <<queue, batch, rows>>
  BY LenProperties DEF Prepare, producerVars
<1>2. /\ c \in Unprepared
      /\ Unprepared' = Unprepared \ {c}
  <2>1. Unprepared = Rest(batch, prepared) /\ Unprepared' = Rest(batch, prepared + 1)
    BY <1>1 DEF Unprepared, Rest
  <2>2. QED
    BY <1>1, <2>1, RestOfBatch DEF EveryCallInOnePlace
<1>3. c \in Calls /\ stage[c] = "taken"
  BY <1>2 DEF EveryCallInOnePlace, CallsAt
<1>4. CASE c \in Panics
  <2>1. stage' = [stage EXCEPT ![c] = "failed"] /\ pend' = pend
    BY <1>4 DEF Prepare
  <2>2. /\ CallsAt({"taken"})' = CallsAt({"taken"}) \ {c}
        /\ \A s \in {"queued", "pending", "stored"} : CallsAt({s})' = CallsAt({s})
    BY <1>3, <2>1 DEF CallsAt
  <2>3. QED
    BY <1>1, <1>2, <2>1, <2>2 DEF EveryCallInOnePlace
<1>5. CASE c \notin Panics
  <2>1. stage' = [stage EXCEPT ![c] = "pending"] /\ pend' = Append(pend, c)
    BY <1>5 DEF Prepare
  <2>2. /\ CallsAt({"taken"})' = CallsAt({"taken"}) \ {c}
        /\ CallsAt({"pending"})' = CallsAt({"pending"}) \cup {c}
        /\ c \notin CallsAt({"pending"})
        /\ \A s \in {"queued", "stored"} : CallsAt({s})' = CallsAt({s})
    BY <1>3, <2>1 DEF CallsAt
  <2>3. Range(pend') = Range(pend) \cup {c} /\ IsInjective(pend')
    BY <1>3, <2>1, <2>2, AppendRange DEF EveryCallInOnePlace
  <2>4. QED
    BY <1>1, <1>2, <2>2, <2>3 DEF EveryCallInOnePlace
<1>6. QED
  BY <1>4, <1>5

\* The grouped insert moves every row at once.
LEMMA PlacesInsertGrouped ==
  ASSUME TypedPhases, EveryCallInOnePlace, InsertGrouped
  PROVE  EveryCallInOnePlace'
<1> USE DEF TypedPhases, TypeOK
<1>1. /\ UNCHANGED <<queue, batch, prepared>>
      /\ rows' = rows \o pend
      /\ pend' = << >>
      /\ stage' = [c \in Calls |-> IF c \in Range(pend) THEN "stored" ELSE stage[c]]
  BY DEF InsertGrouped, producerVars
<1>2. Unprepared' = Unprepared
  BY <1>1 DEF Unprepared
<1>3. Range(pend) = CallsAt({"pending"}) /\ Range(rows) = CallsAt({"stored"})
  BY DEF EveryCallInOnePlace
<1>4. /\ CallsAt({"stored"})' = CallsAt({"stored"}) \cup CallsAt({"pending"})
      /\ CallsAt({"pending"})' = {}
      /\ \A s \in {"queued", "taken"} : CallsAt({s})' = CallsAt({s})
  BY <1>1, <1>3 DEF CallsAt
<1>5. CallsAt({"stored"}) \cap CallsAt({"pending"}) = {}
  BY DEF CallsAt
<1>6. Range(rows') = Range(rows) \cup Range(pend) /\ IsInjective(rows')
  BY <1>1, <1>3, <1>5, ConcatRange DEF EveryCallInOnePlace
<1>7. QED
  BY <1>1, <1>2, <1>3, <1>4, <1>6, EmptyRange DEF EveryCallInOnePlace

\* The row-by-row retry moves the first row, to the table or away.
LEMMA PlacesInsertOne ==
  ASSUME TypedPhases, EveryCallInOnePlace, InsertOne
  PROVE  EveryCallInOnePlace'
<1> USE DEF TypedPhases, TypeOK, FlushPhases
<1> DEFINE c == Head(pend)
<1>1. /\ pend # << >>
      /\ pend' = Tail(pend)
      /\ UNCHANGED <<queue, batch, prepared>>
  BY DEF InsertOne, producerVars
<1>2. Unprepared' = Unprepared
  BY <1>1 DEF Unprepared
<1>3. /\ c \in Calls /\ c \in Range(pend)
      /\ Range(Tail(pend)) = Range(pend) \ {c} /\ IsInjective(Tail(pend))
  BY <1>1, TailRange DEF EveryCallInOnePlace
<1>4. stage[c] = "pending"
  BY <1>3 DEF EveryCallInOnePlace, CallsAt
<1>5. CASE rows' = Append(rows, c) /\ stage' = [stage EXCEPT ![c] = "stored"]
  <2>1. /\ CallsAt({"stored"})' = CallsAt({"stored"}) \cup {c}
        /\ CallsAt({"pending"})' = CallsAt({"pending"}) \ {c}
        /\ c \notin CallsAt({"stored"})
        /\ \A s \in {"queued", "taken"} : CallsAt({s})' = CallsAt({s})
    BY <1>3, <1>4, <1>5 DEF CallsAt
  <2>2. Range(rows') = Range(rows) \cup {c} /\ IsInjective(rows')
    BY <1>3, <1>5, <2>1, AppendRange, SMTT(30) DEF EveryCallInOnePlace
  <2>3. QED
    BY <1>1, <1>2, <1>3, <2>1, <2>2 DEF EveryCallInOnePlace
<1>6. CASE rows' = rows /\ stage' = [stage EXCEPT ![c] = "failed"]
  <2>1. /\ CallsAt({"pending"})' = CallsAt({"pending"}) \ {c}
        /\ \A s \in {"queued", "taken", "stored"} : CallsAt({s})' = CallsAt({s})
    BY <1>3, <1>4, <1>6 DEF CallsAt
  <2>2. QED
    BY <1>1, <1>2, <1>3, <1>6, <2>1 DEF EveryCallInOnePlace
<1>7. QED
  BY <1>5, <1>6 DEF InsertOne

\* The emptied batch had been prepared to its last call.
LEMMA PlacesEndFlush ==
  ASSUME TypedPhases, EveryCallInOnePlace, EndFlush
  PROVE  EveryCallInOnePlace'
<1> USE DEF TypedPhases, TypeOK, FlushPhases
<1>1. /\ prepared = Len(batch)
      /\ batch' = << >> /\ prepared' = 0
      /\ UNCHANGED <<stage, queue, pend, rows>>
  BY DEF EndFlush, producerVars, flushVars, EmptyBatch, RewindCursor
<1>2. Unprepared = {}
  BY <1>1, RestOfBatch DEF EveryCallInOnePlace, Unprepared, Rest
<1>3. Unprepared' = {}
  BY <1>1, EmptySeq DEF Unprepared
<1>4. QED
  BY <1>1, <1>2, <1>3, EmptyRange DEF EveryCallInOnePlace, CallsAt

LEMMA PlacesStep == TypedPhases /\ EveryCallInOnePlace /\ [Next]_vars => EveryCallInOnePlace'
<1> SUFFICES ASSUME TypedPhases, EveryCallInOnePlace, [Next]_vars
             PROVE  EveryCallInOnePlace'
  OBVIOUS
<1>1. CASE \E c \in Calls : Submit(c)
  BY <1>1, PlacesSubmit
<1>2. CASE Receive \/ DrainReceive
  BY <1>2, PlacesReceive
<1>3. CASE Prepare
  BY <1>3, PlacesPrepare
<1>4. CASE InsertGrouped
  BY <1>4, PlacesInsertGrouped
<1>5. CASE InsertOne
  BY <1>5, PlacesInsertOne
<1>6. CASE EndFlush
  BY <1>6, PlacesEndFlush
<1>7. CASE \/ \E c \in Calls : CountSubmit(c)
           \/ Cancel \/ Expire \/ QuietTimeout \/ CtxDone \/ DrainStop
  BY <1>7, PlacesStay
  DEF CountSubmit, Cancel, Expire, QuietTimeout, CtxDone, DrainStop, producerVars, flushVars
<1>8. CASE NothingToInsert \/ RollBack \/ WriteWarnings \/ WarningsFail \/ Fold
  BY <1>8, PlacesStay
  DEF NothingToInsert, RollBack, RetryRowByRow, WriteWarnings, WarningsFail, Fold,
      producerVars, flushVars
<1>9. CASE UNCHANGED vars
  BY <1>9, PlacesStay DEF vars
<1>10. QED
  BY <1>1, <1>2, <1>3, <1>4, <1>5, <1>6, <1>7, <1>8, <1>9
  DEF Next, Producer, Consumer, Flush, Done

\* No call is lost between two stages of the pipeline, or written twice,
\* whatever the order of sends, timeouts, faults and the shutdown.
THEOREM Conservation == Spec => []EveryCallInOnePlace
<1>1. Init => IInv
  BY TypedPhasesInit, PlacesInit DEF IInv, TypedPhases
<1>2. IInv /\ [Next]_vars => IInv'
  BY TypedPhasesStep, PlacesStep DEF IInv, TypedPhases
<1>3. IInv => EveryCallInOnePlace
  BY DEF IInv
<1>4. QED
  BY <1>1, <1>2, <1>3, PTL DEF Spec

-----------------------------------------------------------------------------
(***************************************************************************)
(* The quiet timer and the batch limit.                                    *)
(***************************************************************************)

\* Only four actions change the batch, the timer, the phase it is read in, or
\* final; every other step leaves a waiting Run as it was.
LEMMA OtherStepsKeepBatch ==
  ASSUME [Next]_vars,
         ~Receive, ~DrainReceive, ~DrainStop, ~EndFlush
  PROVE  /\ batch' = batch /\ final' = final
         /\ pc' = "select" => pc = "select" /\ timer' = timer
         /\ pc' # "drain" => pc # "drain"
<1>1. CASE Producer \/ Cancel \/ Expire
  BY <1>1 DEF Producer, Submit, CountSubmit, Cancel, Expire, flushVars, clockVars, producerVars
<1>2. CASE QuietTimeout \/ CtxDone
  BY <1>2 DEF QuietTimeout, CtxDone, flushVars, clockVars, producerVars
<1>3. CASE Prepare \/ NothingToInsert \/ InsertGrouped \/ RollBack \/ InsertOne
  BY <1>3 DEF Prepare, NothingToInsert, InsertGrouped, RollBack, RetryRowByRow, InsertOne
<1>4. CASE WriteWarnings \/ WarningsFail \/ Fold
  BY <1>4 DEF WriteWarnings, WarningsFail, Fold
<1>5. CASE UNCHANGED vars
  BY <1>5 DEF vars
<1>6. QED
  BY <1>1, <1>2, <1>3, <1>4, <1>5 DEF Next, Consumer, Flush, Done

\* What the two receive cases and the end of a flush do to the batch.
LEMMA ReceiveGrowsBatch ==
  ASSUME TypedPhases, Receive \/ DrainReceive
  PROVE  Len(batch) \in Nat /\ Len(batch') = Len(batch) + 1 /\ batch' # << >>
<1>1. Head(queue) \in Calls
  BY TailRange DEF Receive, DrainReceive, TypedPhases, TypeOK
<1>2. Len(batch) \in Nat /\ Len(Append(batch, Head(queue))) = Len(batch) + 1
  BY <1>1, AppendRange, LenProperties DEF TypedPhases, TypeOK
<1>3. batch' = Append(batch, Head(queue))
  BY DEF Receive, DrainReceive
<1>4. QED
  BY <1>2, <1>3, EmptySeq

LEMMA TimerStep == TypedPhases /\ TimerGuardsBatch /\ [Next]_vars => TimerGuardsBatch'
<1> SUFFICES ASSUME TypedPhases, TimerGuardsBatch, [Next]_vars
             PROVE  TimerGuardsBatch'
  OBVIOUS
<1>1. CASE Receive
  BY <1>1, ReceiveGrowsBatch DEF Receive, ArmTimer, TimerGuardsBatch
<1>2. CASE DrainReceive \/ DrainStop
  BY <1>2 DEF DrainReceive, DrainStop, TimerGuardsBatch
<1>3. CASE EndFlush
  BY <1>3 DEF EndFlush, EmptyBatch, StopTimer, TimerGuardsBatch
<1>4. CASE ~Receive /\ ~DrainReceive /\ ~DrainStop /\ ~EndFlush
  BY <1>4, OtherStepsKeepBatch DEF TimerGuardsBatch
<1>5. QED
  BY <1>1, <1>2, <1>3, <1>4

\* A call that waits in the batch always has the quiet timer running behind it,
\* so no flush depends on the traffic that follows.
THEOREM TimerAlwaysGuards == Spec => []TimerGuardsBatch
<1>1. Init => TypedPhases /\ TimerGuardsBatch
  BY TypedPhasesInit DEF Init, TimerGuardsBatch
<1>2. TypedPhases /\ TimerGuardsBatch /\ [Next]_vars => TypedPhases' /\ TimerGuardsBatch'
  BY TypedPhasesStep, TimerStep
<1>3. QED
  BY <1>1, <1>2, PTL DEF Spec

LEMMA LimitStep == TypedPhases /\ BatchWithinLimit /\ [Next]_vars => BatchWithinLimit'
<1> SUFFICES ASSUME TypedPhases, BatchWithinLimit, [Next]_vars
             PROVE  BatchWithinLimit'
  OBVIOUS
<1> USE CaptureAssumption
<1>1. CASE Receive
  <2>1. /\ Len(batch) < BatchSize /\ Len(batch) \in Nat /\ Len(batch') = Len(batch) + 1
        /\ pc' = IF Len(batch') >= BatchSize THEN "prepare" ELSE "select"
    BY <1>1, ReceiveGrowsBatch DEF Receive, BatchFull, BatchWithinLimit
  <2>2. QED
    BY <2>1 DEF BatchWithinLimit
<1>2. CASE DrainReceive \/ DrainStop
  BY <1>2 DEF DrainReceive, DrainStop, BatchWithinLimit
<1>3. CASE EndFlush
  <2>1. Len(batch') = 0
    BY <1>3, EmptySeq DEF EndFlush, EmptyBatch
  <2>2. QED
    BY <2>1 DEF BatchWithinLimit
<1>4. CASE ~Receive /\ ~DrainReceive /\ ~DrainStop /\ ~EndFlush
  BY <1>4, OtherStepsKeepBatch DEF BatchWithinLimit
<1>5. QED
  BY <1>1, <1>2, <1>3, <1>4

\* No transaction outside the shutdown's holds more than batchSize rows.
THEOREM BatchAlwaysWithinLimit == Spec => []BatchWithinLimit
<1>1. Init => TypedPhases /\ BatchWithinLimit
  BY TypedPhasesInit, EmptySeq, CaptureAssumption DEF Init, BatchWithinLimit
<1>2. TypedPhases /\ BatchWithinLimit /\ [Next]_vars => TypedPhases' /\ BatchWithinLimit'
  BY TypedPhasesStep, LimitStep
<1>3. QED
  BY <1>1, <1>2, PTL DEF Spec

-----------------------------------------------------------------------------
(***************************************************************************)
(* Sequences cut in two.                                                   *)
(***************************************************************************)

\* The first element of the second part moves to the end of the first.
LEMMA ShiftKeepsConcat ==
  ASSUME NEW S, NEW s \in Seq(S), NEW t \in Seq(S), t # << >>
  PROVE  /\ Append(s, Head(t)) \in Seq(S) /\ Tail(t) \in Seq(S)
         /\ Append(s, Head(t)) \o Tail(t) = s \o t
<1>1. Head(t) \in S /\ Tail(t) \in Seq(S) /\ << Head(t) >> \in Seq(S)
  BY HeadTailProperties
<1>2. Append(s, Head(t)) = s \o << Head(t) >> /\ Append(s, Head(t)) \in Seq(S)
  BY <1>1, AppendIsConcat, AppendProperties
<1>3. << Head(t) >> \o Tail(t) = t
  BY <1>1
<1>4. (s \o << Head(t) >>) \o Tail(t) = s \o (<< Head(t) >> \o Tail(t))
  BY <1>1, ConcatAssociative
<1>5. QED
  BY Zenon, <1>1, <1>2, <1>3, <1>4

\* Each part of a concatenation is found at its place.
LEMMA PartsOfConcat ==
  ASSUME NEW S, NEW s \in Seq(S), NEW t \in Seq(S)
  PROVE  /\ SubSeq(s \o t, 1, Len(s)) = s
         /\ SubSeq(s \o t, Len(s) + 1, Len(s \o t)) = t
<1> DEFINE u == s \o t
           k == Len(s)
           n == Len(u)
<1>1. /\ u \in Seq(S) /\ n = k + Len(t) /\ k \in Nat /\ Len(t) \in Nat /\ n \in Nat
      /\ \A i \in 1..n : u[i] \in S /\ u[i] = IF i <= k THEN s[i] ELSE t[i - k]
  BY ConcatProperties, LenProperties, ElementOfSeq
<1> HIDE DEF u, k, n
<1>2. /\ SubSeq(u, 1, k) \in Seq(S) /\ Len(SubSeq(u, 1, k)) = k
      /\ \A i \in 1..k : SubSeq(u, 1, k)[i] = u[i]
  <2>1. \A i \in 1..k : u[i] \in S
    BY <1>1
  <2>2. 1 \in Int /\ k \in Int
    BY <1>1
  <2>3. /\ SubSeq(u, 1, k) \in Seq(S)
        /\ Len(SubSeq(u, 1, k)) = IF 1 <= k THEN k - 1 + 1 ELSE 0
        /\ \A i \in 1 .. k - 1 + 1 : SubSeq(u, 1, k)[i] = u[1 + i - 1]
    BY <2>1, <2>2, SubSeqProperties
  <2>4. QED
    BY <1>1, <2>3
<1>3. SubSeq(u, 1, k) = s
  <2>1. \A i \in 1..k : SubSeq(u, 1, k)[i] = s[i]
    <3>1. ASSUME NEW i \in 1..k PROVE SubSeq(u, 1, k)[i] = s[i]
      <4>1. i \in 1..n /\ i <= k
        BY <1>1
      <4>2. u[i] = s[i]
        BY <1>1, <4>1
      <4>3. QED
        BY <1>2, <4>2
    <3>2. QED
      BY <3>1
  <2>2. Len(s) = k
    BY DEF k
  <2>3. QED
    BY <1>2, <2>1, <2>2, SeqEqual
<1>4. /\ SubSeq(u, k + 1, n) \in Seq(S) /\ Len(SubSeq(u, k + 1, n)) = Len(t)
      /\ \A i \in 1..Len(t) : SubSeq(u, k + 1, n)[i] = u[k + i]
  <2> DEFINE m == k + 1
  <2>1. \A i \in m..n : u[i] \in S
    BY <1>1
  <2>2. m \in Int /\ n \in Int
    BY <1>1
  <2>3. /\ SubSeq(u, m, n) \in Seq(S)
        /\ Len(SubSeq(u, m, n)) = IF m <= n THEN n - m + 1 ELSE 0
        /\ \A i \in 1 .. n - m + 1 : SubSeq(u, m, n)[i] = u[m + i - 1]
    <3> HIDE DEF m
    <3>1. QED
      BY <2>1, <2>2, SubSeqProperties
  <2>4. n - m + 1 = Len(t) /\ (IF m <= n THEN n - m + 1 ELSE 0) = Len(t)
    BY <1>1
  <2>5. \A i \in 1..Len(t) : m + i - 1 = k + i
    BY <1>1
  <2> HIDE DEF m
  <2>6. \A i \in 1..Len(t) : SubSeq(u, m, n)[i] = u[k + i]
    BY <2>3, <2>4, <2>5
  <2>7. QED
    BY <2>3, <2>4, <2>6 DEF m
<1>5. SubSeq(u, k + 1, n) = t
  <2>1. \A i \in 1..Len(t) : SubSeq(u, k + 1, n)[i] = t[i]
    <3>1. ASSUME NEW i \in 1..Len(t) PROVE SubSeq(u, k + 1, n)[i] = t[i]
      <4>1. k + i \in 1..n /\ ~(k + i <= k) /\ (k + i) - k = i
        BY <1>1
      <4>2. u[k + i] = t[i]
        BY <1>1, <4>1
      <4>3. QED
        BY <1>4, <4>2
    <3>2. QED
      BY <3>1
  <2>2. QED
    BY <1>4, <2>1, SeqEqual
<1>6. QED
  BY <1>3, <1>5 DEF u, k, n

\* Removing the element after the first part.
LEMMA RemoveAfter ==
  ASSUME NEW S, NEW s \in Seq(S), NEW t \in Seq(S), t # << >>
  PROVE  /\ Len(s) + 1 \in 1..Len(s \o t)
         /\ (s \o t)[Len(s) + 1] = Head(t)
         /\ Log!RemoveAt(s \o t, Len(s) + 1) = s \o Tail(t)
<1> DEFINE u == s \o t
           a == Append(s, Head(t))
<1>1. /\ Head(t) \in S /\ Head(t) = t[1] /\ Tail(t) \in Seq(S) /\ Len(t) \in Nat \ {0}
      /\ Len(s) \in Nat /\ Len(u) = Len(s) + Len(t)
  BY HeadTailProperties, EmptySeq, LenProperties, ConcatProperties
<1>2. a \in Seq(S) /\ a \o Tail(t) = u /\ Len(a) = Len(s) + 1
  BY <1>1, ShiftKeepsConcat, AppendProperties
<1>3. u[Len(s) + 1] = Head(t)
  BY <1>1, ConcatProperties
<1>4. SubSeq(u, 1, Len(s)) = s
  BY PartsOfConcat
<1>5. SubSeq(u, Len(a) + 1, Len(u)) = Tail(t)
  <2>1. SubSeq(a \o Tail(t), Len(a) + 1, Len(a \o Tail(t))) = Tail(t)
    <3> HIDE DEF a, u
    <3>1. QED
      BY <1>1, <1>2, PartsOfConcat
  <2>2. QED
    BY <1>2, <2>1
<1>6. (Len(s) + 1) - 1 = Len(s) /\ (Len(s) + 1) + 1 = Len(a) + 1
  BY <1>1, <1>2
<1>7. Log!RemoveAt(u, Len(s) + 1) = s \o Tail(t)
  BY Zenon, <1>4, <1>5, <1>6 DEF Log!RemoveAt
<1>8. Len(s) + 1 \in 1..Len(u)
  BY <1>1
<1>9. QED
  BY <1>3, <1>7, <1>8

\* What of the batch is left to prepare, as a sequence.
Left(b, n) == SubSeq(b, n + 1, Len(b))

LEMMA LeftOfBatch ==
  ASSUME NEW S, NEW b \in Seq(S)
  PROVE  /\ Left(b, 0) = b
         /\ Left(b, Len(b)) = << >>
         /\ \A n \in 0..(Len(b) - 1) : /\ Left(b, n) # << >>
                                       /\ Head(Left(b, n)) = b[n + 1]
                                       /\ Tail(Left(b, n)) = Left(b, n + 1)
         /\ \A n \in 0..Len(b) : Left(b, n) \in Seq(S) /\ Range(Left(b, n)) = Rest(b, n)
<1>1. Len(b) \in Nat /\ \A i \in 1..Len(b) : b[i] \in S
  BY LenProperties, ElementOfSeq
<1>2. Left(b, 0) = b
  BY SubSeqFull DEF Left
<1>3. Left(b, Len(b)) = << >>
  BY <1>1, SubSeqEmpty DEF Left
<1>4. ASSUME NEW n \in 0..Len(b)
      PROVE  /\ Left(b, n) \in Seq(S) /\ Len(Left(b, n)) = Len(b) - n
             /\ \A i \in 1..(Len(b) - n) : Left(b, n)[i] = b[n + i]
  <2> DEFINE m == n + 1
             k == Len(b)
  <2>1. m \in Int /\ k \in Int /\ \A i \in m..k : b[i] \in S
    BY <1>1
  <2>2. /\ SubSeq(b, m, k) \in Seq(S)
        /\ Len(SubSeq(b, m, k)) = IF m <= k THEN k - m + 1 ELSE 0
        /\ \A i \in 1 .. k - m + 1 : SubSeq(b, m, k)[i] = b[m + i - 1]
    <3> HIDE DEF m, k
    <3>1. QED
      BY <2>1, SubSeqProperties
  <2>3. QED
    BY <1>1, <2>2 DEF Left
<1>5. ASSUME NEW n \in 0..Len(b) PROVE Range(Left(b, n)) = Rest(b, n)
  <2>1. DOMAIN Left(b, n) = 1..(Len(b) - n)
    BY <1>4, LenProperties
  <2>2. Range(Left(b, n)) = {Left(b, n)[i] : i \in 1..(Len(b) - n)}
    BY <2>1 DEF Range
  <2>3. ASSUME NEW i \in 1..(Len(b) - n) PROVE Left(b, n)[i] \in Rest(b, n)
    <3>1. n + i \in (n + 1)..Len(b) /\ Left(b, n)[i] = b[n + i]
      BY <1>1, <1>4
    <3>2. QED
      BY <3>1 DEF Rest
  <2>4. ASSUME NEW i \in (n + 1)..Len(b) PROVE b[i] \in Range(Left(b, n))
    <3>1. i - n \in 1..(Len(b) - n) /\ n + (i - n) = i
      BY <1>1
    <3>2. Left(b, n)[i - n] = b[i]
      BY <1>4, <3>1
    <3>3. QED
      BY <2>2, <3>1, <3>2
  <2>5. QED
    BY <2>2, <2>3, <2>4 DEF Rest
<1>6. ASSUME NEW n \in 0..(Len(b) - 1)
      PROVE  /\ Left(b, n) # << >>
             /\ Head(Left(b, n)) = b[n + 1]
             /\ Tail(Left(b, n)) = Left(b, n + 1)
  <2>1. n + 1 \in 1..Len(b) /\ Len(b) \in n + 1 .. Len(b) /\ n \in 0..Len(b)
    BY <1>1
  <2>2. Left(b, n) # << >>
    BY <1>1, <1>4, <2>1, EmptySeq
  <2>3. QED
    BY <2>1, <2>2, HeadTailOfSubSeq DEF Left
<1>7. QED
  BY <1>2, <1>3, <1>4, <1>5, <1>6

LEMMA AppendToConcat ==
  ASSUME NEW S, NEW s \in Seq(S), NEW t \in Seq(S), NEW e \in S
  PROVE  s \o Append(t, e) = Append(s \o t, e)
<1>1. Append(t, e) = t \o << e >> /\ << e >> \in Seq(S) /\ s \o t \in Seq(S)
  BY AppendIsConcat, ConcatProperties
<1>2. Append(s \o t, e) = (s \o t) \o << e >>
  BY <1>1, AppendIsConcat
<1>3. (s \o t) \o << e >> = s \o (t \o << e >>)
  BY <1>1, ConcatAssociative
<1>4. QED
  BY Zenon, <1>1, <1>2, <1>3

-----------------------------------------------------------------------------
(***************************************************************************)
(* The refinement, step by step.                                           *)
(***************************************************************************)

\* The calls the abstract log has pending, oldest first.
Waiting == pend \o SubSeq(batch, prepared + 1, Len(batch)) \o queue

LEMMA WaitingCalls ==
  ASSUME IInv
  PROVE  /\ pend \in Seq(Calls) /\ queue \in Seq(Calls) /\ batch \in Seq(Calls)
         /\ prepared \in 0..Len(batch) /\ Left(batch, prepared) \in Seq(Calls)
         /\ Waiting = pend \o Left(batch, prepared) \o queue
         /\ Waiting \in Seq(Calls)
         /\ Range(Waiting) = CallsAt({"queued", "taken", "pending"})
<1>1. /\ pend \in Seq(Calls) /\ queue \in Seq(Calls) /\ batch \in Seq(Calls)
      /\ prepared \in 0..Len(batch)
  BY DEF IInv, TypeOK
<1>2. Left(batch, prepared) \in Seq(Calls) /\ Range(Left(batch, prepared)) = Unprepared
  BY <1>1, LeftOfBatch DEF Rest, Unprepared
<1>3. Waiting = pend \o Left(batch, prepared) \o queue
  BY DEF Waiting, Left
<1> DEFINE s == pend \o Left(batch, prepared)
<1>4. s \in Seq(Calls) /\ Range(s) = Range(pend) \cup Unprepared
  BY <1>1, <1>2, ConcatRange
<1>5. /\ Waiting \in Seq(Calls)
      /\ Range(Waiting) = Range(pend) \cup Unprepared \cup Range(queue)
  <2>1. Waiting = s \o queue
    BY <1>3
  <2> HIDE DEF s
  <2>2. s \o queue \in Seq(Calls) /\ Range(s \o queue) = Range(s) \cup Range(queue)
    BY <1>1, <1>4, ConcatRange
  <2>3. QED
    BY <1>4, <2>1, <2>2
<1>6. Range(pend) \cup Unprepared \cup Range(queue) = CallsAt({"queued", "taken", "pending"})
  BY DEF IInv, EveryCallInOnePlace, CallsAt
<1>7. QED
  BY <1>1, <1>2, <1>3, <1>5, <1>6

\* A step that moves no call into or out of the log.
LogStutter == UNCHANGED <<Waiting, rows, CallsAt({"dropped"}), CallsAt({"failed"})>>

\* A call that arrives is none the log has met.
LEMMA OpenIsFresh ==
  ASSUME IInv, NEW c \in Calls, stage[c] = "open"
  PROVE  Log!Fresh(c)
<1>1. c \notin Range(Waiting) /\ c \notin Range(rows)
  BY WaitingCalls DEF IInv, EveryCallInOnePlace, CallsAt
<1>2. c \notin CallsAt({"dropped"}) /\ c \notin CallsAt({"failed"})
  BY DEF CallsAt
<1>3. QED
  BY <1>1, <1>2 DEF Log!Fresh, Log!Range, Range, Waiting

LEMMA SubmitRefines ==
  ASSUME IInv, NEW c \in Calls, Submit(c)
  PROVE  Log!Accept(c) \/ Log!Refuse(c)
<1>1. /\ stage[c] = "open" /\ stage \in [Calls -> Stages]
      /\ UNCHANGED <<pend, batch, prepared, rows>>
  BY DEF Submit, flushVars, IInv, TypeOK
<1>2. Log!Fresh(c)
  BY <1>1, OpenIsFresh
<1> DEFINE s == pend \o Left(batch, prepared)
<1>3. s \in Seq(Calls) /\ Waiting = s \o queue
  BY WaitingCalls, ConcatProperties
<1>4. CASE HasRoom
  <2>1. queue' = Append(queue, c) /\ stage' = [stage EXCEPT ![c] = "queued"]
    BY <1>4 DEF Submit
  <2>2. Waiting' = s \o Append(queue, c)
    BY <1>1, <2>1 DEF Waiting, Left
  <2>3. s \o Append(queue, c) = Append(s \o queue, c)
    <3>1. queue \in Seq(Calls)
      BY WaitingCalls
    <3> HIDE DEF s
    <3>2. QED
      BY <1>3, <3>1, AppendToConcat, SMTT(20)
  <2>4. Waiting' = Append(Waiting, c)
    BY Zenon, <1>3, <2>2, <2>3
  <2>5. CallsAt({"dropped"})' = CallsAt({"dropped"}) /\ CallsAt({"failed"})' = CallsAt({"failed"})
    BY <1>1, <2>1 DEF CallsAt
  <2>6. QED
    BY <1>1, <1>2, <2>4, <2>5 DEF Log!Accept, Waiting
<1>5. CASE ~HasRoom
  <2>1. queue' = queue /\ stage' = [stage EXCEPT ![c] = "dropped"] /\ ~(Len(queue) < Capacity)
    BY <1>5 DEF Submit, HasRoom
  <2>2. Waiting' = Waiting
    BY <1>1, <2>1 DEF Waiting
  <2>3. Len(Waiting) >= Capacity
    <3>1. Len(Waiting) = Len(s) + Len(queue) /\ Len(s) \in Nat /\ Len(queue) \in Nat
      <4> HIDE DEF s
      <4>1. QED
        BY <1>3, WaitingCalls, ConcatProperties, LenProperties
    <3>2. QED
      BY <2>1, <3>1, CaptureAssumption
  <2>4. /\ CallsAt({"dropped"})' = CallsAt({"dropped"}) \cup {c}
        /\ CallsAt({"failed"})' = CallsAt({"failed"})
    BY <1>1, <2>1 DEF CallsAt
  <2>5. QED
    BY <1>1, <1>2, <2>2, <2>3, <2>4 DEF Log!Refuse, Waiting
<1>6. QED
  BY <1>4, <1>5

\* Between the channel and the batch nothing changes its place in the log.
LEMMA ReceiveRefines ==
  ASSUME IInv, Receive \/ DrainReceive
  PROVE  LogStutter
<1> DEFINE h == Head(queue)
<1>1. /\ queue # << >> /\ queue' = Tail(queue) /\ batch' = Append(batch, h)
      /\ stage' = [stage EXCEPT ![h] = "taken"] /\ UNCHANGED <<pend, rows, prepared>>
      /\ prepared = 0 /\ pend = << >>
  BY DEF Receive, DrainReceive, flushVars, IInv, FlushPhases
<1>2. h \in Calls /\ stage[h] = "queued" /\ stage \in [Calls -> Stages]
  BY <1>1, WaitingCalls, TailRange DEF IInv, EveryCallInOnePlace, CallsAt, TypeOK
<1>3. /\ Append(batch, h) \in Seq(Calls) /\ Tail(queue) \in Seq(Calls)
      /\ Append(batch, h) \o Tail(queue) = batch \o queue
  <2>1. batch \in Seq(Calls) /\ queue \in Seq(Calls)
    BY WaitingCalls
  <2>2. QED
    BY <1>1, <2>1, ShiftKeepsConcat
<1>4. Waiting = batch \o queue
  <2>1. << >> \o Left(batch, 0) = batch
    BY WaitingCalls, LeftOfBatch, ConcatEmptySeq
  <2>2. QED
    BY Zenon, <1>1, <2>1, WaitingCalls
<1>5. Waiting' = Append(batch, h) \o Tail(queue)
  <2>1. << >> \o Left(Append(batch, h), 0) = Append(batch, h)
    <3>1. Left(Append(batch, h), 0) = Append(batch, h)
      BY <1>3, LeftOfBatch
    <3>2. QED
      BY <1>3, <3>1, ConcatEmptySeq
  <2>2. Waiting' = << >> \o Left(Append(batch, h), 0) \o Tail(queue)
    BY <1>1 DEF Waiting, Left
  <2>3. QED
    BY Zenon, <2>1, <2>2
<1>6. CallsAt({"dropped"})' = CallsAt({"dropped"}) /\ CallsAt({"failed"})' = CallsAt({"failed"})
  BY <1>1, <1>2 DEF CallsAt
<1>7. QED
  BY <1>1, <1>3, <1>4, <1>5, <1>6 DEF LogStutter

\* prepareCall keeps a call's place, or loses the call from where it was.
LEMMA PrepareRefines ==
  ASSUME IInv, Prepare
  PROVE  LogStutter \/ \E n \in 1..Len(Waiting) : Log!Lose(n)
<1> DEFINE c == batch[prepared + 1]
           r == Left(batch, prepared)
           t == r \o queue
<1>1. /\ prepared \in 0..(Len(batch) - 1) /\ prepared' = prepared + 1
      /\ UNCHANGED <<batch, queue, rows>>
  BY WaitingCalls, LenProperties DEF Prepare, producerVars
<1>2. /\ r \in Seq(Calls) /\ r # << >> /\ Head(r) = c /\ Tail(r) = Left(batch, prepared + 1)
  BY <1>1, WaitingCalls, LeftOfBatch
<1>3. c \in Calls /\ stage[c] = "taken" /\ stage \in [Calls -> Stages]
  <2>1. c \in Unprepared
    BY <1>1, WaitingCalls, RestOfBatch DEF IInv, EveryCallInOnePlace, Unprepared, Rest
  <2>2. QED
    BY <2>1 DEF IInv, EveryCallInOnePlace, CallsAt, TypeOK
<1>4. CASE c \in Panics
  <2>1. stage' = [stage EXCEPT ![c] = "failed"] /\ pend' = pend
    BY <1>4 DEF Prepare
  <2>2. /\ t \in Seq(Calls) /\ Waiting = pend \o t /\ t # << >> /\ Head(t) = c
        /\ Tail(t) = Tail(r) \o queue
    <3>0. pend \in Seq(Calls) /\ queue \in Seq(Calls)
      BY WaitingCalls
    <3> HIDE DEF r
    <3>1. t \in Seq(Calls) /\ pend \o t = (pend \o r) \o queue
      <4>1. r \o queue \in Seq(Calls)
        BY <1>2, <3>0, ConcatProperties
      <4>2. pend \o (r \o queue) = (pend \o r) \o queue
        BY <1>2, <3>0, ConcatAssociative, SMTT(20)
      <4>3. QED
        BY <4>1, <4>2
    <3>2. t # << >>
      BY <1>2, WaitingCalls, ConcatEqualIffEmpty
    <3>3. Tail(r) \in Seq(Calls) /\ << c >> \in Seq(Calls) /\ r = << c >> \o Tail(r)
      BY <1>2, <1>3, HeadTailProperties
    <3>4. t = << c >> \o (Tail(r) \o queue) /\ Tail(r) \o queue \in Seq(Calls)
      <4>1. (<< c >> \o Tail(r)) \o queue = << c >> \o (Tail(r) \o queue)
        BY <3>0, <3>3, ConcatAssociative
      <4>2. Tail(r) \o queue \in Seq(Calls)
        BY <3>0, <3>3, ConcatProperties
      <4>3. t = (<< c >> \o Tail(r)) \o queue
        BY Zenon, <3>3
      <4>4. QED
        BY Zenon, <4>1, <4>2, <4>3
    <3>5. Head(t) = c /\ Tail(t) = Tail(r) \o queue
      BY <1>3, <3>4
    <3>6. Waiting = (pend \o r) \o queue
      BY WaitingCalls DEF r
    <3>7. QED
      BY Zenon, <3>1, <3>2, <3>5, <3>6
  <2>3. /\ Len(pend) + 1 \in 1..Len(Waiting) /\ Waiting[Len(pend) + 1] = c
        /\ Log!RemoveAt(Waiting, Len(pend) + 1) = pend \o Tail(t)
    <3> HIDE DEF t, c
    <3>1. QED
      BY <2>2, WaitingCalls, RemoveAfter
  <2>4. Waiting' = (pend \o Tail(r)) \o queue
    BY <1>1, <1>2, <2>1 DEF Waiting, Left
  <2>5. Waiting' = pend \o Tail(t)
    <3>1. Tail(r) \in Seq(Calls)
      BY <1>2, HeadTailProperties
    <3>2. (pend \o Tail(r)) \o queue = pend \o (Tail(r) \o queue)
      <4>1. pend \in Seq(Calls) /\ queue \in Seq(Calls)
        BY WaitingCalls
      <4> HIDE DEF r
      <4>2. QED
        BY <3>1, <4>1, ConcatAssociative
    <3>3. QED
      BY Zenon, <2>2, <2>4, <3>2
  <2>6. /\ CallsAt({"failed"})' = CallsAt({"failed"}) \cup {c}
        /\ CallsAt({"dropped"})' = CallsAt({"dropped"})
    BY <1>3, <2>1 DEF CallsAt
  <2>7. Log!Lose(Len(pend) + 1)
    BY <1>1, <2>3, <2>5, <2>6 DEF Log!Lose, Waiting
  <2>8. QED
    BY <2>3, <2>7
<1>5. CASE c \notin Panics
  <2>1. stage' = [stage EXCEPT ![c] = "pending"] /\ pend' = Append(pend, c)
    BY <1>5 DEF Prepare
  <2>2. Append(pend, c) \o Tail(r) = pend \o r
    <3>1. pend \in Seq(Calls)
      BY WaitingCalls
    <3> HIDE DEF r
    <3>2. Append(pend, Head(r)) \o Tail(r) = pend \o r
      BY <1>2, <3>1, ShiftKeepsConcat
    <3>3. QED
      BY <1>2, <3>2
  <2>3. Waiting' = (Append(pend, c) \o Tail(r)) \o queue
    BY <1>1, <1>2, <2>1 DEF Waiting, Left
  <2>4. Waiting' = Waiting
    BY Zenon, <2>2, <2>3, WaitingCalls
  <2>5. CallsAt({"dropped"})' = CallsAt({"dropped"}) /\ CallsAt({"failed"})' = CallsAt({"failed"})
    BY <1>3, <2>1 DEF CallsAt
  <2>6. QED
    BY <1>1, <2>4, <2>5 DEF LogStutter
<1>6. QED
  BY <1>4, <1>5

\* Once the batch is prepared, the rows to insert are the oldest that wait.
LEMMA PreparedWaiting ==
  ASSUME IInv, prepared = Len(batch)
  PROVE  Waiting = pend \o queue
<1>1. Left(batch, prepared) = << >>
  BY WaitingCalls, LeftOfBatch
<1>2. pend \o << >> = pend
  BY WaitingCalls, ConcatEmptySeq
<1>3. QED
  BY Zenon, <1>1, <1>2, WaitingCalls

\* One transaction commits the oldest calls, all that are prepared.
LEMMA InsertGroupedRefines ==
  ASSUME IInv, InsertGrouped
  PROVE  \E n \in 1..Len(Waiting) : Log!Commit(n)
<1>1. /\ prepared = Len(batch) /\ pend # << >>
      /\ rows' = rows \o pend /\ pend' = << >> /\ UNCHANGED <<queue, batch, prepared>>
      /\ stage' = [c \in Calls |-> IF c \in Range(pend) THEN "stored" ELSE stage[c]]
  BY DEF InsertGrouped, producerVars
<1>2. Waiting = pend \o queue
  BY <1>1, PreparedWaiting
<1>3. Waiting' = queue
  <2>1. Left(batch, prepared) = << >>
    BY <1>1, WaitingCalls, LeftOfBatch
  <2>2. Waiting' = << >> \o Left(batch, prepared) \o queue
    BY <1>1 DEF Waiting, Left
  <2>3. << >> \o << >> = << >> /\ << >> \o queue = queue
    BY WaitingCalls, ConcatEmptySeq, EmptySeq
  <2>4. QED
    BY Zenon, <2>1, <2>2, <2>3
<1>4. /\ SubSeq(Waiting, 1, Len(pend)) = pend
      /\ SubSeq(Waiting, Len(pend) + 1, Len(Waiting)) = queue
  BY <1>2, WaitingCalls, PartsOfConcat
<1>5. Len(pend) \in 1..Len(Waiting)
  BY <1>1, <1>2, WaitingCalls, EmptySeq, LenProperties, ConcatProperties
<1>6. /\ CallsAt({"failed"})' = CallsAt({"failed"})
      /\ CallsAt({"dropped"})' = CallsAt({"dropped"})
  BY <1>1 DEF IInv, EveryCallInOnePlace, CallsAt
<1>7. Log!Commit(Len(pend))
  BY <1>1, <1>3, <1>4, <1>6 DEF Log!Commit, Waiting
<1>8. QED
  BY <1>5, <1>7

\* The row-by-row retry commits the oldest call or loses it.
LEMMA InsertOneRefines ==
  ASSUME IInv, InsertOne
  PROVE  \E n \in 1..Len(Waiting) : Log!Commit(n) \/ Log!Lose(n)
<1> DEFINE c == Head(pend)
<1>1. /\ pend # << >> /\ pend' = Tail(pend) /\ UNCHANGED <<queue, batch, prepared>>
      /\ prepared = Len(batch)
  BY DEF InsertOne, producerVars, IInv, FlushPhases
<1>2. c \in Calls /\ stage[c] = "pending" /\ stage \in [Calls -> Stages]
  BY <1>1, WaitingCalls, TailRange DEF IInv, EveryCallInOnePlace, CallsAt, TypeOK
<1>3. /\ Tail(pend) \in Seq(Calls) /\ << c >> \in Seq(Calls) /\ pend = << c >> \o Tail(pend)
  BY <1>1, <1>2, WaitingCalls, HeadTailProperties
<1>4. /\ Tail(pend) \o queue \in Seq(Calls)
      /\ Waiting = << c >> \o (Tail(pend) \o queue)
  <2>1. Waiting = pend \o queue
    BY <1>1, PreparedWaiting
  <2>2. (<< c >> \o Tail(pend)) \o queue = << c >> \o (Tail(pend) \o queue)
    <3>1. queue \in Seq(Calls)
      BY WaitingCalls
    <3>2. QED
      BY <1>3, <3>1, ConcatAssociative, SMTT(20)
  <2>3. Tail(pend) \o queue \in Seq(Calls)
    BY <1>3, WaitingCalls, ConcatProperties
  <2>4. QED
    BY Zenon, <1>3, <2>1, <2>2, <2>3
<1>5. Waiting' = Tail(pend) \o queue
  <2>1. Left(batch, prepared) = << >>
    BY <1>1, WaitingCalls, LeftOfBatch
  <2>2. Waiting' = (Tail(pend) \o Left(batch, prepared)) \o queue
    BY <1>1 DEF Waiting, Left
  <2>3. Tail(pend) \o << >> = Tail(pend)
    BY <1>3, ConcatEmptySeq
  <2>4. QED
    BY Zenon, <2>1, <2>2, <2>3
<1>6. 1 \in 1..Len(Waiting) /\ Waiting[1] = c /\ Len(<< c >>) = 1
  <2>1. Len(Waiting) = 1 + Len(Tail(pend) \o queue) /\ Len(Tail(pend) \o queue) \in Nat
    BY <1>3, <1>4, ConcatProperties, LenProperties
  <2>2. Waiting[1] = c
    BY <1>3, <1>4, ConcatProperties, LenProperties
  <2>3. QED
    BY <2>1, <2>2
<1>7. CASE rows' = Append(rows, c) /\ stage' = [stage EXCEPT ![c] = "stored"]
  <2>1. /\ SubSeq(Waiting, 1, 1) = << c >>
        /\ SubSeq(Waiting, 1 + 1, Len(Waiting)) = Tail(pend) \o queue
    BY <1>3, <1>4, <1>6, PartsOfConcat
  <2>2. Append(rows, c) = rows \o << c >>
    BY <1>2, AppendIsConcat DEF IInv, TypeOK
  <2>3. /\ CallsAt({"failed"})' = CallsAt({"failed"})
        /\ CallsAt({"dropped"})' = CallsAt({"dropped"})
    BY <1>2, <1>7 DEF CallsAt
  <2>4. Log!Commit(1)
    BY <1>5, <1>7, <2>1, <2>2, <2>3 DEF Log!Commit, Waiting
  <2>5. QED
    BY <1>6, <2>4
<1>8. CASE rows' = rows /\ stage' = [stage EXCEPT ![c] = "failed"]
  <2>1. Log!RemoveAt(Waiting, 1) = Tail(pend) \o queue
    <3> DEFINE u == Tail(pend) \o queue
    <3>1. SubSeq(Waiting, 1, 0) = << >>
      BY SubSeqEmpty
    <3>2. SubSeq(Waiting, 1 + 1, Len(Waiting)) = u
      BY <1>3, <1>4, <1>6, PartsOfConcat
    <3>3. << >> \o u = u
      BY <1>4, ConcatEmptySeq
    <3>4. 1 - 1 = 0
      OBVIOUS
    <3>5. QED
      BY Zenon, <3>1, <3>2, <3>3, <3>4 DEF Log!RemoveAt
  <2>2. /\ CallsAt({"failed"})' = CallsAt({"failed"}) \cup {c}
        /\ CallsAt({"dropped"})' = CallsAt({"dropped"})
    BY <1>2, <1>8 DEF CallsAt
  <2>3. Log!Lose(1)
    BY <1>5, <1>6, <1>8, <2>1, <2>2 DEF Log!Lose, Waiting
  <2>4. QED
    BY <1>6, <2>3
<1>9. QED
  BY <1>7, <1>8 DEF InsertOne

\* The batch that is emptied had nothing left to prepare.
LEMMA EndFlushRefines ==
  ASSUME IInv, EndFlush
  PROVE  LogStutter
<1>1. /\ prepared = Len(batch) /\ batch' = << >> /\ prepared' = 0
      /\ UNCHANGED <<stage, queue, pend, rows>>
  BY DEF EndFlush, producerVars, flushVars, EmptyBatch, RewindCursor, IInv, FlushPhases
<1>2. SubSeq(batch, prepared + 1, Len(batch)) = << >>
  BY <1>1, WaitingCalls, LeftOfBatch DEF Left
<1>3. SubSeq(<< >>, 0 + 1, Len(<< >>)) = << >>
  BY SubSeqEmpty
<1>4. Waiting' = Waiting
  BY <1>1, <1>2, <1>3 DEF Waiting
<1>5. QED
  BY <1>1, <1>4 DEF LogStutter, CallsAt

LEMMA OtherStepsStutter ==
  ASSUME UNCHANGED <<stage, queue, batch, prepared, pend, rows>>
  PROVE  LogStutter
  BY DEF LogStutter, Waiting, CallsAt

LEMMA StepRefines == IInv /\ [Next]_vars => [Log!LogNext]_(Log!logVars)
<1> SUFFICES ASSUME IInv, [Next]_vars
             PROVE  \/ \E c \in Calls : Log!Accept(c) \/ Log!Refuse(c)
                    \/ \E n \in 1..Len(Waiting) : Log!Commit(n) \/ Log!Lose(n)
                    \/ LogStutter
  BY DEF Log!LogNext, Log!logVars, LogStutter, Waiting
<1>1. CASE \E c \in Calls : Submit(c)
  BY <1>1, SubmitRefines
<1>2. CASE Receive \/ DrainReceive
  BY <1>2, ReceiveRefines
<1>3. CASE Prepare
  BY <1>3, PrepareRefines
<1>4. CASE InsertGrouped
  BY <1>4, InsertGroupedRefines
<1>5. CASE InsertOne
  BY <1>5, InsertOneRefines
<1>6. CASE EndFlush
  BY <1>6, EndFlushRefines
<1>7. CASE \/ \E c \in Calls : CountSubmit(c)
           \/ Cancel \/ Expire \/ QuietTimeout \/ CtxDone \/ DrainStop
  BY <1>7, OtherStepsStutter
  DEF CountSubmit, Cancel, Expire, QuietTimeout, CtxDone, DrainStop, producerVars, flushVars
<1>8. CASE NothingToInsert \/ RollBack \/ WriteWarnings \/ WarningsFail \/ Fold
  BY <1>8, OtherStepsStutter
  DEF NothingToInsert, RollBack, RetryRowByRow, WriteWarnings, WarningsFail, Fold,
      producerVars, flushVars
<1>9. CASE UNCHANGED vars
  BY <1>9, OtherStepsStutter DEF vars
<1>10. QED
  BY <1>1, <1>2, <1>3, <1>4, <1>5, <1>6, <1>7, <1>8, <1>9
  DEF Next, Producer, Consumer, Flush, Done

LEMMA InitRefines == Init => Log!LogInit
<1> SUFFICES ASSUME Init PROVE Log!LogInit
  OBVIOUS
<1>1. SubSeq(<< >>, 0 + 1, Len(<< >>)) = << >> /\ << >> \o << >> = << >>
  BY SubSeqEmpty, EmptySeq, ConcatEmptySeq
<1>2. CallsAt({"dropped"}) = {} /\ CallsAt({"failed"}) = {}
  BY DEF Init, CallsAt
<1>3. Waiting = << >>
  BY Zenon, <1>1 DEF Init, Waiting
<1>4. QED
  BY <1>2, <1>3 DEF Log!LogInit, Waiting, Init

LEMMA InductiveInvariant == Spec => []IInv
<1>1. Init => IInv
  BY TypedPhasesInit, PlacesInit DEF IInv, TypedPhases
<1>2. IInv /\ [Next]_vars => IInv'
  BY TypedPhasesStep, PlacesStep DEF IInv, TypedPhases
<1>3. QED
  BY <1>1, <1>2, PTL DEF Spec

\* The pipeline of channel, batch, transaction and retry is the abstract log:
\* every step of it accepts, refuses, commits or loses as the log may, or is
\* not seen there.
THEOREM CaptureImplementsLog == Spec => ImplementsLog
  BY InitRefines, StepRefines, InductiveInvariant, PTL DEF Spec, ImplementsLog, Log!LogSpec

-----------------------------------------------------------------------------
(***************************************************************************)
(* Counting calls.  Both counts rest on the same account of a step: while  *)
(* the write context works, a step leaves the settled calls alone, loses   *)
(* one call, or stores some.                                               *)
(***************************************************************************)

\* Shutdown's drain and shutdown's flush follow a cancellation.
ShutdownCancelled == pc = "drain" \/ final => cancelled

\* Consumer.Stats, at every step: with no fault and no shutdown, processed is
\* the rows stored and failed the calls lost.
StatsExact ==
  (faults = 0 /\ ~cancelled) =>
    /\ stats.processed = Cardinality(CallsAt({"stored"}))
    /\ stats.failed = Cardinality(CallsAt({"failed"}))

\* A sequence without repetitions is as long as its range is large.
LEMMA LengthOfRange ==
  ASSUME NEW S, NEW s \in Seq(S), IsInjective(s)
  PROVE  Cardinality(Range(s)) = Len(s)
<1>1. Len(s) \in Nat /\ DOMAIN s = 1..Len(s)
  BY LenProperties
<1>2. s \in [1..Len(s) -> Range(s)]
  <2>1. s = [i \in 1..Len(s) |-> s[i]]
    BY <1>1
  <2>2. \A i \in 1..Len(s) : s[i] \in Range(s)
    BY <1>1 DEF Range
  <2>3. QED
    BY <2>1, <2>2
<1>3. s \in Bijection(1..Len(s), Range(s))
  BY <1>1, <1>2 DEF Bijection, Injection, Surjection, IsInjective, Range
<1>4. QED
  BY <1>1, <1>3, FS_CountingElements DEF ExistsBijection

\* Two finite sets with nothing in common.
LEMMA DisjointUnion ==
  ASSUME NEW S, NEW T, IsFiniteSet(S), IsFiniteSet(T), S \cap T = {}
  PROVE  Cardinality(S \cup T) = Cardinality(S) + Cardinality(T)
<1>1. Cardinality(S \cup T) = Cardinality(S) + Cardinality(T) - Cardinality(S \cap T)
  BY FS_Union
<1>2. Cardinality(S \cap T) = 0
  BY FS_EmptySet
<1>3. Cardinality(S) \in Nat /\ Cardinality(T) \in Nat
  BY FS_CardinalityType
<1>4. QED
  BY <1>1, <1>2, <1>3

LEMMA CallsAtFinite ==
  ASSUME NEW S
  PROVE  IsFiniteSet(CallsAt(S)) /\ Cardinality(CallsAt(S)) \in Nat
  BY FS_Subset, FS_CardinalityType, CaptureAssumption DEF CallsAt

LEMMA ShutdownStep == ShutdownCancelled /\ [Next]_vars => ShutdownCancelled'
<1> SUFFICES ASSUME ShutdownCancelled, [Next]_vars PROVE ShutdownCancelled'
  OBVIOUS
<1> USE DEF ShutdownCancelled, clockVars
<1>1. CASE Producer \/ Cancel \/ Expire
  BY <1>1 DEF Producer, Submit, CountSubmit, Cancel, Expire
<1>2. CASE Receive \/ QuietTimeout \/ CtxDone \/ DrainReceive \/ DrainStop
  BY <1>2 DEF Receive, QuietTimeout, CtxDone, DrainReceive, DrainStop
<1>3. CASE Prepare \/ NothingToInsert \/ InsertGrouped \/ RollBack \/ InsertOne
  BY <1>3 DEF Prepare, NothingToInsert, InsertGrouped, RollBack, RetryRowByRow, InsertOne
<1>4. CASE WriteWarnings \/ WarningsFail \/ Fold \/ EndFlush
  BY <1>4 DEF WriteWarnings, WarningsFail, Fold, EndFlush
<1>5. CASE UNCHANGED vars
  BY <1>5 DEF vars
<1>6. QED
  BY <1>1, <1>2, <1>3, <1>4, <1>5 DEF Next, Consumer, Flush, Done

\* While nothing was cancelled, the context a flush writes on works.
LEMMA WorkingContext ==
  ASSUME ShutdownCancelled, ~cancelled
  PROVE  WriteCtxOK /\ (Refused({}) => Fault)
  BY DEF ShutdownCancelled, WriteCtxOK, Refused, Writable

\* Faults only accumulate, and a cancellation is final.
LEMMA FaultsAccumulate ==
  ASSUME TypedPhases, [Next]_vars
  PROVE  /\ faults \in Nat /\ faults' \in Nat /\ faults' >= faults
         /\ cancelled => cancelled'
<1>0. faults \in Nat
  BY CaptureAssumption DEF TypedPhases, TypeOK
<1> USE DEF flushVars, clockVars
<1>1. CASE Producer \/ Cancel \/ Expire
  BY <1>0, <1>1 DEF Producer, Submit, CountSubmit, Cancel, Expire
<1>2. CASE Receive \/ QuietTimeout \/ CtxDone \/ DrainReceive \/ DrainStop
  BY <1>0, <1>2 DEF Receive, QuietTimeout, CtxDone, DrainReceive, DrainStop
<1>3. CASE Prepare \/ NothingToInsert \/ InsertGrouped \/ RollBack \/ InsertOne
  BY <1>0, <1>3
  DEF Prepare, NothingToInsert, InsertGrouped, RollBack, InsertOne, Refused, Fault
<1>4. CASE WriteWarnings \/ WarningsFail \/ Fold \/ EndFlush
  BY <1>0, <1>4 DEF WriteWarnings, WarningsFail, Fold, EndFlush, Refused, Fault
<1>5. CASE UNCHANGED vars
  BY <1>0, <1>5 DEF vars
<1>6. QED
  BY <1>1, <1>2, <1>3, <1>4, <1>5 DEF Next, Consumer, Flush, Done

\* The three things a step may do to the settled calls.
SettlesNothing ==
  /\ UNCHANGED <<CallsAt({"stored"}), CallsAt({"failed"})>>
  /\ stats' = stats \/ faults' = faults + 1

LosesOne(c) ==
  /\ stage[c] \in {"taken", "pending"}
  /\ CallsAt({"stored"})' = CallsAt({"stored"})
  /\ CallsAt({"failed"})' = CallsAt({"failed"}) \cup {c}
  /\ stats' = [stats EXCEPT !.failed = @ + 1]
  /\ c \in Panics \cup BadRows \/ faults' = faults + 1

StoresSome(S) ==
  /\ S \subseteq CallsAt({"pending"})
  /\ CallsAt({"stored"})' = CallsAt({"stored"}) \cup S
  /\ CallsAt({"failed"})' = CallsAt({"failed"})
  /\ stats' = [stats EXCEPT !.processed = @ + Cardinality(S)]

LEMMA SettlingInsertOne ==
  ASSUME IInv, WriteCtxOK, InsertOne
  PROVE  \E c \in Calls : LosesOne(c) \/ StoresSome({c})
<1> DEFINE c == Head(pend)
<1>1. pend # << >> /\ pend \in Seq(Calls) /\ stage \in [Calls -> Stages]
  BY DEF InsertOne, IInv, FlushPhases, TypeOK
<1>2. c \in Calls /\ c \in Range(pend)
  BY <1>1, TailRange
<1>3. stage[c] = "pending" /\ c \in CallsAt({"pending"})
  BY <1>2 DEF IInv, EveryCallInOnePlace, CallsAt
<1>4. CASE /\ stage' = [stage EXCEPT ![c] = "stored"]
           /\ stats' = [stats EXCEPT !.processed = @ + 1]
  <2>1. /\ CallsAt({"stored"})' = CallsAt({"stored"}) \cup {c}
        /\ CallsAt({"failed"})' = CallsAt({"failed"})
    BY <1>1, <1>2, <1>3, <1>4 DEF CallsAt
  <2>2. Cardinality({c}) = 1
    BY FS_Singleton
  <2>3. StoresSome({c})
    BY <1>3, <1>4, <2>1, <2>2 DEF StoresSome
  <2>4. QED
    BY <1>2, <2>3
<1>5. CASE /\ Refused({c})
           /\ stage' = [stage EXCEPT ![c] = "failed"]
           /\ stats' = [stats EXCEPT !.failed = @ + 1]
  <2>1. /\ CallsAt({"failed"})' = CallsAt({"failed"}) \cup {c}
        /\ CallsAt({"stored"})' = CallsAt({"stored"})
    BY <1>1, <1>2, <1>3, <1>5 DEF CallsAt
  <2>2. c \in BadRows \/ faults' = faults + 1
    BY <1>5 DEF Refused, Writable, Fault
  <2>3. LosesOne(c)
    BY <1>3, <1>5, <2>1, <2>2 DEF LosesOne
  <2>4. QED
    BY <1>2, <2>3
<1>6. QED
  BY <1>4, <1>5 DEF InsertOne

LEMMA SettlingPrepare ==
  ASSUME IInv, Prepare
  PROVE  SettlesNothing \/ \E c \in Calls : LosesOne(c)
<1> DEFINE c == batch[prepared + 1]
<1>1. prepared \in 0..(Len(batch) - 1) /\ batch \in Seq(Calls) /\ stage \in [Calls -> Stages]
  BY LenProperties DEF Prepare, IInv, TypeOK
<1>2. c \in Unprepared
  BY <1>1, RestOfBatch DEF IInv, EveryCallInOnePlace, Unprepared, Rest
<1>3. c \in Calls /\ stage[c] = "taken"
  BY <1>2 DEF IInv, EveryCallInOnePlace, CallsAt
<1>4. CASE c \in Panics
  <2>1. stage' = [stage EXCEPT ![c] = "failed"] /\ stats' = [stats EXCEPT !.failed = @ + 1]
    BY <1>4 DEF Prepare
  <2>2. /\ CallsAt({"failed"})' = CallsAt({"failed"}) \cup {c}
        /\ CallsAt({"stored"})' = CallsAt({"stored"})
    BY <1>1, <1>3, <2>1 DEF CallsAt
  <2>3. LosesOne(c)
    BY <1>3, <1>4, <2>1, <2>2 DEF LosesOne
  <2>4. QED
    BY <1>3, <2>3
<1>5. CASE c \notin Panics
  <2>1. stage' = [stage EXCEPT ![c] = "pending"] /\ stats' = stats
    BY <1>5 DEF Prepare
  <2>2. UNCHANGED <<CallsAt({"stored"}), CallsAt({"failed"})>>
    BY <1>1, <1>3, <2>1 DEF CallsAt
  <2>3. QED
    BY <2>1, <2>2 DEF SettlesNothing
<1>6. QED
  BY <1>4, <1>5

LEMMA SettlingInsertGrouped ==
  ASSUME IInv, InsertGrouped
  PROVE  StoresSome(Range(pend))
<1>1. /\ stage' = [c \in Calls |-> IF c \in Range(pend) THEN "stored" ELSE stage[c]]
      /\ stats' = [stats EXCEPT !.processed = @ + Len(pend)]
  BY DEF InsertGrouped, CountCommitted
<1>2. /\ pend \in Seq(Calls) /\ Range(pend) = CallsAt({"pending"}) /\ IsInjective(pend)
  BY DEF IInv, TypeOK, EveryCallInOnePlace
<1>3. /\ CallsAt({"stored"})' = CallsAt({"stored"}) \cup Range(pend)
      /\ CallsAt({"failed"})' = CallsAt({"failed"})
  BY <1>1, <1>2 DEF CallsAt
<1>4. Cardinality(Range(pend)) = Len(pend)
  BY <1>2, LengthOfRange
<1>5. QED
  BY <1>1, <1>2, <1>3, <1>4 DEF StoresSome

LEMMA SettlingOther ==
  ASSUME IInv, ShutdownCancelled, ~cancelled, [Next]_vars,
         ~Prepare, ~InsertGrouped, ~InsertOne
  PROVE  SettlesNothing
<1>1. stage \in [Calls -> Stages]
  BY DEF IInv, TypeOK
<1>2. ASSUME NEW c \in Calls, Submit(c) PROVE SettlesNothing
  <2>1. stats' = stats /\ stage[c] = "open"
    BY <1>2 DEF Submit, flushVars
  <2>2. \E s \in {"queued", "dropped"} : stage' = [stage EXCEPT ![c] = s]
    BY <1>2 DEF Submit
  <2>3. UNCHANGED <<CallsAt({"stored"}), CallsAt({"failed"})>>
    BY <1>1, <2>1, <2>2 DEF CallsAt
  <2>4. QED
    BY <2>1, <2>3 DEF SettlesNothing
<1>3. CASE Receive \/ DrainReceive
  <2> DEFINE h == Head(queue)
  <2>1. queue # << >> /\ stats' = stats /\ stage' = [stage EXCEPT ![h] = "taken"]
    BY <1>3 DEF Receive, DrainReceive, flushVars
  <2>2. h \in Calls /\ stage[h] = "queued"
    BY <2>1, TailRange DEF IInv, TypeOK, EveryCallInOnePlace, CallsAt
  <2>3. UNCHANGED <<CallsAt({"stored"}), CallsAt({"failed"})>>
    BY <1>1, <2>1, <2>2 DEF CallsAt
  <2>4. QED
    BY <2>1, <2>3 DEF SettlesNothing
<1>4. CASE stage' = stage /\ (stats' = stats \/ faults' = faults + 1)
  BY <1>4 DEF SettlesNothing, CallsAt
<1>5. CASE \/ \E c \in Calls : CountSubmit(c)
           \/ Cancel \/ Expire \/ QuietTimeout \/ CtxDone \/ DrainStop
  BY <1>4, <1>5 DEF CountSubmit, Cancel, Expire, QuietTimeout, CtxDone, DrainStop, flushVars
<1>6. CASE NothingToInsert \/ RollBack \/ WriteWarnings \/ EndFlush
  BY <1>4, <1>6 DEF NothingToInsert, RollBack, RetryRowByRow, WriteWarnings, EndFlush, flushVars
<1>7. CASE WarningsFail \/ Fold
  BY <1>4, <1>7, WorkingContext DEF WarningsFail, Fold, Fault
<1>8. CASE UNCHANGED vars
  BY <1>4, <1>8 DEF vars
<1>9. QED
  BY <1>2, <1>3, <1>5, <1>6, <1>7, <1>8 DEF Next, Producer, Consumer, Flush, Done

LEMMA Settling ==
  ASSUME IInv, ShutdownCancelled, ~cancelled, [Next]_vars
  PROVE  \/ SettlesNothing
         \/ \E c \in Calls : LosesOne(c)
         \/ \E S \in SUBSET CallsAt({"pending"}) : StoresSome(S)
<1>1. CASE Prepare
  BY <1>1, SettlingPrepare
<1>2. CASE InsertGrouped
  BY <1>2, SettlingInsertGrouped DEF StoresSome
<1>3. CASE InsertOne
  BY <1>3, SettlingInsertOne, WorkingContext DEF StoresSome
<1>4. CASE ~Prepare /\ ~InsertGrouped /\ ~InsertOne
  BY <1>4, SettlingOther
<1>5. QED
  BY <1>1, <1>2, <1>3, <1>4

\* The lost calls that are not to blame for it.
Blameless == CallsAt({"failed"}) \ (Panics \cup BadRows)

LEMMA OneFaultStep ==
  IInv /\ ShutdownCancelled /\ OneFaultCostsOneCall /\ [Next]_vars => OneFaultCostsOneCall'
<1> SUFFICES ASSUME IInv, ShutdownCancelled, OneFaultCostsOneCall, [Next]_vars, ~cancelled'
             PROVE  Cardinality(Blameless') <= faults'
  BY DEF OneFaultCostsOneCall, Blameless
<1>1. faults \in Nat /\ faults' \in Nat /\ faults' >= faults /\ ~cancelled
  BY FaultsAccumulate DEF IInv, TypedPhases
<1>2. IsFiniteSet(Blameless) /\ Cardinality(Blameless) \in Nat
  BY CallsAtFinite, FS_Subset, FS_CardinalityType DEF Blameless
<1>3. Cardinality(Blameless) <= faults
  BY <1>1 DEF OneFaultCostsOneCall, Blameless
<1>4. CASE CallsAt({"failed"})' = CallsAt({"failed"})
  BY <1>1, <1>2, <1>3, <1>4 DEF Blameless
<1>5. ASSUME NEW c \in Calls, LosesOne(c)
      PROVE  Cardinality(Blameless') <= faults'
  <2>1. CASE c \in Panics \cup BadRows
    <3>1. Blameless' = Blameless
      BY <1>5, <2>1 DEF LosesOne, Blameless
    <3>2. QED
      BY <1>1, <1>2, <1>3, <3>1
  <2>2. CASE c \notin Panics \cup BadRows
    <3>1. Blameless' = Blameless \cup {c} /\ faults' = faults + 1
      BY <1>5, <2>2 DEF LosesOne, Blameless
    <3>2. /\ Cardinality(Blameless \cup {c})
               = IF c \in Blameless THEN Cardinality(Blameless) ELSE Cardinality(Blameless) + 1
      BY <1>2, FS_AddElement
    <3>3. QED
      BY <1>1, <1>2, <1>3, <3>1, <3>2
  <2>3. QED
    BY <2>1, <2>2
<1>6. QED
  BY <1>1, <1>4, <1>5, Settling DEF SettlesNothing, StoresSome

\* A panic or a store fault costs the call it hits and never a second one,
\* for any number of faults and whichever insert path the batch took.
THEOREM FaultsContained == Spec => []OneFaultCostsOneCall
<1>1. Init => ShutdownCancelled /\ OneFaultCostsOneCall
  <2> SUFFICES ASSUME Init PROVE ShutdownCancelled /\ OneFaultCostsOneCall
    OBVIOUS
  <2>1. CallsAt({"failed"}) \ (Panics \cup BadRows) = {}
    BY DEF Init, CallsAt
  <2>2. Cardinality({}) = 0
    BY FS_EmptySet
  <2>3. faults = 0
    BY DEF Init
  <2>4. OneFaultCostsOneCall
    BY <2>1, <2>2, <2>3 DEF OneFaultCostsOneCall
  <2>5. QED
    BY <2>4 DEF Init, ShutdownCancelled
<1>2. /\ IInv /\ ShutdownCancelled /\ OneFaultCostsOneCall /\ [Next]_vars
      => ShutdownCancelled' /\ OneFaultCostsOneCall'
  BY ShutdownStep, OneFaultStep
<1>3. QED
  BY <1>1, <1>2, InductiveInvariant, PTL DEF Spec

LEMMA StatsStep ==
  IInv /\ ShutdownCancelled /\ StatsExact /\ [Next]_vars => StatsExact'
<1> SUFFICES ASSUME IInv, ShutdownCancelled, StatsExact, [Next]_vars,
                    faults' = 0, ~cancelled'
             PROVE  /\ stats'.processed = Cardinality(CallsAt({"stored"})')
                    /\ stats'.failed = Cardinality(CallsAt({"failed"})')
  BY DEF StatsExact
<1>1. faults = 0 /\ ~cancelled /\ stats \in [processed : Nat, failed : Nat]
  BY FaultsAccumulate DEF IInv, TypedPhases, TypeOK
<1>2. /\ stats.processed = Cardinality(CallsAt({"stored"}))
      /\ stats.failed = Cardinality(CallsAt({"failed"}))
  BY <1>1 DEF StatsExact
<1>3. CASE SettlesNothing
  BY <1>1, <1>2, <1>3 DEF SettlesNothing
<1>4. ASSUME NEW c \in Calls, LosesOne(c)
      PROVE  /\ stats'.processed = Cardinality(CallsAt({"stored"})')
             /\ stats'.failed = Cardinality(CallsAt({"failed"})')
  <2>1. IsFiniteSet(CallsAt({"failed"}))
    BY CallsAtFinite
  <2>2. c \notin CallsAt({"failed"})
    BY <1>4 DEF LosesOne, CallsAt
  <2>3. Cardinality(CallsAt({"failed"}) \cup {c}) = Cardinality(CallsAt({"failed"})) + 1
    BY <2>1, <2>2, FS_AddElement
  <2>4. stats'.processed = stats.processed /\ stats'.failed = stats.failed + 1
    BY <1>1, <1>4 DEF LosesOne
  <2>5. QED
    BY <1>2, <1>4, <2>3, <2>4 DEF LosesOne
<1>5. ASSUME NEW S \in SUBSET CallsAt({"pending"}), StoresSome(S)
      PROVE  /\ stats'.processed = Cardinality(CallsAt({"stored"})')
             /\ stats'.failed = Cardinality(CallsAt({"failed"})')
  <2>1. IsFiniteSet(CallsAt({"stored"})) /\ Cardinality(CallsAt({"stored"})) \in Nat
    BY CallsAtFinite
  <2>2. IsFiniteSet(S) /\ Cardinality(S) \in Nat
    BY CallsAtFinite, FS_Subset, FS_CardinalityType
  <2>3. CallsAt({"stored"}) \cap S = {}
    BY DEF CallsAt
  <2>4. Cardinality(CallsAt({"stored"}) \cup S) = Cardinality(CallsAt({"stored"})) + Cardinality(S)
    BY <2>1, <2>2, <2>3, DisjointUnion
  <2>5. stats'.processed = stats.processed + Cardinality(S) /\ stats'.failed = stats.failed
    BY <1>1, <1>5 DEF StoresSome
  <2>6. QED
    BY <1>2, <1>5, <2>4, <2>5 DEF StoresSome
<1>6. QED
  BY <1>1, <1>3, <1>4, <1>5, Settling

\* Calls at different stages are counted apart.
LEMMA StagesApart ==
  ASSUME NEW S, NEW T, S \cap T = {}
  PROVE  Cardinality(CallsAt(S \cup T)) = Cardinality(CallsAt(S)) + Cardinality(CallsAt(T))
<1>1. /\ CallsAt(S \cup T) = CallsAt(S) \cup CallsAt(T)
      /\ CallsAt(S) \cap CallsAt(T) = {}
  BY DEF CallsAt
<1>2. IsFiniteSet(CallsAt(S)) /\ IsFiniteSet(CallsAt(T))
  BY CallsAtFinite
<1>3. QED
  BY <1>1, <1>2, DisjointUnion

\* While Run waits, the batch holds the calls it has taken and the channel
\* those that are queued, and nothing is in between.
LEMMA StatsWhileWaiting == IInv /\ StatsExact => StatsAddUp
<1> SUFFICES ASSUME IInv, StatsExact, pc = "select", faults = 0, ~cancelled
             PROVE  stats.processed + stats.failed + Len(batch) + Len(queue)
                      = Cardinality(CallsAt(Stages \ {"open", "dropped"}))
  BY DEF StatsAddUp
<1>1. prepared = 0 /\ pend = << >>
  BY DEF IInv, FlushPhases
<1>2. Len(batch) = Cardinality(CallsAt({"taken"}))
  <2>1. batch \in Seq(Calls) /\ IsInjective(batch) /\ Unprepared = CallsAt({"taken"})
    BY DEF IInv, TypeOK, EveryCallInOnePlace
  <2>2. Unprepared = Range(batch)
    BY <1>1, <2>1, RestOfBatch DEF Unprepared, Rest
  <2>3. QED
    BY <2>1, <2>2, LengthOfRange
<1>3. Len(queue) = Cardinality(CallsAt({"queued"}))
  BY LengthOfRange DEF IInv, TypeOK, EveryCallInOnePlace
<1>4. CallsAt({"pending"}) = {}
  BY <1>1, EmptyRange DEF IInv, EveryCallInOnePlace
<1>5. /\ stats.processed = Cardinality(CallsAt({"stored"}))
      /\ stats.failed = Cardinality(CallsAt({"failed"}))
  BY DEF StatsExact
<1>6. Cardinality(CallsAt({"stored", "failed"}))
        = Cardinality(CallsAt({"stored"})) + Cardinality(CallsAt({"failed"}))
  <2>1. {"stored"} \cap {"failed"} = {} /\ {"stored"} \cup {"failed"} = {"stored", "failed"}
    OBVIOUS
  <2>2. QED
    BY <2>1, StagesApart
<1>7. Cardinality(CallsAt({"taken", "stored", "failed"}))
        = Cardinality(CallsAt({"taken"})) + Cardinality(CallsAt({"stored", "failed"}))
  <2>1. /\ {"taken"} \cap {"stored", "failed"} = {}
        /\ {"taken"} \cup {"stored", "failed"} = {"taken", "stored", "failed"}
    OBVIOUS
  <2>2. QED
    BY <2>1, StagesApart
<1>8. Cardinality(CallsAt({"queued", "taken", "stored", "failed"}))
        = Cardinality(CallsAt({"queued"})) + Cardinality(CallsAt({"taken", "stored", "failed"}))
  <2>1. /\ {"queued"} \cap {"taken", "stored", "failed"} = {}
        /\ {"queued"} \cup {"taken", "stored", "failed"} = {"queued", "taken", "stored", "failed"}
    OBVIOUS
  <2>2. QED
    BY <2>1, StagesApart
<1>9. CallsAt(Stages \ {"open", "dropped"}) = CallsAt({"queued", "taken", "stored", "failed"})
  BY <1>4 DEF CallsAt, Stages, Settled
<1>10. /\ Cardinality(CallsAt({"stored"})) \in Nat /\ Cardinality(CallsAt({"failed"})) \in Nat
       /\ Cardinality(CallsAt({"taken"})) \in Nat /\ Cardinality(CallsAt({"queued"})) \in Nat
  BY CallsAtFinite
<1>11. QED
  BY <1>2, <1>3, <1>5, <1>6, <1>7, <1>8, <1>9, <1>10

\* The counters, kept in different places and bumped at different moments,
\* account for every call the sink let in.
THEOREM StatsAlwaysAddUp == Spec => []StatsAddUp
<1>1. Init => ShutdownCancelled /\ StatsExact
  <2> SUFFICES ASSUME Init PROVE ShutdownCancelled /\ StatsExact
    OBVIOUS
  <2>1. CallsAt({"failed"}) = {} /\ CallsAt({"stored"}) = {}
    BY DEF Init, CallsAt
  <2>2. QED
    BY <2>1, FS_EmptySet DEF Init, ShutdownCancelled, StatsExact
<1>2. IInv /\ ShutdownCancelled /\ StatsExact /\ [Next]_vars => ShutdownCancelled' /\ StatsExact'
  BY ShutdownStep, StatsStep
<1>3. QED
  BY <1>1, <1>2, StatsWhileWaiting, InductiveInvariant, PTL DEF Spec

-----------------------------------------------------------------------------
(***************************************************************************)
(* finishCall reaches every row.                                           *)
(***************************************************************************)

\* todo is the rows finishCall still owes; the others are finished, and the
\* one about to be folded has its warnings.
OwedRows ==
  /\ IsInjective(todo) /\ Range(todo) \subseteq Range(rows)
  /\ pc \in {"select", "drain", "prepare", "done"} => todo = << >>
  /\ (faults = 0 /\ ~cancelled) =>
       LET finished == Range(rows) \ Range(todo)
       IN  /\ folded = finished
           /\ warned = (finished \cup IF pc = "fold" THEN {Head(todo)} ELSE {}) \cap Warned

\* The steps outside the flush's insert and post-insert halves.
LEMMA OwedStays ==
  ASSUME OwedRows,
         UNCHANGED <<todo, rows, warned, folded>>,
         faults' = 0 => faults = 0,
         cancelled => cancelled',
         pc' = "fold" <=> pc = "fold",
         pc' \in {"select", "drain", "prepare", "done"} =>
           pc \in {"select", "drain", "prepare", "done"} \/ todo = << >>
  PROVE  OwedRows'
  BY DEF OwedRows

LEMMA OwedInsertGrouped ==
  ASSUME IInv, OwedRows, InsertGrouped
  PROVE  OwedRows'
<1>1. /\ rows' = rows \o pend /\ todo' = pend /\ todo = << >> /\ pc = "prepare"
      /\ pc' = "finish" /\ UNCHANGED <<cancelled, warned, folded, faults>>
  BY DEF InsertGrouped, clockVars, OwedRows
<1>2. /\ IsInjective(pend) /\ Range(rows \o pend) = Range(rows) \cup Range(pend)
  BY ConcatRange DEF IInv, TypeOK, EveryCallInOnePlace
<1>3. Range(rows) \cap Range(pend) = {}
  BY DEF IInv, EveryCallInOnePlace, CallsAt
<1>4. Range(rows') \ Range(todo') = Range(rows) \ Range(todo)
  BY <1>1, <1>2, <1>3, EmptyRange
<1>5. QED
  BY <1>1, <1>2, <1>4 DEF OwedRows

LEMMA OwedInsertOne ==
  ASSUME IInv, OwedRows, InsertOne, faults \in Nat
  PROVE  OwedRows'
<1> DEFINE c == Head(pend)
<1>1. /\ pc = "rows" /\ pc' \in {"rows", "finish"} /\ UNCHANGED <<cancelled, warned, folded>>
      /\ pend # << >> /\ (faults' = 0 => faults = 0)
  BY DEF InsertOne, clockVars, IInv, FlushPhases, Refused, Fault
<1>2. c \in Calls /\ c \notin Range(rows)
  <2>1. c \in Range(pend) /\ c \in Calls
    BY <1>1, TailRange DEF IInv, TypeOK
  <2>2. QED
    BY <2>1 DEF IInv, EveryCallInOnePlace, CallsAt
<1>3. CASE rows' = Append(rows, c) /\ todo' = Append(todo, c)
  <2>0. /\ rows \in Seq(Calls) /\ todo \in Seq(Calls)
        /\ IsInjective(todo) /\ c \notin Range(todo)
    BY <1>2 DEF IInv, TypeOK, OwedRows
  <2> HIDE DEF c
  <2>1. Range(rows') = Range(rows) \cup {c}
    BY <1>2, <1>3, <2>0, AppendRange
  <2>2. Range(todo') = Range(todo) \cup {c} /\ IsInjective(todo')
    BY <1>2, <1>3, <2>0, AppendRange
  <2>3. Range(rows') \ Range(todo') = Range(rows) \ Range(todo)
    BY <1>2, <2>1, <2>2
  <2>4. QED
    BY <1>1, <2>1, <2>2, <2>3 DEF OwedRows
<1>4. CASE rows' = rows /\ todo' = todo
  BY <1>1, <1>4, OwedStays
<1>5. QED
  BY <1>3, <1>4 DEF InsertOne, AttachRow

LEMMA OwedWriteWarnings ==
  ASSUME IInv, OwedRows, WriteWarnings
  PROVE  OwedRows'
<1> DEFINE h == Head(todo)
<1>1. /\ pc = "finish" /\ pc' = "fold" /\ warned' = warned \cup ({h} \cap Warned)
      /\ UNCHANGED <<todo, rows, folded, faults, cancelled>>
  BY DEF WriteWarnings, clockVars
<1>2. /\ IsInjective(todo)' /\ (Range(todo) \subseteq Range(rows))'
  BY <1>1 DEF OwedRows
<1>3. ASSUME faults' = 0, ~cancelled'
      PROVE  /\ folded' = Range(rows) \ Range(todo)
             /\ warned' = ((Range(rows) \ Range(todo)) \cup {h}) \cap Warned
  <2>1. /\ folded = Range(rows) \ Range(todo)
        /\ warned = ((Range(rows) \ Range(todo)) \cup {}) \cap Warned
    BY <1>1, <1>3 DEF OwedRows
  <2>2. QED
    BY <1>1, <2>1
<1>4. QED
  BY <1>1, <1>2, <1>3 DEF OwedRows

LEMMA OwedFold ==
  ASSUME IInv, ShutdownCancelled, OwedRows, Fold, faults \in Nat
  PROVE  OwedRows'
<1> DEFINE h == Head(todo)
<1>1. /\ pc = "fold" /\ pc' = "finish" /\ todo' = Tail(todo) /\ todo # << >>
      /\ UNCHANGED <<rows, warned, cancelled>>
  BY DEF Fold, clockVars, IInv, FlushPhases
<1>2. /\ h \in Range(todo) /\ IsInjective(Tail(todo))
      /\ Range(Tail(todo)) = Range(todo) \ {h} /\ Range(todo) \subseteq Range(rows)
  BY <1>1, TailRange DEF OwedRows, IInv, TypeOK
<1>3. ASSUME faults' = 0, ~cancelled'
      PROVE  /\ folded' = Range(rows) \ Range(Tail(todo))
             /\ warned' = (Range(rows) \ Range(Tail(todo))) \cap Warned
  <2>1. faults' = faults /\ folded' = folded \cup {h} /\ ~cancelled
    BY <1>1, <1>3, WorkingContext DEF Fold, Fault
  <2>2. /\ folded = Range(rows) \ Range(todo)
        /\ warned = ((Range(rows) \ Range(todo)) \cup {h}) \cap Warned
    BY <1>1, <1>3, <2>1 DEF OwedRows
  <2>3. QED
    BY <1>1, <1>2, <2>1, <2>2
<1>4. QED
  BY <1>1, <1>2, <1>3 DEF OwedRows

\* A write of the warnings that fails is a fault while nothing was cancelled.
LEMMA OwedWarningsFail ==
  ASSUME IInv, ShutdownCancelled, OwedRows, WarningsFail, faults \in Nat
  PROVE  OwedRows'
<1>1. /\ pc' \in {"fold", "finish"} /\ todo # << >>
      /\ UNCHANGED <<rows, warned, folded, cancelled>>
      /\ todo' \in {todo, Tail(todo)}
  BY DEF WarningsFail, clockVars
<1>2. IsInjective(todo') /\ Range(todo') \subseteq Range(rows')
  <2>1. IsInjective(todo) /\ Range(todo) \subseteq Range(rows) /\ todo \in Seq(Calls)
    BY DEF OwedRows, IInv, TypeOK
  <2>2. IsInjective(Tail(todo)) /\ Range(Tail(todo)) \subseteq Range(rows)
    BY <1>1, <2>1, TailRange
  <2>3. QED
    BY <1>1, <2>1, <2>2
<1>3. ~cancelled' => faults' # 0
  BY <1>1, WorkingContext DEF WarningsFail, Fault
<1>4. QED
  BY <1>1, <1>2, <1>3 DEF OwedRows

LEMMA OwedStep == IInv /\ ShutdownCancelled /\ OwedRows /\ [Next]_vars => OwedRows'
<1> SUFFICES ASSUME IInv, ShutdownCancelled, OwedRows, [Next]_vars PROVE OwedRows'
  OBVIOUS
<1>1. faults \in Nat /\ (faults' = 0 => faults = 0) /\ (cancelled => cancelled')
  BY FaultsAccumulate DEF IInv, TypedPhases
<1> USE DEF flushVars
<1>2. CASE Producer \/ Cancel \/ Expire
  BY <1>1, <1>2, OwedStays DEF Producer, Submit, CountSubmit, Cancel, Expire
<1>3. CASE Receive \/ QuietTimeout \/ CtxDone \/ DrainReceive \/ DrainStop
  BY <1>1, <1>3, OwedStays DEF Receive, QuietTimeout, CtxDone, DrainReceive, DrainStop
<1>4. CASE Prepare \/ NothingToInsert \/ RollBack \/ EndFlush
  BY <1>1, <1>4, OwedStays DEF Prepare, NothingToInsert, RollBack, RetryRowByRow, EndFlush
<1>5. CASE InsertGrouped
  BY <1>5, OwedInsertGrouped
<1>6. CASE InsertOne
  BY <1>1, <1>6, OwedInsertOne
<1>7. CASE WriteWarnings
  BY <1>7, OwedWriteWarnings
<1>8. CASE WarningsFail
  BY <1>1, <1>8, OwedWarningsFail
<1>9. CASE Fold
  BY <1>1, <1>9, OwedFold
<1>10. CASE UNCHANGED vars
  BY <1>1, <1>10, OwedStays DEF vars
<1>11. QED
  BY <1>2, <1>3, <1>4, <1>5, <1>6, <1>7, <1>8, <1>9, <1>10 DEF Next, Consumer, Flush, Done

\* Whichever path inserted a row, its warnings and its session's totals follow
\* before Run waits again.
THEOREM RowsAlwaysFinished == Spec => []EveryRowFinished
<1>1. Init => ShutdownCancelled /\ OwedRows
  BY EmptyRange DEF Init, ShutdownCancelled, OwedRows
<1>2. IInv /\ ShutdownCancelled /\ OwedRows /\ [Next]_vars => ShutdownCancelled' /\ OwedRows'
  BY ShutdownStep, OwedStep
<1>3. OwedRows => EveryRowFinished
  BY EmptyRange DEF OwedRows, EveryRowFinished
<1>4. QED
  BY <1>1, <1>2, <1>3, InductiveInvariant, PTL DEF Spec
=============================================================================
