------------------------------ MODULE Capture ------------------------------
(***************************************************************************)
(* The cold path of `lens serve`: internal/sink's bounded hand-off and the *)
(* single goroutine of internal/consumer that batches captured calls and   *)
(* writes them to the store.                                               *)
(*                                                                         *)
(* Concurrency.  Each proxied call is its own goroutine (Submit, then the  *)
(* counter it bumps); the consumer is one goroutine that takes one step at *)
(* a time; the run context can be cancelled between any two steps, also in *)
(* the middle of a flush.  Go's select picks any ready case, so the three  *)
(* cases of Run's loop are three actions with no priority between them.    *)
(*                                                                         *)
(* Data.  A call is a model value.  What matters about its bytes is        *)
(* whether they make the pipeline panic (Panics), whether the store        *)
(* refuses the row they become (BadRows: say the replay_of it names was    *)
(* purged), and whether the analyzers or an upstream error give it         *)
(* warnings (Warned).                                                      *)
(***************************************************************************)
EXTENDS Naturals, Sequences, FiniteSets, Functions

CONSTANTS
  Calls,      \* captured calls
  Capacity,   \* sink.New's channel capacity
  BatchSize,  \* consumer.batchSize
  Panics,     \* calls whose prepareCall panics
  BadRows,    \* calls whose row the store rejects, whatever the transaction
  Warned,     \* calls finishCall has warnings for
  MaxFaults   \* bound: transient store errors and panics injected

ASSUME CaptureAssumption ==
  /\ Capacity \in Nat \ {0}
  /\ BatchSize \in Nat \ {0}
  /\ MaxFaults \in Nat
  /\ IsFiniteSet(Calls)
  /\ Panics \subseteq Calls
  /\ BadRows \subseteq Calls
  /\ Warned \subseteq Calls

VARIABLES
  stage,      \* where each call is: a history of its fate, read by no guard of the consumer
  queue,      \* Sink.ch
  uncounted,  \* calls past Submit's select, before its counter is bumped
  sink,       \* Sink.accepted and Sink.dropped
  pc,         \* the consumer goroutine
  batch,      \* Run's batch
  prepared,   \* how many calls of batch prepareCall has seen in this flush
  pend,       \* flushBatch's pend, rows not inserted yet
  todo,       \* rows with an id, finishCall still owed
  timer,      \* Run's timer is armed (or has fired and waits in timerC)
  cancelled,  \* Run's ctx is done
  final,      \* the flush under way, if any, writes on shutdownCtx
  expired,    \* shutdownBound has passed since shutdownCtx was made
  stats,      \* Consumer.processed and Consumer.failed
  rows,       \* the requests table, in id order
  warned,     \* calls whose warnings are in the warnings table
  folded,     \* calls folded into their session's totals
  faults      \* faults injected so far

producerVars == <<queue, uncounted, sink>>
flushVars == <<pend, todo, rows, warned, folded, stats, faults>>
clockVars == <<cancelled, expired>>
vars == <<stage, queue, uncounted, sink, pc, batch, prepared, pend, todo, timer,
          cancelled, final, expired, stats, rows, warned, folded, faults>>

Settled == {"stored", "failed"}
Stages == {"open", "dropped", "queued", "taken", "pending"} \cup Settled
Phases == {"select", "drain", "prepare", "rows", "finish", "fold", "done"}

CallsAt(S) == {c \in Calls : stage[c] \in S}

Init ==
  /\ stage = [c \in Calls |-> "open"]
  /\ queue = << >>
  /\ uncounted = {}
  /\ sink = [accepted |-> 0, dropped |-> 0]
  /\ pc = "select"
  /\ batch = << >>
  /\ prepared = 0
  /\ pend = << >>
  /\ todo = << >>
  /\ timer = FALSE
  /\ cancelled = FALSE
  /\ final = FALSE
  /\ expired = FALSE
  /\ stats = [processed |-> 0, failed |-> 0]
  /\ rows = << >>
  /\ warned = {}
  /\ folded = {}
  /\ faults = 0

(***************************************************************************)
(* The hot path: captureState.submit and Sink.Submit.                      *)
(***************************************************************************)

\* [mutant] reserve one slot of the channel
HasRoomReserved == Len(queue) < Capacity - 1

HasRoom == Len(queue) < Capacity

\* The non-blocking send: it succeeds exactly when the channel has room.
Submit(c) ==
  /\ stage[c] = "open"
  /\ \/ /\ HasRoom
        /\ queue' = Append(queue, c)
        /\ stage' = [stage EXCEPT ![c] = "queued"]
     \/ /\ ~HasRoom
        /\ queue' = queue
        /\ stage' = [stage EXCEPT ![c] = "dropped"]
  /\ uncounted' = uncounted \cup {c}
  /\ UNCHANGED <<sink, pc, batch, prepared, timer, final, flushVars, clockVars>>

\* accepted or dropped is bumped after the send: the consumer may be ahead of it.
CountSubmit(c) ==
  /\ c \in uncounted
  /\ uncounted' = uncounted \ {c}
  /\ sink' = IF stage[c] = "dropped"
             THEN [sink EXCEPT !.dropped = @ + 1]
             ELSE [sink EXCEPT !.accepted = @ + 1]
  /\ UNCHANGED <<stage, queue, pc, batch, prepared, timer, final, flushVars, clockVars>>

(***************************************************************************)
(* Consumer.Run.                                                           *)
(***************************************************************************)

\* SIGINT, POST /api/shutdown, or a server that failed: serve's stop().
Cancel ==
  /\ ~cancelled
  /\ cancelled' = TRUE
  /\ UNCHANGED <<stage, producerVars, pc, batch, prepared, timer, final, expired, flushVars>>

\* [mutant] one call too many before the flush is forced
BatchFullLate(n) == n > BatchSize

BatchFull(n) == n >= BatchSize

\* [mutant] the quiet timer is started for the very first batch only
ArmTimerOnce(armed) == IF rows = << >> THEN TRUE ELSE armed

\* Run starts the timer with the first call of a batch and leaves it running.
ArmTimer(armed) == TRUE

\* case call := <-ch in Run.
Receive ==
  /\ pc = "select"
  /\ queue # << >>
  /\ queue' = Tail(queue)
  /\ batch' = Append(batch, Head(queue))
  /\ stage' = [stage EXCEPT ![Head(queue)] = "taken"]
  /\ IF BatchFull(Len(batch'))
     THEN pc' = "prepare" /\ timer' = timer
     ELSE pc' = "select" /\ timer' = ArmTimer(timer)
  /\ UNCHANGED <<uncounted, sink, prepared, final, flushVars, clockVars>>

\* case <-timerC in Run: batchQuietWait has passed since the batch's first call.
QuietTimeout ==
  /\ pc = "select"
  /\ timer
  /\ timer' = FALSE
  /\ pc' = "prepare"
  /\ UNCHANGED <<stage, producerVars, batch, prepared, final, flushVars, clockVars>>

\* case <-ctx.Done() in Run: shutdownCtx is made, its clock starts.
CtxDone ==
  /\ pc = "select"
  /\ cancelled
  /\ pc' = "drain"
  /\ UNCHANGED <<stage, producerVars, batch, prepared, timer, final, flushVars, clockVars>>

\* case call := <-ch in drainRemaining: no batch limit any more.
DrainReceive ==
  /\ pc = "drain"
  /\ queue # << >>
  /\ queue' = Tail(queue)
  /\ batch' = Append(batch, Head(queue))
  /\ stage' = [stage EXCEPT ![Head(queue)] = "taken"]
  /\ UNCHANGED <<uncounted, sink, pc, prepared, timer, final, flushVars, clockVars>>

\* [mutant] only a closed channel ends the drain, and serve never closes it
DrainForever == FALSE

\* Either 100 ms went by with nothing new or the hard deadline passed.  A call
\* may arrive as the idle timer fires: select may still take the timer.
DrainMayStop == TRUE

\* drainRemaining returns; flush(shutdownCtx) does nothing for an empty batch.
DrainStop ==
  /\ pc = "drain"
  /\ DrainMayStop
  /\ pc' = IF batch = << >> THEN "done" ELSE "prepare"
  /\ final' = TRUE
  /\ UNCHANGED <<stage, producerVars, batch, prepared, timer, flushVars, clockVars>>

\* shutdownBound runs out, during the drain or the final flush.
Expire ==
  /\ ~expired
  /\ pc = "drain" \/ (final /\ pc # "done")
  /\ expired' = TRUE
  /\ UNCHANGED <<stage, producerVars, pc, batch, prepared, timer, cancelled, final, flushVars>>

(***************************************************************************)
(* flushBatch.                                                             *)
(***************************************************************************)

\* Whether the context the flush writes on still lets a statement run.
WriteCtxOK == IF final THEN ~expired ELSE ~cancelled

\* A transient store error or panic, charged to a statement that would succeed.
Fault ==
  /\ faults < MaxFaults
  /\ faults' = faults + 1

\* The store takes the rows S in one transaction on the flush's context.
Writable(S) == WriteCtxOK /\ S \cap BadRows = {}

\* The transaction that writes the rows S fails.
Refused(S) ==
  \/ ~Writable(S) /\ UNCHANGED faults
  \/ Writable(S) /\ Fault

\* prepareCall: a panic costs the call, never the flush.
Prepare ==
  /\ pc = "prepare"
  /\ prepared < Len(batch)
  /\ prepared' = prepared + 1
  /\ LET c == batch[prepared + 1]
     IN \/ /\ c \in Panics
           /\ stage' = [stage EXCEPT ![c] = "failed"]
           /\ stats' = [stats EXCEPT !.failed = @ + 1]
           /\ UNCHANGED pend
        \/ /\ c \notin Panics
           /\ stage' = [stage EXCEPT ![c] = "pending"]
           /\ pend' = Append(pend, c)
           /\ UNCHANGED stats
  /\ UNCHANGED <<producerVars, pc, batch, timer, final, clockVars,
                 todo, rows, warned, folded, faults>>

\* flushBatch reaches insertBatch, which has nothing to write.
NothingToInsert ==
  /\ pc = "prepare" /\ prepared = Len(batch)
  /\ pend = << >>
  /\ pc' = "finish"
  /\ UNCHANGED <<stage, producerVars, batch, prepared, timer, final, flushVars, clockVars>>

\* [mutant] a committed batch counts as one
CountOne(n) == 1

\* processed grows by the number of rows the transaction wrote.
CountCommitted(n) == n

\* insertGrouped: InsertRequests commits every row of the flush.
InsertGrouped ==
  /\ pc = "prepare" /\ prepared = Len(batch)
  /\ pend # << >>
  /\ Writable(Range(pend))
  /\ rows' = rows \o pend
  /\ todo' = pend
  /\ pend' = << >>
  /\ stage' = [c \in Calls |-> IF c \in Range(pend) THEN "stored" ELSE stage[c]]
  /\ stats' = [stats EXCEPT !.processed = @ + CountCommitted(Len(pend))]
  /\ pc' = "finish"
  /\ UNCHANGED <<producerVars, batch, prepared, timer, final, clockVars, warned, folded, faults>>

\* [mutant] a batch that rolled back is lost whole
GiveUpBatch ==
  /\ pc' = "finish"
  /\ pend' = << >>
  /\ stage' = [c \in Calls |-> IF c \in Range(pend) THEN "failed" ELSE stage[c]]
  /\ stats' = [stats EXCEPT !.failed = @ + Len(pend)]

\* The ids are cleared and every row is tried on its own.
RetryRowByRow ==
  /\ pc' = "rows"
  /\ UNCHANGED <<pend, stage, stats>>

\* insertGrouped: the transaction rolled back, or the write panicked.
RollBack ==
  /\ pc = "prepare" /\ prepared = Len(batch)
  /\ pend # << >>
  /\ Refused(Range(pend))
  /\ RetryRowByRow
  /\ UNCHANGED <<producerVars, batch, prepared, timer, final, clockVars,
                 todo, rows, warned, folded>>

\* [mutant] a row written on its own keeps ID 0, so finishCall skips it
AttachNothing(c) == todo

\* insertOne records the id: finishCall is owed to the row.
AttachRow(c) == Append(todo, c)

\* insertOne, row by row after a rolled-back batch.
InsertOne ==
  /\ pc = "rows"
  /\ LET c == Head(pend)
     IN \/ /\ Writable({c})
           /\ rows' = Append(rows, c)
           /\ todo' = AttachRow(c)
           /\ stage' = [stage EXCEPT ![c] = "stored"]
           /\ stats' = [stats EXCEPT !.processed = @ + 1]
           /\ UNCHANGED faults
        \/ /\ Refused({c})
           /\ stage' = [stage EXCEPT ![c] = "failed"]
           /\ stats' = [stats EXCEPT !.failed = @ + 1]
           /\ UNCHANGED <<rows, todo>>
  /\ pend' = Tail(pend)
  /\ pc' = IF Len(pend) = 1 THEN "finish" ELSE "rows"
  /\ UNCHANGED <<producerVars, batch, prepared, timer, final, clockVars, warned, folded>>

(***************************************************************************)
(* finishCall, one row at a time, and the end of the flush.                *)
(***************************************************************************)

\* The analyzers ran; InsertWarnings writes what they said.
WriteWarnings ==
  /\ pc = "finish"
  /\ todo # << >>
  /\ Head(todo) \in Warned => WriteCtxOK
  /\ warned' = warned \cup ({Head(todo)} \cap Warned)
  /\ pc' = "fold"
  /\ UNCHANGED <<stage, producerVars, batch, prepared, timer, final, clockVars,
                 pend, todo, rows, folded, stats, faults>>

\* InsertWarnings fails: the call counts as failed, though its row is stored.
\* An error goes on to the session fold, a panic leaves finishCall.
WarningsFail ==
  /\ pc = "finish"
  /\ todo # << >>
  /\ Head(todo) \in Warned
  /\ stats' = [stats EXCEPT !.failed = @ + 1]
  /\ \/ pc' = "fold" /\ todo' = todo /\ Refused({})
     \/ pc' = "finish" /\ todo' = Tail(todo) /\ WriteCtxOK /\ Fault
  /\ UNCHANGED <<stage, producerVars, batch, prepared, timer, final, clockVars,
                 pend, rows, warned, folded>>

\* RecordCall folds the call into its session.  An error is only logged, a
\* panic is counted failed.
Fold ==
  /\ pc = "fold"
  /\ pc' = "finish"
  /\ todo' = Tail(todo)
  /\ \/ WriteCtxOK /\ folded' = folded \cup {Head(todo)} /\ UNCHANGED <<faults, stats>>
     \/ Refused({}) /\ UNCHANGED <<folded, stats>>
     \/ WriteCtxOK /\ Fault /\ UNCHANGED folded
        /\ stats' = [stats EXCEPT !.failed = @ + 1]
  /\ UNCHANGED <<stage, producerVars, batch, prepared, timer, final, clockVars,
                 pend, rows, warned>>

\* [mutant] batch = batch[:0] is forgotten
KeepBatch == batch

\* batch = batch[:0] after the flush.
EmptyBatch == << >>

\* [mutant] a flush leaves the quiet timer running
KeepTimer == timer

\* stopTimer() after the flush.
StopTimer == FALSE

\* [mutant] the next flush starts where this one stopped
KeepCursor == prepared

\* flushBatch's loop starts at the first call of the next batch.
RewindCursor == 0

\* flushBatch returned: the batch is emptied and the timer stopped; the flush
\* that followed the drain was the last thing Run does.
EndFlush ==
  /\ pc = "finish"
  /\ todo = << >>
  /\ batch' = EmptyBatch
  /\ prepared' = RewindCursor
  /\ timer' = StopTimer
  /\ pc' = IF final THEN "done" ELSE "select"
  /\ UNCHANGED <<stage, producerVars, final, clockVars, flushVars>>

-----------------------------------------------------------------------------

Producer == \E c \in Calls : Submit(c) \/ CountSubmit(c)

Flush ==
  \/ Prepare \/ NothingToInsert \/ InsertGrouped \/ RollBack \/ InsertOne
  \/ WriteWarnings \/ WarningsFail \/ Fold \/ EndFlush

Consumer == Receive \/ QuietTimeout \/ CtxDone \/ DrainReceive \/ DrainStop \/ Flush

\* Run has returned: only producers move, and they may run out.
Done == pc = "done" /\ UNCHANGED vars

Next == Producer \/ Cancel \/ Expire \/ Consumer \/ Done

Spec == Init /\ [][Next]_vars

\* The consumer goroutine is scheduled and its timers fire.  Nothing obliges a
\* call to arrive, a cancellation to happen or a store fault to occur.
FairSpec == Spec /\ WF_vars(Consumer)

-----------------------------------------------------------------------------

\* Types; a flush is only prepared over the batch it was started on, and
\* shutdownCtx exists only once the run context is cancelled.
TypeOK ==
  /\ stage \in [Calls -> Stages]
  /\ queue \in Seq(Calls) /\ Len(queue) <= Capacity
  /\ uncounted \subseteq Calls
  /\ sink \in [accepted : Nat, dropped : Nat]
  /\ pc \in Phases
  /\ batch \in Seq(Calls)
  /\ prepared \in 0..Len(batch)
  /\ pend \in Seq(Calls) /\ todo \in Seq(Calls)
  /\ timer \in BOOLEAN /\ cancelled \in BOOLEAN
  /\ final \in BOOLEAN /\ expired \in BOOLEAN
  /\ stats \in [processed : Nat, failed : Nat]
  /\ rows \in Seq(Calls)
  /\ warned \subseteq Calls /\ folded \subseteq Calls
  /\ faults \in 0..MaxFaults

\* The calls of the batch prepareCall has not reached.
Unprepared == {batch[i] : i \in (prepared + 1)..Len(batch)}

\* Conservation: a call the sink accepted is in exactly one place (the channel,
\* the unprepared part of the batch, the rows waiting to be inserted, the
\* requests table) or failed, and in that place once.  No hand-over between the
\* channel, Run, flushBatch and the row-by-row retry drops or duplicates a call.
EveryCallInOnePlace ==
  /\ Range(queue) = CallsAt({"queued"}) /\ IsInjective(queue)
  /\ Unprepared = CallsAt({"taken"}) /\ IsInjective(batch)
  /\ Range(pend) = CallsAt({"pending"}) /\ IsInjective(pend)
  /\ Range(rows) = CallsAt({"stored"}) /\ IsInjective(rows)

\* Error containment (insertBatch's and prepareCall's comments): while the run
\* context lives, every call that was lost is lost to its own panic, its own
\* bad row, or a store fault of its own.  One fault never costs two calls.
OneFaultCostsOneCall ==
  ~cancelled =>
    Cardinality(CallsAt({"failed"}) \ (Panics \cup BadRows)) <= faults

\* Consumer.Stats while Run waits: with no fault and no shutdown, what the sink
\* let in is exactly what was processed, what failed, and what still waits in
\* the batch or the channel, although the three are counted in different places.
StatsAddUp ==
  (pc = "select" /\ faults = 0 /\ ~cancelled) =>
    stats.processed + stats.failed + Len(batch) + Len(queue)
      = Cardinality(CallsAt(Stages \ {"open", "dropped"}))

\* Freshness (batchQuietWait's comment): while Run waits, the quiet timer is
\* armed exactly when a call waits in the batch, so that a call with nothing
\* behind it is still flushed, and an empty batch never wakes Run.
TimerGuardsBatch == pc = "select" => (timer <=> batch # << >>)

\* Run flushes at batchSize: only the drain at shutdown grows a batch past it.
BatchWithinLimit ==
  /\ pc = "select" => Len(batch) < BatchSize
  /\ (pc # "drain" /\ ~final) => Len(batch) <= BatchSize

\* The post-insert half reaches every row, whichever insert path it took: when
\* Run waits again, no store fault happened and no shutdown began, every row is
\* in its session's totals and has its warnings.
EveryRowFinished ==
  (pc = "select" /\ faults = 0 /\ ~cancelled) =>
    /\ folded = Range(rows)
    /\ warned = Range(rows) \cap Warned

\* "On ctx cancellation it drains whatever is already sitting in the sink for up
\* to shutdownBound, flushes once more, and returns": with a store that works
\* and within the bound, no call Run has taken is lost but to its own fault.
ShutdownKeepsTakenCalls ==
  (pc = "done" /\ ~expired /\ faults = 0) =>
    CallsAt({"failed"}) \subseteq Panics \cup BadRows

\* The abstract log this pipeline maps to: a call waits from the send until its
\* row is committed or it is given up on.
Log == INSTANCE CaptureLog WITH
         pending <- pend \o SubSeq(batch, prepared + 1, Len(batch)) \o queue,
         stored <- rows,
         refused <- CallsAt({"dropped"}),
         lost <- CallsAt({"failed"})

\* The pipeline implements the abstract log: it refuses a call only when at
\* least Capacity others wait, stores in arrival order, and stores nothing twice.
ImplementsLog == Log!LogSpec

\* A call the sink accepted becomes a row or is counted failed, unless Run has
\* returned before it was received.
AcceptedCallSettles ==
  \A c \in Calls :
    stage[c] = "queued" ~> (stage[c] \in Settled \/ pc = "done")

\* Hanging on exit is not acceptable: a cancelled Run returns.
RunReturns == cancelled ~> pc = "done"
=============================================================================
