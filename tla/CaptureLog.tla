----------------------------- MODULE CaptureLog -----------------------------
(***************************************************************************)
(* What the capture pipeline promises, with no goroutine, batch, timer or  *)
(* transaction in sight.  A captured call is either refused on arrival, and *)
(* then only because at least Capacity accepted calls are still waiting,    *)
(* or it waits in arrival order until it is stored, in that order, or lost  *)
(* on its own: nothing is stored twice, stored after it was lost, or stored *)
(* ahead of an earlier call that is still going to be stored.               *)
(***************************************************************************)
EXTENDS SequencesExt

CONSTANTS Calls, Capacity

VARIABLES
  pending,  \* accepted and not yet settled, oldest first
  stored,   \* the requests table, in id order
  refused,  \* dropped at the sink
  lost      \* accepted, and given up on

logVars == <<pending, stored, refused, lost>>

Fresh(c) == c \notin Range(pending) \cup Range(stored) \cup refused \cup lost

LogInit ==
  /\ pending = << >>
  /\ stored = << >>
  /\ refused = {}
  /\ lost = {}

Accept(c) ==
  /\ Fresh(c)
  /\ pending' = Append(pending, c)
  /\ UNCHANGED <<stored, refused, lost>>

Refuse(c) ==
  /\ Fresh(c)
  /\ Len(pending) >= Capacity
  /\ refused' = refused \cup {c}
  /\ UNCHANGED <<pending, stored, lost>>

\* The n oldest calls become rows in one transaction.
Commit(n) ==
  /\ stored' = stored \o SubSeq(pending, 1, n)
  /\ pending' = SubSeq(pending, n + 1, Len(pending))
  /\ UNCHANGED <<refused, lost>>

\* One call is given up on; the others keep their order.
Lose(i) ==
  /\ lost' = lost \cup {pending[i]}
  /\ pending' = RemoveAt(pending, i)
  /\ UNCHANGED <<stored, refused>>

LogNext ==
  \/ \E c \in Calls : Accept(c) \/ Refuse(c)
  \/ \E n \in 1..Len(pending) : Commit(n) \/ Lose(n)

LogSpec == LogInit /\ [][LogNext]_logVars
=============================================================================
