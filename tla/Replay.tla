------------------------------- MODULE Replay -------------------------------
(***************************************************************************)
(* POST /api/requests/{id}/replay (internal/api) and `lens replay`: a      *)
(* stored request is sent again through the proxy's own handler, the       *)
(* consumer stores the call it makes, and the route, which has no other    *)
(* handle on it, polls the store for the row.                              *)
(*                                                                         *)
(* Concurrency.  Every route call is a goroutine; the consumer and a purge *)
(* run beside them.  One action is one store transaction, the whole send   *)
(* (split at the upstream's answer, when the call enters the sink), or the *)
(* reply.                                                                  *)
(*                                                                         *)
(* Data.  Bodies and edits are left out but for whether the body is there  *)
(* and the edits apply.  StartedAt is the wall clock, which may be set     *)
(* back.  `by` and `born` say whose call a row is and what was there       *)
(* before: no code reads them.                                             *)
(***************************************************************************)
EXTENDS Naturals, Sequences, FiniteSets

CONSTANTS
  Handlers,   \* calls of the route
  Originals,  \* ids of the requests that can be replayed: 1 .. n
  Capture,    \* config.Capture
  SinkCap,    \* capacity of the sink
  MaxClock    \* bound: the wall clock stays in 0 .. MaxClock

\* Ids start at 1.
ASSUME ReplayAssumption ==
  IsFiniteSet(Originals) /\ Originals \subseteq Nat \ {0} /\ MaxClock \in Nat

VARIABLES
  kept,    \* the replays in the store: [id, of, started, by]
  gone,    \* originals purged
  freeId,  \* AUTOINCREMENT
  sunk,    \* calls between the proxy and the store: [of, started, by]
  clock,   \* wall clock
  h,       \* each route call: [at, of, noCapture, before, started, asked, code, row]
  rivals   \* history: pairs of route calls that were on their way for the same original

replayVars == <<kept, gone, freeId, sunk, clock, h, rivals>>

NoCall == [at |-> "idle", of |-> 0, noCapture |-> FALSE, before |-> 0,
           started |-> 0, code |-> 0, row |-> 0]

ReplayInit ==
  /\ kept = {} /\ gone = {} /\ freeId = Cardinality(Originals) + 1 /\ sunk = <<>>
  /\ clock = 0 /\ h = [x \in Handlers |-> NoCall] /\ rivals = {}

\* From the first look at the store to the reply.
OnItsWay(x) == h[x].at \notin {"idle", "post", "replied"}

\* Its row may still come.
Pending(y) == OnItsWay(y) \/ \E i \in DOMAIN sunk : sunk[i].by = y

Reply(x, code, row) == h' = [h EXCEPT ![x].at = "replied", ![x].code = code, ![x].row = row]

----------------------------------------------------------------------------
(* The route.                                                              *)

\* replayOriginReject: a loopback Host, and an Origin that is absent or the
\* dashboard's own; the switch comes before it, the request's id after.
Origins == {"absent", "own", "other", "unusable"}
Admitted(enabled, loopback, origin) == enabled /\ loopback /\ origin \in {"absent", "own"}

\* `lens replay`: no price or one above the threshold is not sent without --yes.
CostGate(priced, dear, yes) == yes \/ (priced /\ ~ dear)

\* `lens replay` looks at the request first and may not send at all.
AskPrice(x) ==
  /\ h[x].at = "idle"
  /\ \E of \in Originals, priced, dear, yes \in BOOLEAN :
       IF of \notin gone /\ CostGate(priced, dear, yes)
       THEN h' = [h EXCEPT ![x].at = "post", ![x].of = of] ELSE Reply(x, 404, 0)
  /\ UNCHANGED <<kept, gone, freeId, sunk, clock, rivals>>

\* A rejected call ends here, before anything is read.
Ask(x) ==
  /\ h[x].at \in {"idle", "post"}
  /\ \E enabled, loopback \in BOOLEAN, origin \in Origins :
       IF Admitted(enabled, loopback, origin)
       THEN \E of \in Originals, noCapture \in BOOLEAN :
              /\ h[x].at = "post" => of = h[x].of
              /\ h' = [h EXCEPT ![x] = [NoCall EXCEPT !.at = "get", !.of = of, !.noCapture = noCapture]]
       ELSE Reply(x, 403, 0)
  /\ rivals' = IF h'[x].at = "get"
               THEN rivals \cup {{x, y} : y \in {y \in Handlers \ {x} : Pending(y) /\ h'[x].of = h[y].of}}
               ELSE rivals
  /\ UNCHANGED <<kept, gone, freeId, sunk, clock>>

\* GetRequest, then the body, the edits and the parameters.
GetOriginal(x) ==
  /\ h[x].at = "get"
  /\ \/ h[x].of \notin gone /\ h' = [h EXCEPT ![x].at = "snapshot"]
     \/ h[x].of \in gone /\ Reply(x, 404, 0)
     \/ \E code \in {400, 500} : Reply(x, code, 0)
  /\ UNCHANGED <<kept, gone, freeId, sunk, clock, rivals>>

\* ListRequests(ReplayOf, Limit 1): newest by start, then by id; 0 for none.
NewestReplay(of) ==
  LET mine == {r \in kept : r.of = of}
      later(r, s) == r.started > s.started \/ (r.started = s.started /\ r.id > s.id)
  IN  IF mine = {} THEN 0
      ELSE (CHOOSE r \in mine : \A s \in mine \ {r} : later(r, s)).id

Snapshot(x) ==
  /\ h[x].at = "snapshot"
  /\ \/ h' = [h EXCEPT ![x].at = "send", ![x].before = NewestReplay(h[x].of)]
     \/ Reply(x, 500, 0)
  /\ UNCHANGED <<kept, gone, freeId, sunk, clock, rivals>>

Send(x) ==
  /\ h[x].at = "send"
  /\ h' = [h EXCEPT ![x].at = "upstream", ![x].started = clock]
  /\ UNCHANGED <<kept, gone, freeId, sunk, clock, rivals>>

\* [mutant] a call that is not to be recorded is submitted like any other.
SubmittedAlways(x) ==
  IF Capture /\ Len(sunk) < SinkCap
  THEN Append(sunk, [of |-> h[x].of, started |-> h[x].started, by |-> x]) ELSE sunk

\* captureState.submit: to the sink, if there is room.
Submitted(x) ==
  IF Capture /\ ~ h[x].noCapture /\ Len(sunk) < SinkCap
  THEN Append(sunk, [of |-> h[x].of, started |-> h[x].started, by |-> x]) ELSE sunk

\* The upstream answered or failed; a --no-capture replay is answered now.
Answer(x) ==
  /\ h[x].at = "upstream" /\ sunk' = Submitted(x)
  /\ IF h[x].noCapture THEN Reply(x, 200, 0) ELSE h' = [h EXCEPT ![x].at = "await"]
  /\ UNCHANGED <<kept, gone, freeId, clock, rivals>>

\* [mutant] any replay of the request will do, also one from before the send.
AwaitAnyReplayRow(x) ==
  /\ h[x].at = "await"
  /\ \/ NewestReplay(h[x].of) > 0 /\ Reply(x, 200, NewestReplay(h[x].of))
     \/ NewestReplay(h[x].of) = 0 /\ Reply(x, 500, 0)
  /\ UNCHANGED <<kept, gone, freeId, sunk, clock, rivals>>

\* [mutant] the poll has no deadline.
AwaitForever(x) ==
  /\ h[x].at = "await" /\ NewestReplay(h[x].of) > h[x].before
  /\ Reply(x, 200, NewestReplay(h[x].of))
  /\ UNCHANGED <<kept, gone, freeId, sunk, clock, rivals>>

\* A poll that finds a row newer than the snapshot ends the wait; the
\* deadline, the caller's leaving, or the store ends it without one.
AwaitReplayRow(x) ==
  /\ h[x].at = "await"
  /\ \/ NewestReplay(h[x].of) > h[x].before /\ Reply(x, 200, NewestReplay(h[x].of))
     \/ Reply(x, 500, 0)
  /\ UNCHANGED <<kept, gone, freeId, sunk, clock, rivals>>

----------------------------------------------------------------------------
(* Its neighbours.                                                         *)

\* The consumer stores the oldest call, or drops it: replay_of references the
\* original, so a purge of that makes the insert fail.
InsertReplay ==
  /\ sunk # <<>> /\ sunk' = Tail(sunk)
  /\ \/ /\ Head(sunk).of \notin gone
        /\ kept' = kept \cup {[id |-> freeId, of |-> Head(sunk).of,
                              started |-> Head(sunk).started, by |-> Head(sunk).by]}
        /\ freeId' = freeId + 1
     \/ UNCHANGED <<kept, freeId>>
  /\ UNCHANGED <<gone, clock, h, rivals>>

\* A purge of the original clears the link of its replays, a purge of a replay
\* takes its row.
PurgeOriginal(of) ==
  /\ of \notin gone /\ gone' = gone \cup {of}
  /\ kept' = {IF r.of = of THEN [r EXCEPT !.of = 0] ELSE r : r \in kept}
  /\ UNCHANGED <<freeId, sunk, clock, h, rivals>>

PurgeReplay(r) ==
  /\ kept' = kept \ {r}
  /\ UNCHANGED <<gone, freeId, sunk, clock, h, rivals>>

SetClock ==
  /\ clock' \in 0..MaxClock \ {clock}
  /\ UNCHANGED <<kept, gone, freeId, sunk, h, rivals>>

Route(x) == GetOriginal(x) \/ Snapshot(x) \/ Send(x) \/ Answer(x) \/ AwaitReplayRow(x)

ReplayNext ==
  \/ \E x \in Handlers : AskPrice(x) \/ Ask(x) \/ Route(x)
  \/ InsertReplay
  \/ \E of \in Originals : PurgeOriginal(of)
  \/ \E r \in kept : PurgeReplay(r)
  \/ SetClock

ReplaySpec == ReplayInit /\ [][ReplayNext]_replayVars

----------------------------------------------------------------------------
(* Properties.                                                             *)

\* A reply that names a row names one that was stored for a replay of the same
\* request; and it is the row of the very call the route sent, however the
\* clock is set, unless another replay of the request was on its way at the same
\* time, or the row that was newest before the send is purged: of two replays
\* stored in another order than they started, the one it was hiding comes up
\* then, and is taken for new.  The route knows the row only by being newest.
ReplyNamesItsReplay ==
  \A x \in Handlers : h[x].at = "replied" /\ h[x].row # 0 =>
    /\ h[x].row > h[x].before
    /\ h[x].row < freeId
    /\ \A r \in kept : r.id = h[x].row =>
         /\ r.of \in {h[x].of, 0}
         /\ \/ r.by = x
            \/ {x, r.by} \in rivals
            \/ h[x].before # 0 /\ \A s \in kept : s.id # h[x].before

\* A route call that has not sent yet, was not to be recorded or was turned away.
Unrecorded(x) ==
  \/ h[x].noCapture
  \/ h[x].at \in {"idle", "post", "get", "snapshot", "send", "upstream"}
  \/ h[x].code \in {403, 404}

\* A replay that is not to be recorded, and one that was turned away, leave no
\* row; and no replay leaves two.
OneRowPerReplay ==
  \A x \in Handlers :
    Cardinality({r \in kept : r.by = x}) + Cardinality({i \in DOMAIN sunk : sunk[i].by = x})
      <= IF Unrecorded(x) THEN 0 ELSE 1

\* Every call of the route is answered, whether its row comes or not.
ReplyAlwaysComes ==
  \A x \in Handlers : OnItsWay(x) ~> h[x].at = "replied"
=============================================================================
