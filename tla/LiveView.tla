------------------------------ MODULE LiveView ------------------------------
(***************************************************************************)
(* The dashboard's event feed (internal/api): the broker, the store that   *)
(* publishes to it, and the SSE handlers that subscribe.                   *)
(*                                                                         *)
(* Concurrency.  The consumer is the only publisher; every SSE request has *)
(* a goroutine.  Subscribe, unsubscribe and one Publish each run under the *)
(* broker's mutex: one action each.  A commit and the publishing of what   *)
(* it committed are separate steps.                                        *)
(*                                                                         *)
(* Data.  An event is its type and request id; the warnings it carries are *)
(* those of the id.  A client that comes back has a new channel.           *)
(***************************************************************************)
EXTENDS Naturals, Sequences

CONSTANTS
  Clients,
  SubscriberBuffer,  \* capacity of a subscriber's channel
  MaxRows            \* bound: requests the consumer stores

ASSUME LiveAssumption == MaxRows \in Nat

VARIABLES
  stored,     \* requests committed so far, by id: 1 .. stored
  warned,     \* ids whose warnings are committed
  unsent,     \* events of committed writes still to be published
  published,  \* history: every event published
  subs,       \* clients registered with the broker
  chan,       \* what each client's channel holds
  closes,     \* how often each client's channel was closed
  stream,     \* what each client's SSE handler is doing
  from,       \* history: events published before the client subscribed
  got         \* events written to each client since then

writerVars == <<stored, warned, unsent>>
clientVars == <<closes, stream, from, got>>
liveVars == <<writerVars, published, subs, chan, clientVars>>

RequestEvent(id) == [type |-> "request", id |-> id]
WarningsEvent(id) == [type |-> "warnings", id |-> id]

LiveInit ==
  /\ stored = 0 /\ warned = {} /\ unsent = <<>> /\ published = <<>>
  /\ subs = {} /\ chan = [c \in Clients |-> <<>>]
  /\ closes = [c \in Clients |-> 0] /\ stream = [c \in Clients |-> "away"]
  /\ from = [c \in Clients |-> 0] /\ got = [c \in Clients |-> <<>>]

----------------------------------------------------------------------------
(* PublishingStore: the consumer calls one of these at a time.             *)

Committed(events) == unsent' = events /\ UNCHANGED <<published, subs, chan, clientVars>>

\* [mutant] the events are queued before the transaction's outcome is known.
CommitRequestsAnnouncesFirst(n) ==
  /\ unsent = <<>> /\ stored + n <= MaxRows
  /\ stored' \in {stored, stored + n} /\ UNCHANGED warned
  /\ Committed([i \in 1..n |-> RequestEvent(stored + i)])

\* A group commits as a whole and is announced row by row, or fails.
CommitRequests(n) ==
  /\ unsent = <<>> /\ stored + n <= MaxRows
  /\ \/ stored' = stored + n /\ Committed([i \in 1..n |-> RequestEvent(stored + i)])
     \/ stored' = stored /\ Committed(<<>>)
  /\ UNCHANGED warned

CommitRequest ==
  /\ unsent = <<>> /\ stored < MaxRows
  /\ \/ stored' = stored + 1 /\ Committed(<<RequestEvent(stored + 1)>>)
     \/ stored' = stored /\ Committed(<<>>)
  /\ UNCHANGED warned

\* A call without warnings writes and publishes nothing.
CommitWarnings(id) ==
  /\ unsent = <<>> /\ id \notin warned
  /\ warned' = warned \cup {id} /\ Committed(<<WarningsEvent(id)>>)
  /\ UNCHANGED stored

----------------------------------------------------------------------------
(* Broker.                                                                 *)

Full(c) == Len(chan[c]) >= SubscriberBuffer

\* [mutant] a slow subscriber loses the event instead of its place.
PublishSkipsSlow ==
  /\ unsent # <<>> /\ unsent' = Tail(unsent)
  /\ published' = Append(published, Head(unsent))
  /\ chan' = [c \in Clients |-> IF c \in subs /\ ~ Full(c) THEN Append(chan[c], Head(unsent)) ELSE chan[c]]
  /\ UNCHANGED <<stored, warned, subs, closes, stream, from, got>>

\* To every subscriber, under the mutex: one whose buffer is full is dropped.
Publish ==
  /\ unsent # <<>> /\ unsent' = Tail(unsent)
  /\ published' = Append(published, Head(unsent))
  /\ subs' = {c \in subs : ~ Full(c)}
  /\ chan' = [c \in Clients |-> IF c \in subs' THEN Append(chan[c], Head(unsent)) ELSE chan[c]]
  /\ closes' = [c \in Clients |-> IF c \in subs \ subs' THEN closes[c] + 1 ELSE closes[c]]
  /\ UNCHANGED <<stored, warned, stream, from, got>>

Subscribe(c) ==
  /\ stream[c] = "away" /\ stream' = [stream EXCEPT ![c] = "loop"]
  /\ subs' = subs \cup {c}
  /\ chan' = [chan EXCEPT ![c] = <<>>] /\ closes' = [closes EXCEPT ![c] = 0]
  /\ from' = [from EXCEPT ![c] = Len(published)] /\ got' = [got EXCEPT ![c] = <<>>]
  /\ UNCHANGED <<writerVars, published>>

\* [mutant] the channel is closed whether or not the broker dropped it before.
UnsubscribeAlways(c) ==
  /\ stream[c] = "return" /\ stream' = [stream EXCEPT ![c] = "away"]
  /\ subs' = subs \ {c} /\ closes' = [closes EXCEPT ![c] = @ + 1]
  /\ UNCHANGED <<writerVars, published, chan, from, got>>

Unsubscribe(c) ==
  /\ stream[c] = "return" /\ stream' = [stream EXCEPT ![c] = "away"]
  /\ subs' = subs \ {c}
  /\ closes' = IF c \in subs THEN [closes EXCEPT ![c] = @ + 1] ELSE closes
  /\ UNCHANGED <<writerVars, published, chan, from, got>>

----------------------------------------------------------------------------
(* The SSE handler.  A closed channel still gives what it holds.           *)

Forward(c) ==
  /\ stream[c] = "loop" /\ chan[c] # <<>>
  /\ chan' = [chan EXCEPT ![c] = Tail(@)]
  /\ got' = [got EXCEPT ![c] = Append(@, Head(chan[c]))]
  /\ UNCHANGED <<writerVars, published, subs, closes, stream, from>>

\* The channel is closed and empty, the write fails, or the client is gone.
LeaveLoop(c) ==
  /\ stream[c] = "loop" /\ stream' = [stream EXCEPT ![c] = "return"]
  /\ UNCHANGED <<writerVars, published, subs, chan, closes, from, got>>

LiveNext ==
  \/ \E n \in 1..MaxRows : CommitRequests(n)
  \/ CommitRequest
  \/ \E id \in 1..stored : CommitWarnings(id)
  \/ Publish
  \/ \E c \in Clients : Subscribe(c) \/ Unsubscribe(c) \/ Forward(c) \/ LeaveLoop(c)

LiveSpec == LiveInit /\ [][LiveNext]_liveVars

----------------------------------------------------------------------------
(* Properties.                                                             *)

\* A client sees the feed without a gap, a repetition or a reordering: what it
\* was sent and what waits for it is what was published since it subscribed --
\* all of it while the broker knows it, a beginning of it once it was dropped.
FeedHasNoGap ==
  \A c \in Clients : stream[c] # "away" =>
    LET seen == got[c] \o chan[c]
    IN  /\ from[c] + Len(seen) <= Len(published)
        /\ seen = SubSeq(published, from[c] + 1, from[c] + Len(seen))
        /\ c \in subs => from[c] + Len(seen) = Len(published)

\* No channel is closed twice and none the broker still sends to is closed:
\* either would panic, in the consumer's own goroutine when it publishes.
ClosedOnce ==
  \A c \in Clients : closes[c] <= (IF c \in subs THEN 0 ELSE 1)

\* The feed tells what the store did, however the consumer grouped and retried
\* its writes: everything committed is announced, nothing else and nothing twice;
\* requests in the order of their ids, and a call's warnings after the call.
EventsFollowCommits ==
  LET told == published \o unsent
  IN  /\ {told[i] : i \in DOMAIN told}
           = {RequestEvent(id) : id \in 1..stored} \cup {WarningsEvent(id) : id \in warned}
      /\ \A i, j \in DOMAIN told : told[i] = told[j] => i = j
      /\ \A i, j \in DOMAIN told :
           told[i].type = "request" /\ told[i].id <= told[j].id => i <= j
=============================================================================
