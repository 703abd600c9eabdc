--------------------------- MODULE LiveViewProofs ---------------------------
(***************************************************************************)
(* The event feed for any clients, buffers and rows: no gap, no            *)
(* repetition, no reordering, and no channel closed twice.                 *)
(***************************************************************************)
EXTENDS LiveView, SequenceTheorems, TLAPS

Events == {RequestEvent(id) : id \in Nat} \cup {WarningsEvent(id) : id \in Nat}

----------------------------------------------------------------------------
(* Pieces of the feed.                                                     *)

\* What a subscriber got of the feed p, whose first k events came before it.
IsPiece(s, p, k) == k + Len(s) <= Len(p) /\ \A i \in 1..Len(s) : s[i] = p[k + i]

LEMMA PieceIsSubSeq ==
  ASSUME NEW S, NEW p \in Seq(S), NEW s \in Seq(S), NEW k \in Nat, IsPiece(s, p, k)
  PROVE  s = SubSeq(p, k + 1, k + Len(s))
<1> DEFINE m == k + 1
           n == k + Len(s)
           t == SubSeq(p, m, n)
<1>1. Len(s) \in Nat /\ Len(p) \in Nat /\ m \in Int /\ n \in Int /\ n <= Len(p)
  BY LenProperties DEF IsPiece
<1>2. \A i \in m..n : p[i] \in S
  BY <1>1, ElementOfSeq
<1>3. /\ t \in Seq(S) /\ Len(t) = IF m <= n THEN n - m + 1 ELSE 0
      /\ \A i \in 1 .. n - m + 1 : t[i] = p[m + i - 1]
  <2> HIDE DEF m, n
  <2> QED
    BY <1>1, <1>2, SubSeqProperties
<1>4. Len(t) = Len(s) /\ \A i \in 1..Len(s) : t[i] = p[k + i]
  <2> HIDE DEF t
  <2> QED
    BY <1>1, <1>3
<1>5. \A i \in 1..Len(s) : s[i] = t[i]
  BY <1>4 DEF IsPiece
<1> QED
  BY <1>3, <1>4, <1>5, SeqEqual

\* The feed goes on without the subscriber ...
LEMMA PieceStays ==
  ASSUME NEW S, NEW p \in Seq(S), NEW e \in S, NEW s \in Seq(S), NEW k \in Nat,
         IsPiece(s, p, k)
  PROVE  IsPiece(s, Append(p, e), k)
<1>1. /\ Len(Append(p, e)) = Len(p) + 1
      /\ \A i \in 1..Len(p) : Append(p, e)[i] = p[i]
  BY AppendProperties
<1>2. Len(s) \in Nat /\ Len(p) \in Nat
  BY LenProperties
<1> QED
  BY <1>1, <1>2 DEF IsPiece

\* ... or with it, when it has all of it so far.
LEMMA PieceGrows ==
  ASSUME NEW S, NEW p \in Seq(S), NEW e \in S, NEW s \in Seq(S), NEW k \in Nat,
         IsPiece(s, p, k), k + Len(s) = Len(p)
  PROVE  /\ IsPiece(Append(s, e), Append(p, e), k)
         /\ k + Len(Append(s, e)) = Len(Append(p, e))
<1>1. /\ Len(Append(p, e)) = Len(p) + 1 /\ Append(p, e)[Len(p) + 1] = e
      /\ \A i \in 1..Len(p) : Append(p, e)[i] = p[i]
  BY AppendProperties
<1>2. /\ Len(Append(s, e)) = Len(s) + 1 /\ Append(s, e)[Len(s) + 1] = e
      /\ \A i \in 1..Len(s) : Append(s, e)[i] = s[i]
  BY AppendProperties
<1>3. Len(s) \in Nat /\ Len(p) \in Nat
  BY LenProperties
<1>4. ASSUME NEW i \in 1..(Len(s) + 1) PROVE Append(s, e)[i] = Append(p, e)[k + i]
  <2>1. CASE i = Len(s) + 1
    BY <1>1, <1>2, <1>3, <2>1
  <2>2. CASE i \in 1..Len(s)
    <3>1. k + i \in 1..Len(p) /\ s[i] = p[k + i]
      BY <1>3, <2>2 DEF IsPiece
    <3> QED
      BY <1>1, <1>2, <2>2, <3>1
  <2> QED
    BY <1>3, <2>1, <2>2
<1>5. /\ k + Len(Append(s, e)) <= Len(Append(p, e))
      /\ k + Len(Append(s, e)) = Len(Append(p, e))
  BY <1>1, <1>2, <1>3
<1>6. \A i \in 1..Len(Append(s, e)) : Append(s, e)[i] = Append(p, e)[k + i]
  BY <1>2, <1>4
<1> QED
  BY <1>5, <1>6 DEF IsPiece

LEMMA SendKeepsOrder ==
  ASSUME NEW S, NEW g \in Seq(S), NEW ch \in Seq(S), NEW e \in S
  PROVE  g \o Append(ch, e) = Append(g \o ch, e)
<1>1. Append(ch, e) = ch \o <<e>> /\ <<e>> \in Seq(S)
  BY AppendIsConcat
<1>2. g \o ch \in Seq(S)
  BY ConcatProperties
<1>3. Append(g \o ch, e) = (g \o ch) \o <<e>>
  BY <1>2, AppendIsConcat
<1> QED
  BY <1>1, <1>3, ConcatAssociative

LEMMA ForwardKeepsOrder ==
  ASSUME NEW S, NEW g \in Seq(S), NEW ch \in Seq(S), ch # <<>>
  PROVE  /\ Append(g, Head(ch)) \o Tail(ch) = g \o ch
         /\ Head(ch) \in S /\ Tail(ch) \in Seq(S) /\ Append(g, Head(ch)) \in Seq(S)
<1>1. Head(ch) \in S /\ Tail(ch) \in Seq(S) /\ <<Head(ch)>> \in Seq(S)
  BY HeadTailProperties
<1>2. Append(g, Head(ch)) = g \o <<Head(ch)>> /\ Append(g, Head(ch)) \in Seq(S)
  BY <1>1, AppendIsConcat, AppendProperties
<1>3. <<Head(ch)>> \o Tail(ch) = ch
  BY <1>1
<1> QED
  BY <1>1, <1>2, <1>3, ConcatAssociative

----------------------------------------------------------------------------
(* The inductive invariant.                                                *)

Typed ==
  /\ stored \in Nat /\ warned \subseteq Nat
  /\ unsent \in Seq(Events) /\ published \in Seq(Events)
  /\ subs \subseteq Clients
  /\ chan \in [Clients -> Seq(Events)] /\ got \in [Clients -> Seq(Events)]
  /\ closes \in [Clients -> Nat] /\ from \in [Clients -> Nat]
  /\ stream \in [Clients -> {"away", "loop", "return"}]

Complete(c) ==
  LET seen == got[c] \o chan[c] IN
  /\ IsPiece(seen, published, from[c])
  /\ c \in subs => from[c] + Len(seen) = Len(published)

Feeds == \A c \in Clients : stream[c] # "away" => Complete(c)

Inv == Typed /\ ClosedOnce /\ Feeds

LEMMA InitHolds == LiveInit => Inv
  BY DEF LiveInit, Inv, Typed, ClosedOnce, Feeds

\* What the consumer commits are events, whatever it was called with.
LEMMA RequestsAreEvents ==
  ASSUME NEW m \in Nat, NEW n \in Nat
  PROVE  [i \in 1..n |-> RequestEvent(m + i)] \in Seq(Events)
<1>1. \A i \in 1..n : RequestEvent(m + i) \in Events
  BY DEF Events
<1> QED
  BY <1>1, IsASeq

\* A commit changes nothing that a client or the broker holds.
LEMMA CommitKeeps ==
  ASSUME Inv, NEW events \in Seq(Events), Committed(events),
         stored' \in Nat, warned' \subseteq Nat
  PROVE  Inv'
<1> USE DEF Inv, Committed, clientVars
<1>1. Typed'
  BY DEF Typed
<1>2. ClosedOnce'
  BY DEF ClosedOnce
<1>3. Feeds'
  BY DEF Feeds, Complete
<1> QED
  BY <1>1, <1>2, <1>3

LEMMA WriterKeeps ==
  ASSUME Inv,
         \/ \E n \in 1..MaxRows : CommitRequests(n)
         \/ CommitRequest
         \/ \E id \in 1..stored : CommitWarnings(id)
  PROVE  Inv'
<1> USE DEF Inv
<1>0. stored \in Nat /\ warned \subseteq Nat /\ <<>> \in Seq(Events)
  BY EmptySeq DEF Typed
<1>1. ASSUME NEW n \in 1..MaxRows, CommitRequests(n) PROVE Inv'
  <2>1. n \in Nat
    BY LiveAssumption
  <2>2. [i \in 1..n |-> RequestEvent(stored + i)] \in Seq(Events)
    BY <1>0, <2>1, RequestsAreEvents
  <2>3. stored' \in Nat /\ warned' \subseteq Nat
    BY <1>0, <1>1, <2>1 DEF CommitRequests
  <2>4. Committed([i \in 1..n |-> RequestEvent(stored + i)]) \/ Committed(<<>>)
    BY <1>1 DEF CommitRequests
  <2> QED
    BY <1>0, <2>2, <2>3, <2>4, CommitKeeps
<1>2. CASE CommitRequest
  <2>1. <<RequestEvent(stored + 1)>> \in Seq(Events)
    BY <1>0 DEF Events
  <2>2. stored' \in Nat /\ warned' \subseteq Nat
    BY <1>0, <1>2 DEF CommitRequest
  <2>3. Committed(<<RequestEvent(stored + 1)>>) \/ Committed(<<>>)
    BY <1>2 DEF CommitRequest
  <2> QED
    BY <1>0, <2>1, <2>2, <2>3, CommitKeeps
<1>3. ASSUME NEW id \in 1..stored, CommitWarnings(id) PROVE Inv'
  <2>1. id \in Nat /\ <<WarningsEvent(id)>> \in Seq(Events)
    BY <1>0 DEF Events
  <2>2. stored' \in Nat /\ warned' \subseteq Nat
    BY <1>0, <1>3, <2>1 DEF CommitWarnings
  <2>3. Committed(<<WarningsEvent(id)>>)
    BY <1>3 DEF CommitWarnings
  <2> QED
    BY <2>1, <2>2, <2>3, CommitKeeps
<1> QED
  BY <1>1, <1>2, <1>3

\* The event goes to every subscriber it leaves subscribed.
LEMMA PublishKeeps ==
  ASSUME Inv, Publish
  PROVE  Inv'
<1> USE DEF Inv, Publish
<1> DEFINE e == Head(unsent)
<1>1. e \in Events /\ Tail(unsent) \in Seq(Events) /\ published \in Seq(Events)
  BY HeadTailProperties DEF Typed
<1>2. published' = Append(published, e) /\ published' \in Seq(Events)
  BY <1>1, AppendProperties
<1>3. \A c \in Clients : chan'[c] = IF c \in subs' THEN Append(chan[c], e) ELSE chan[c]
  BY DEF Typed
<1>4. subs' \subseteq subs
  OBVIOUS
<1>5. Typed'
  <2>1. \A c \in Clients : Append(chan[c], e) \in Seq(Events)
    BY <1>1, AppendProperties DEF Typed
  <2>2. chan' \in [Clients -> Seq(Events)]
    BY <2>1 DEF Typed
  <2>3. closes' \in [Clients -> Nat]
    BY DEF Typed
  <2> QED
    BY <1>1, <1>2, <1>4, <2>2, <2>3 DEF Typed
<1>6. ClosedOnce'
  BY DEF ClosedOnce, Typed
<1>7. Feeds'
  <2> SUFFICES ASSUME NEW c \in Clients, stream[c] # "away" PROVE Complete(c)'
    BY DEF Feeds
  <2> DEFINE seen == got[c] \o chan[c]
  <2>1. got[c] \in Seq(Events) /\ chan[c] \in Seq(Events) /\ from[c] \in Nat
        /\ seen \in Seq(Events)
    BY ConcatProperties DEF Typed
  <2>2. IsPiece(seen, published, from[c]) /\ (c \in subs => from[c] + Len(seen) = Len(published))
    BY DEF Feeds, Complete
  <2>3. CASE c \in subs'
    <3>1. chan'[c] = Append(chan[c], e)
      BY <1>3, <2>3
    <3>2. got[c] \o Append(chan[c], e) = Append(seen, e)
      <4>1. \A g, h \in Seq(Events), x \in Events : g \o Append(h, x) = Append(g \o h, x)
        BY SendKeepsOrder
      <4> QED
        BY <1>1, <2>1, <4>1
    <3>3. /\ IsPiece(Append(seen, e), published', from[c])
          /\ from[c] + Len(Append(seen, e)) = Len(published')
      <4>1. from[c] + Len(seen) = Len(published)
        BY <1>4, <2>2, <2>3
      <4>2. /\ IsPiece(Append(seen, e), Append(published, e), from[c])
            /\ from[c] + Len(Append(seen, e)) = Len(Append(published, e))
        <5> HIDE DEF Inv, Publish, seen, e
        <5> QED
          BY <1>1, <2>1, <2>2, <4>1, PieceGrows
      <4> QED
        BY Zenon, <1>2, <4>2
    <3> QED
      BY <3>1, <3>2, <3>3 DEF Complete
  <2>4. CASE c \notin subs'
    <3>1. got[c] \o chan'[c] = seen
      BY <1>3, <2>4
    <3>2. IsPiece(seen, published', from[c])
      BY <1>1, <1>2, <2>1, <2>2, PieceStays
    <3> QED
      BY <2>4, <3>1, <3>2 DEF Complete
  <2> QED
    BY <2>3, <2>4
<1> QED
  BY <1>5, <1>6, <1>7

\* A new subscription begins with nothing, at the end of the feed.
LEMMA SubscribeKeeps ==
  ASSUME Inv, NEW c \in Clients, Subscribe(c)
  PROVE  Inv'
<1> USE DEF Inv, Subscribe, writerVars
<1>1. Typed'
  BY EmptySeq, LenProperties DEF Typed
<1>2. ClosedOnce'
  BY DEF ClosedOnce, Typed
<1>3. Feeds'
  <2> SUFFICES ASSUME NEW d \in Clients, stream'[d] # "away" PROVE Complete(d)'
    BY DEF Feeds
  <2>1. CASE d = c
    <3>1. /\ chan'[d] = <<>> /\ got'[d] = <<>> /\ from'[d] = Len(published)
          /\ published' = published /\ Len(published) \in Nat
      BY <2>1, LenProperties DEF Typed
    <3>2. got'[d] \o chan'[d] = <<>>
      BY <3>1
    <3>3. IsPiece(<<>>, published, Len(published))
      BY <3>1 DEF IsPiece
    <3>4. Len(published) + Len(<<>>) = Len(published)
      BY <3>1
    <3> QED
      BY <3>1, <3>2, <3>3, <3>4 DEF Complete
  <2>2. CASE d # c
    <3>1. /\ chan'[d] = chan[d] /\ got'[d] = got[d] /\ from'[d] = from[d]
          /\ stream[d] # "away" /\ (d \in subs' <=> d \in subs)
      BY <2>2 DEF Typed
    <3> QED
      BY <3>1 DEF Complete, Feeds
  <2> QED
    BY <2>1, <2>2
<1> QED
  BY <1>1, <1>2, <1>3

\* The handler's return takes the place the broker may already have taken.
LEMMA UnsubscribeKeeps ==
  ASSUME Inv, NEW c \in Clients, Unsubscribe(c)
  PROVE  Inv'
<1> USE DEF Inv, Unsubscribe, writerVars
<1>1. Typed'
  BY DEF Typed
<1>2. ClosedOnce'
  BY DEF ClosedOnce, Typed
<1>3. Feeds'
  BY DEF Feeds, Complete, Typed
<1> QED
  BY <1>1, <1>2, <1>3

\* Forwarding moves the first waiting event behind those that were sent.
LEMMA ForwardKeeps ==
  ASSUME Inv, NEW c \in Clients, Forward(c)
  PROVE  Inv'
<1> USE DEF Inv, Forward, writerVars
<1>1. /\ got[c] \in Seq(Events) /\ chan[c] \in Seq(Events) /\ chan[c] # <<>>
      /\ got'[c] = Append(got[c], Head(chan[c])) /\ chan'[c] = Tail(chan[c])
      /\ \A d \in Clients \ {c} : got'[d] = got[d] /\ chan'[d] = chan[d]
  BY DEF Typed
<1>2. got'[c] \o chan'[c] = got[c] \o chan[c] /\ got'[c] \in Seq(Events) /\ chan'[c] \in Seq(Events)
  <2>1. /\ Append(got[c], Head(chan[c])) \o Tail(chan[c]) = got[c] \o chan[c]
        /\ Tail(chan[c]) \in Seq(Events) /\ Append(got[c], Head(chan[c])) \in Seq(Events)
    <3>1. \A g, h \in Seq(Events) : h # <<>> =>
            /\ Append(g, Head(h)) \o Tail(h) = g \o h
            /\ Tail(h) \in Seq(Events) /\ Append(g, Head(h)) \in Seq(Events)
      BY ForwardKeepsOrder
    <3> QED
      BY <1>1, <3>1
  <2> QED
    BY <1>1, <2>1
<1>3. Typed'
  BY <1>1, <1>2 DEF Typed
<1>4. ClosedOnce'
  BY DEF ClosedOnce
<1>5. \A d \in Clients : got'[d] \o chan'[d] = got[d] \o chan[d]
  BY <1>1, <1>2
<1>6. Feeds'
  BY <1>5 DEF Feeds, Complete
<1> QED
  BY <1>3, <1>4, <1>6

LEMMA LeaveLoopKeeps ==
  ASSUME Inv, NEW c \in Clients, LeaveLoop(c)
  PROVE  Inv'
<1> USE DEF Inv, LeaveLoop, writerVars
<1>1. Typed' /\ ClosedOnce'
  BY DEF Typed, ClosedOnce
<1>2. Feeds'
  BY DEF Feeds, Complete, Typed
<1> QED
  BY <1>1, <1>2

LEMMA NextKeeps == Inv /\ [LiveNext]_liveVars => Inv'
<1> SUFFICES ASSUME Inv, [LiveNext]_liveVars PROVE Inv'
  OBVIOUS
<1>1. CASE UNCHANGED liveVars
  BY <1>1 DEF liveVars, writerVars, clientVars, Inv, Typed, ClosedOnce, Feeds, Complete
<1>2. CASE Publish
  BY <1>2, PublishKeeps
<1>3. ASSUME NEW c \in Clients, Subscribe(c) \/ Unsubscribe(c) \/ Forward(c) \/ LeaveLoop(c)
      PROVE  Inv'
  BY <1>3, SubscribeKeeps, UnsubscribeKeeps, ForwardKeeps, LeaveLoopKeeps
<1> QED
  BY <1>1, <1>2, <1>3, WriterKeeps DEF LiveNext

LEMMA Invariant == LiveSpec => []Inv
  BY InitHolds, NextKeeps, PTL DEF LiveSpec

----------------------------------------------------------------------------
(* The theorems.                                                           *)

\* However slow the clients, however small their buffers, and whenever they
\* come, leave and return: what a client was given is an unbroken piece of the
\* feed, and all of it while the broker knows it.
THEOREM FeedIsUnbroken == LiveSpec => []FeedHasNoGap
<1>1. Inv => FeedHasNoGap
  <2> SUFFICES ASSUME Inv, NEW c \in Clients, stream[c] # "away"
               PROVE  LET seen == got[c] \o chan[c]
                      IN  /\ from[c] + Len(seen) <= Len(published)
                          /\ seen = SubSeq(published, from[c] + 1, from[c] + Len(seen))
                          /\ c \in subs => from[c] + Len(seen) = Len(published)
    BY DEF FeedHasNoGap
  <2> DEFINE seen == got[c] \o chan[c]
  <2>1. seen \in Seq(Events) /\ published \in Seq(Events) /\ from[c] \in Nat
    BY ConcatProperties DEF Inv, Typed
  <2>2. IsPiece(seen, published, from[c]) /\ (c \in subs => from[c] + Len(seen) = Len(published))
    BY DEF Inv, Feeds, Complete
  <2>3. seen = SubSeq(published, from[c] + 1, from[c] + Len(seen))
    BY <2>1, <2>2, PieceIsSubSeq
  <2> QED
    BY <2>2, <2>3 DEF IsPiece
<1> QED
  BY <1>1, Invariant, PTL

\* No interleaving of a dropping broker and a returning handler closes a
\* channel twice, or publishes to a closed one.
THEOREM ChannelsCloseOnce == LiveSpec => []ClosedOnce
<1>1. Inv => ClosedOnce
  BY DEF Inv
<1> QED
  BY <1>1, Invariant, PTL

----------------------------------------------------------------------------
(* What the feed tells.                                                    *)

\* The list t tells that n requests and the warnings of w are committed.
Tells(t, n, w) ==
  /\ {t[i] : i \in DOMAIN t} = {RequestEvent(id) : id \in 1..n} \cup {WarningsEvent(id) : id \in w}
  /\ \A i, j \in DOMAIN t : t[i] = t[j] => i = j
  /\ \A i, j \in DOMAIN t : t[i].type = "request" /\ t[i].id <= t[j].id => i <= j

\* Warnings are of stored requests, or those of a request not yet told of could
\* be announced before it.
Told == warned \subseteq 1..stored /\ Tells(published \o unsent, stored, warned)

\* Each element of what was told is of a committed write.
LEMMA ToldOf ==
  ASSUME NEW n \in Nat, NEW w \in SUBSET (1..n), NEW t \in Seq(Events), Tells(t, n, w),
         NEW i \in DOMAIN t
  PROVE  \/ \E id \in 1..n : t[i] = RequestEvent(id)
         \/ \E id \in w : t[i] = WarningsEvent(id)
<1>1. t[i] \in {RequestEvent(id) : id \in 1..n} \cup {WarningsEvent(id) : id \in w}
  BY DEF Tells
<1> QED
  BY <1>1

\* A group of requests, told in a row.
LEMMA TellRequests ==
  ASSUME NEW n \in Nat, NEW m \in Nat, NEW w \in SUBSET (1..n), NEW t \in Seq(Events),
         Tells(t, n, w)
  PROVE  Tells(t \o [i \in 1..m |-> RequestEvent(n + i)], n + m, w)
<1> DEFINE u == [i \in 1..m |-> RequestEvent(n + i)]
           v == t \o u
           k == Len(t)
<1>1. u \in Seq(Events) /\ Len(u) = m
  <2>1. u \in Seq(Events) /\ DOMAIN u = 1..m
    BY RequestsAreEvents
  <2>2. Len(u) \in Nat /\ DOMAIN u = 1..Len(u)
    <3> HIDE DEF u
    <3> QED
      BY <2>1, LenProperties
  <2> QED
    BY <2>1, <2>2
<1>2. k \in Nat /\ DOMAIN t = 1..k
  BY LenProperties
<1>3. /\ DOMAIN v = 1..(k + m)
      /\ \A i \in 1..k : v[i] = t[i]
      /\ \A i \in (k + 1)..(k + m) : v[i] = RequestEvent(n + (i - k))
  <2> HIDE DEF u
  <2>1. v \in Seq(Events) /\ Len(v) = k + m
        /\ \A i \in 1..(k + m) : v[i] = IF i <= k THEN t[i] ELSE u[i - k]
    <3>1. t \in Seq(Events) /\ u \in Seq(Events) /\ Len(u) = m
      BY <1>1
    <3>2. /\ t \o u \in Seq(Events) /\ Len(t \o u) = Len(t) + Len(u)
          /\ \A i \in 1..(Len(t) + Len(u)) :
               (t \o u)[i] = IF i <= Len(t) THEN t[i] ELSE u[i - Len(t)]
      BY <3>1, ConcatProperties, Zenon
    <3> QED
      BY <3>1, <3>2, Zenon
  <2>2. DOMAIN v = 1..(k + m)
    <3> HIDE DEF v, k
    <3> QED
      BY <2>1, LenProperties
  <2>3. \A i \in 1..k : v[i] = t[i]
    <3>1. \A i \in 1..k : i \in 1..(k + m) /\ i <= k
      BY <1>2
    <3> HIDE DEF v, k
    <3> QED
      BY <2>1, <3>1
  <2>4. \A i \in (k + 1)..(k + m) : i - k \in 1..m /\ v[i] = u[i - k]
    <3> HIDE DEF v, k
    <3> QED
      BY <1>2, <2>1
  <2>5. \A i \in 1..m : u[i] = RequestEvent(n + i)
    BY DEF u
  <2> HIDE DEF v, k
  <2> QED
    BY <2>2, <2>3, <2>4, <2>5
<1> HIDE DEF u, v, k
<1>4. \A i \in 1..k : \/ \E id \in 1..n : t[i] = RequestEvent(id)
                      \/ \E id \in w : t[i] = WarningsEvent(id)
  BY <1>2, ToldOf
<1>5. \A i \in (k + 1)..(k + m) : n + (i - k) \in (n + 1)..(n + m)
  BY <1>2
<1>6. {v[i] : i \in DOMAIN v}
        = {RequestEvent(id) : id \in 1..(n + m)} \cup {WarningsEvent(id) : id \in w}
  <2>1. ASSUME NEW i \in DOMAIN v
        PROVE  v[i] \in {RequestEvent(id) : id \in 1..(n + m)} \cup {WarningsEvent(id) : id \in w}
    <3>1. CASE i \in 1..k
      <4>1. \A id \in 1..n : id \in 1..(n + m)
        OBVIOUS
      <4> QED
        BY <1>3, <1>4, <3>1, <4>1
    <3>2. CASE i \in (k + 1)..(k + m)
      <4>1. \A id \in (n + 1)..(n + m) : id \in 1..(n + m)
        OBVIOUS
      <4> QED
        BY <1>3, <1>5, <3>2, <4>1
    <3> QED
      BY <1>2, <1>3, <3>1, <3>2
  <2>2. ASSUME NEW id \in 1..(n + m) PROVE \E i \in DOMAIN v : v[i] = RequestEvent(id)
    <3>1. CASE id \in 1..n
      <4>1. RequestEvent(id) \in {t[i] : i \in DOMAIN t}
        BY <3>1 DEF Tells
      <4>2. PICK i \in 1..k : t[i] = RequestEvent(id)
        BY <1>2, <4>1
      <4> QED
        BY <1>2, <1>3, <4>2
    <3>2. CASE id > n
      <4>1. k + (id - n) \in (k + 1)..(k + m) /\ n + ((k + (id - n)) - k) = id
        BY <1>2, <3>2
      <4>2. k + (id - n) \in DOMAIN v
        BY <1>2, <1>3, <4>1
      <4> QED
        BY <1>3, <4>1, <4>2
    <3> QED
      BY <3>1, <3>2
  <2>3. ASSUME NEW id \in w PROVE \E i \in DOMAIN v : v[i] = WarningsEvent(id)
    <3>1. WarningsEvent(id) \in {t[i] : i \in DOMAIN t}
      BY DEF Tells
    <3>2. PICK i \in 1..k : t[i] = WarningsEvent(id)
      BY <1>2, <3>1
    <3> QED
      BY <1>2, <1>3, <3>2
  <2> QED
    BY <2>1, <2>2, <2>3
<1>7. \A i, j \in 1..k : (t[i] = t[j] => i = j)
                         /\ (t[i].type = "request" /\ t[i].id <= t[j].id => i <= j)
  BY <1>2 DEF Tells
<1>8. \A i \in 1..k : t[i].id \in Nat /\ t[i].id <= n
  <2>1. (\A id : RequestEvent(id).id = id) /\ \A id : WarningsEvent(id).id = id
    BY DEF RequestEvent, WarningsEvent
  <2>2. \A id \in 1..n : id \in Nat /\ id <= n
    OBVIOUS
  <2>3. \A id \in w : id \in 1..n
    OBVIOUS
  <2> QED
    BY <1>4, <2>1, <2>2, <2>3
<1>9. \A i \in (k + 1)..(k + m) : v[i].id = n + (i - k)
  <2>1. \A id : RequestEvent(id).id = id
    BY DEF RequestEvent
  <2> QED
    BY <1>3, <2>1
<1>10. ASSUME NEW i \in DOMAIN v, NEW j \in DOMAIN v
       PROVE  /\ v[i] = v[j] => i = j
              /\ v[i].type = "request" /\ v[i].id <= v[j].id => i <= j
  <2>1. CASE i \in 1..k /\ j \in 1..k
    BY <1>3, <1>7, <2>1
  <2>2. CASE i \in 1..k /\ j \in (k + 1)..(k + m)
    <3>1. v[i].id <= n /\ v[i].id \in Nat /\ v[j].id = n + (j - k) /\ i <= j
      BY <1>2, <1>3, <1>8, <1>9, <2>2
    <3>2. v[i].id # v[j].id
      BY <1>2, <2>2, <3>1
    <3> QED
      BY <3>1, <3>2
  <2>3. CASE i \in (k + 1)..(k + m) /\ j \in 1..k
    <3>1. v[j].id <= n /\ v[j].id \in Nat /\ v[i].id = n + (i - k)
      BY <1>3, <1>8, <1>9, <2>3
    <3>2. v[i].id # v[j].id /\ ~ (v[i].id <= v[j].id)
      BY <1>2, <2>3, <3>1
    <3> QED
      BY <3>2
  <2>4. CASE i \in (k + 1)..(k + m) /\ j \in (k + 1)..(k + m)
    <3>1. v[i].id = n + (i - k) /\ v[j].id = n + (j - k)
      BY <1>9, <2>4
    <3> QED
      BY <1>2, <2>4, <3>1
  <2> QED
    BY <1>2, <1>3, <2>1, <2>2, <2>3, <2>4
<1> QED
  BY <1>6, <1>10 DEF Tells, u, v

\* The warnings of one request.
LEMMA TellWarnings ==
  ASSUME NEW n \in Nat, NEW w \in SUBSET (1..n), NEW t \in Seq(Events), Tells(t, n, w),
         NEW id \in (1..n) \ w
  PROVE  Tells(t \o <<WarningsEvent(id)>>, n, w \cup {id})
<1> DEFINE e == WarningsEvent(id)
           v == Append(t, e)
           k == Len(t)
<1>1. e \in Events /\ e.id = id /\ e.type # "request" /\ \A i \in Nat : e # RequestEvent(i)
  BY DEF Events, WarningsEvent, RequestEvent
<1>2. \A i \in w : e # WarningsEvent(i)
  BY DEF WarningsEvent
<1> HIDE DEF e
<1>3. v = t \o <<e>>
  BY <1>1, AppendIsConcat
<1>4. k \in Nat /\ DOMAIN t = 1..k
  BY LenProperties
<1>5. /\ DOMAIN v = 1..(k + 1) /\ v[k + 1] = e
      /\ \A i \in 1..k : v[i] = t[i]
  <2>1. v \in Seq(Events) /\ Len(v) = k + 1
        /\ (\A i \in 1..Len(t) : v[i] = t[i]) /\ v[Len(t) + 1] = e
    BY <1>1, AppendProperties
  <2> HIDE DEF v
  <2> QED
    BY <2>1, LenProperties
<1> HIDE DEF v, k
<1>6. \A i \in 1..k : t[i] # e
  <2>1. \A i \in 1..k : \/ \E x \in 1..n : t[i] = RequestEvent(x)
                        \/ \E x \in w : t[i] = WarningsEvent(x)
    BY <1>4, ToldOf
  <2>2. \A x \in 1..n : x \in Nat
    OBVIOUS
  <2> QED
    BY <1>1, <1>2, <2>1, <2>2
<1>7. {v[i] : i \in DOMAIN v}
        = {RequestEvent(x) : x \in 1..n} \cup {WarningsEvent(x) : x \in w \cup {id}}
  <2>1. {v[i] : i \in DOMAIN v} = {t[i] : i \in DOMAIN t} \cup {e}
    <3>1. ASSUME NEW i \in DOMAIN v PROVE v[i] \in {t[j] : j \in DOMAIN t} \cup {e}
      <4>1. i \in 1..k \/ i = k + 1
        BY <1>4, <1>5
      <4> QED
        BY <1>4, <1>5, <4>1
    <3>2. \A i \in 1..k : i \in DOMAIN v /\ v[i] = t[i]
      BY <1>4, <1>5
    <3>3. k + 1 \in DOMAIN v /\ v[k + 1] = e
      BY <1>4, <1>5
    <3> QED
      BY <1>4, <3>1, <3>2, <3>3
  <2>2. {WarningsEvent(x) : x \in w \cup {id}} = {WarningsEvent(x) : x \in w} \cup {e}
    BY DEF e
  <2> QED
    BY <2>1, <2>2 DEF Tells
<1>8. \A i, j \in 1..k : (t[i] = t[j] => i = j)
                         /\ (t[i].type = "request" /\ t[i].id <= t[j].id => i <= j)
  BY <1>4 DEF Tells
<1>9. ASSUME NEW i \in DOMAIN v, NEW j \in DOMAIN v
      PROVE  /\ v[i] = v[j] => i = j
             /\ v[i].type = "request" /\ v[i].id <= v[j].id => i <= j
  <2>1. CASE i \in 1..k /\ j \in 1..k
    BY <1>5, <1>8, <2>1
  <2>2. CASE i \in 1..k /\ j = k + 1
    <3>1. i <= j /\ v[i] # v[j]
      BY <1>4, <1>5, <1>6, <2>2
    <3> QED
      BY <3>1
  <2>3. CASE i = k + 1 /\ j \in 1..k
    <3>1. v[i] = e /\ v[i] # v[j]
      BY <1>5, <1>6, <2>3
    <3> QED
      BY <1>1, <3>1
  <2>4. CASE i = k + 1 /\ j = k + 1
    BY <1>4, <2>4
  <2> QED
    BY <1>4, <1>5, <2>1, <2>2, <2>3, <2>4
<1>10. Tells(v, n, w \cup {id})
  BY <1>7, <1>9 DEF Tells
<1> QED
  BY <1>3, <1>10 DEF e

\* While nothing waits to be published, a commit tells of its own write.
LEMMA CommitTells ==
  ASSUME Inv, Told, unsent = <<>>, NEW events \in Seq(Events), Committed(events)
  PROVE  /\ Tells(published, stored, warned) /\ published \in Seq(Events)
         /\ stored \in Nat /\ warned \subseteq 1..stored
         /\ (published \o unsent)' = published \o events
         /\ published \o <<>> = published
<1>1. published \in Seq(Events)
  BY DEF Inv, Typed
<1>2. published \o <<>> = published
  BY <1>1, ConcatEmptySeq
<1> QED
  BY <1>1, <1>2 DEF Inv, Typed, Told, Committed

LEMMA NextTells == Inv /\ Told /\ [LiveNext]_liveVars => Told'
<1> SUFFICES ASSUME Inv, Told, [LiveNext]_liveVars PROVE Told'
  OBVIOUS
<1>0. stored \in Nat /\ warned \in SUBSET (1..stored) /\ published \in Seq(Events) /\ <<>> \in Seq(Events)
  BY EmptySeq DEF Inv, Typed, Told
<1>1. ASSUME NEW m \in Nat, unsent = <<>>, stored' = stored + m, warned' = warned,
             Committed([i \in 1..m |-> RequestEvent(stored + i)])
      PROVE  Told'
  <2>1. [i \in 1..m |-> RequestEvent(stored + i)] \in Seq(Events)
    BY <1>0, RequestsAreEvents
  <2>2. /\ Tells(published, stored, warned)
        /\ (published \o unsent)' = published \o [i \in 1..m |-> RequestEvent(stored + i)]
    BY <1>1, <2>1, CommitTells
  <2>3. Tells(published \o [i \in 1..m |-> RequestEvent(stored + i)], stored + m, warned)
    BY <1>0, <2>2, TellRequests
  <2>4. Tells((published \o unsent)', stored', warned')
    BY <1>1, <2>2, <2>3
  <2>5. warned' \subseteq 1..stored'
    BY <1>0, <1>1
  <2> QED
    BY <2>4, <2>5 DEF Told, Tells
<1>2. ASSUME unsent = <<>>, stored' = stored, warned' = warned, Committed(<<>>) PROVE Told'
  <2>1. /\ Tells(published, stored, warned)
        /\ (published \o unsent)' = published \o <<>> /\ published \o <<>> = published
    BY <1>0, <1>2, CommitTells
  <2>2. Tells((published \o unsent)', stored', warned')
    BY <1>2, <2>1
  <2>3. warned' \subseteq 1..stored'
    BY <1>0, <1>2
  <2> QED
    BY <2>2, <2>3 DEF Told, Tells
<1>3. ASSUME NEW n \in 1..MaxRows, CommitRequests(n) PROVE Told'
  <2>1. n \in Nat
    BY LiveAssumption
  <2> QED
    BY <1>1, <1>2, <1>3, <2>1 DEF CommitRequests
<1>4. CASE CommitRequest
  <2>1. <<RequestEvent(stored + 1)>> = [i \in 1..1 |-> RequestEvent(stored + i)]
    <3>1. \A i \in 1..1 : i = 1
      OBVIOUS
    <3> QED
      BY <3>1
  <2> QED
    BY <1>1, <1>2, <1>4, <2>1 DEF CommitRequest
<1>5. ASSUME NEW id \in 1..stored, CommitWarnings(id) PROVE Told'
  <2>1. unsent = <<>> /\ id \in (1..stored) \ warned /\ warned' = warned \cup {id} /\ stored' = stored
        /\ Committed(<<WarningsEvent(id)>>)
    BY <1>5 DEF CommitWarnings
  <2>2. <<WarningsEvent(id)>> \in Seq(Events)
    BY <1>0 DEF Events
  <2>3. /\ Tells(published, stored, warned)
        /\ (published \o unsent)' = published \o <<WarningsEvent(id)>>
    BY <2>1, <2>2, CommitTells
  <2>4. Tells(published \o <<WarningsEvent(id)>>, stored, warned \cup {id})
    BY <1>0, <2>1, <2>3, TellWarnings
  <2>5. Tells((published \o unsent)', stored', warned')
    BY <2>1, <2>3, <2>4
  <2>6. warned' \subseteq 1..stored'
    BY <1>0, <2>1
  <2> QED
    BY <2>5, <2>6 DEF Told, Tells
<1>6. CASE Publish
  <2>1. unsent \in Seq(Events) /\ unsent # <<>>
    BY <1>6 DEF Inv, Typed, Publish
  <2>2. Append(published, Head(unsent)) \o Tail(unsent) = published \o unsent
    BY <1>0, <2>1, ForwardKeepsOrder
  <2>3. (published \o unsent)' = published \o unsent /\ stored' = stored /\ warned' = warned
    BY <1>6, <2>2 DEF Publish
  <2> QED
    BY <2>3 DEF Told, Tells
<1>7. ASSUME UNCHANGED <<writerVars, published>> PROVE Told'
  BY <1>7 DEF writerVars, Told, Tells
<1>8. ASSUME NEW c \in Clients, Subscribe(c) \/ Unsubscribe(c) \/ Forward(c) \/ LeaveLoop(c)
      PROVE  Told'
  BY <1>7, <1>8 DEF Subscribe, Unsubscribe, Forward, LeaveLoop
<1>9. CASE UNCHANGED liveVars
  BY <1>7, <1>9 DEF liveVars
<1> QED
  BY <1>3, <1>4, <1>5, <1>6, <1>8, <1>9 DEF LiveNext

\* However the consumer groups, fails and retries its writes, and however far the
\* publishing is behind: the feed announces what was committed, all of it, once,
\* and in an order in which no warnings come before their request.
THEOREM FeedTellsCommits == LiveSpec => []EventsFollowCommits
<1>1. LiveInit => Told
  <2> SUFFICES ASSUME LiveInit PROVE Told
    OBVIOUS
  <2>1. published \o unsent = <<>> /\ stored = 0 /\ warned = {}
    BY ConcatEmptySeq, EmptySeq DEF LiveInit
  <2>2. DOMAIN <<>> = {} /\ 1..0 = {}
    OBVIOUS
  <2> QED
    BY <2>1, <2>2 DEF Told, Tells
<1>2. Told => EventsFollowCommits
  BY DEF Told, Tells, EventsFollowCommits
<1> QED
  BY <1>1, <1>2, NextTells, Invariant, PTL DEF LiveSpec
=============================================================================
