------------------------------ MODULE Sessions ------------------------------
(***************************************************************************)
(* Sessions: how a flush resolves the session of each call, inserts the    *)
(* rows, writes their warnings and folds each call into its session's      *)
(* running totals (internal/consumer, internal/session, internal/store),   *)
(* while purges delete rows and rebuild the sessions they touched.         *)
(*                                                                         *)
(* Concurrency.  The consumer is one goroutine; a purge is the maintenance *)
(* goroutine, a route's, or another process.  One action is one            *)
(* transaction or query of the consumer, or a whole purge transaction, so  *)
(* a purge falls between any two steps of a flush.                         *)
(*                                                                         *)
(* Data.  A call is one of a few kinds: its session header and body prefix *)
(* (NoHeader and NullPrefix when absent), models, tokens, cost and cost    *)
(* source, whether it failed, how long it took, the warnings its analyzers *)
(* raise, and whether it is a replay of a stored call.  A session is named *)
(* by its header, or by the time and prefix it was minted from; a client's *)
(* header never looks like a minted id, and eight hex digits tell two      *)
(* prefixes apart.                                                         *)
(***************************************************************************)
EXTENDS Queries

CONSTANTS
  Kinds,       \* what a call may be
  Gap,         \* the configured session gap
  NullWindow,  \* nullPrefixWindow
  Backdate,    \* bound: how long a call may have been running
  BatchSize,   \* bound: calls of one flush
  MaxCalls,    \* bound: calls
  MaxTime,     \* bound: the clock
  MaxPurges,   \* bound: purges
  MaxFaults    \* bound: store faults

HeaderKey == "NULL"   \* prefix_hash of a session that a header named
NoSession == <<>>
NoId == 0

ASSUME SessionsAssumption ==
  /\ {Gap, NullWindow, Backdate, BatchSize, MaxCalls, MaxTime, MaxPurges, MaxFaults} \subseteq Nat
  /\ NullWindow <= Gap /\ BatchSize # 0
  /\ \A k \in Kinds : /\ k.raises \in Seq(STRING) /\ k.prefix # HeaderKey
                      /\ k.tokens \in Nat /\ k.cost \in Nat \cup {NoCost} /\ k.duration \in Nat
                      /\ k.source \in {NoSource, "unpriced"} => k.cost = NoCost

VARIABLES
  now,       \* the consumer's clock
  rows,      \* requests: the rows by id
  warnings,  \* warnings
  sessions,  \* sessions: the running totals by id
  nextId,    \* AUTOINCREMENT of requests
  nextWarn,  \* AUTOINCREMENT of warnings
  phase,     \* what the flush is doing
  pend,      \* the prepared calls of this flush
  cursor,    \* the call it is on
  seen,      \* the memo of this flush: session ids by key
  calls,     \* calls prepared so far
  log,       \* history: every call whose work the flush has finished
  skewed,    \* history: sessions a fault or a purge during a flush set off
  purges,    \* purges so far
  faults     \* store faults so far

tables == <<rows, warnings, sessions, nextId, nextWarn>>
flush == <<phase, pend, cursor, seen, calls>>
vars == <<now, tables, flush, log, skewed, purges, faults>>

Init ==
  /\ now = 0
  /\ rows = <<>> /\ warnings = {} /\ sessions = <<>> /\ nextId = 1 /\ nextWarn = 1
  /\ phase = "prepare" /\ pend = <<>> /\ cursor = 1 /\ seen = <<>> /\ calls = 0
  /\ log = <<>> /\ skewed = {} /\ purges = 0 /\ faults = 0

Tick ==
  /\ now < MaxTime
  /\ now' = now + 1
  /\ UNCHANGED <<tables, flush, log, skewed, purges, faults>>

Fault == faults < MaxFaults /\ faults' = faults + 1

----------------------------------------------------------------------------
(* Resolution.                                                             *)

KeyOf(kind) == IF kind.header # NoHeader THEN <<"h", kind.header>> ELSE <<"p", kind.prefix>>

WindowOf(prefix) == IF prefix = NullPrefix THEN NullWindow ELSE Gap

NewID(prefix) == <<"s", now, prefix>>

\* The ids Resolve may return for a call that arrives now.
Resolve(kind) ==
  LET prev == LatestSessions(sessions, kind.prefix)
      live == {s \in prev : now - sessions[s].last <= WindowOf(kind.prefix)}
  IN  IF kind.header # NoHeader THEN {KeyOf(kind)}
      ELSE IF live # {} THEN live
      ELSE {NewID(kind.prefix)}

\* [mutant] no memo: every call asks the table
RememberNothing(key, sid) == seen

Remember(key, sid) ==
  IF sid = NoSession THEN seen
  ELSE [k \in DOMAIN seen \cup {key} |-> IF k = key THEN sid ELSE seen[k]]

\* One call of the batch: its session comes from the memo, or from a lookup
\* that may fail and then groups it with nothing.
PrepareCall ==
  /\ phase = "prepare" /\ Len(pend) < BatchSize /\ calls < MaxCalls
  /\ \E kind \in Kinds, age \in 0..Backdate :
     \E of \in (IF kind.replay THEN DOMAIN rows ELSE {NoId}) :
       LET key == KeyOf(kind) IN
       /\ age <= now
       /\ \E sid \in (IF key \in DOMAIN seen THEN {seen[key]}
                      ELSE Resolve(kind) \cup {NoSession}) :
            /\ IF sid = NoSession THEN kind.header = NoHeader /\ Fault ELSE UNCHANGED faults
            /\ seen' = Remember(key, sid)
            /\ pend' = Append(pend,
                 [kind |-> kind, started |-> now - age, session |-> sid, replayOf |-> of,
                  id |-> NoId, at |-> now, warns |-> <<>>, lost |-> FALSE])
  /\ calls' = calls + 1
  /\ UNCHANGED <<now, tables, phase, cursor, log, skewed, purges>>

----------------------------------------------------------------------------
(* The insert: one transaction for the flush, or else row by row.          *)

\* The row a prepared call becomes.
RowOf(p) == [kind |-> p.kind, started |-> p.started, session |-> p.session,
             replayOf |-> p.replayOf]

\* [mutant] foreign_keys is left off
ReferencesUnchecked(p) == TRUE

\* The foreign key of replay_of.
References(p) == p.replayOf # NoId => p.replayOf \in DOMAIN rows

InsertRequests ==
  /\ phase = "prepare" /\ pend # <<>>
  /\ \A i \in DOMAIN pend : References(pend[i])
  /\ rows' = [id \in DOMAIN rows \cup (nextId .. nextId + Len(pend) - 1) |->
                IF id \in DOMAIN rows THEN rows[id] ELSE RowOf(pend[id - nextId + 1])]
  /\ pend' = [i \in DOMAIN pend |-> [pend[i] EXCEPT !.id = nextId + i - 1]]
  /\ nextId' = nextId + Len(pend)
  /\ phase' = "warn" /\ cursor' = 1
  /\ UNCHANGED <<now, warnings, nextWarn, sessions, seen, calls, log, skewed, purges, faults>>

\* The transaction rolled back: a row broke the foreign key, or the store failed.
FallBack ==
  /\ phase = "prepare" /\ pend # <<>>
  /\ IF \A i \in DOMAIN pend : References(pend[i]) THEN Fault ELSE UNCHANGED faults
  /\ phase' = "insert" /\ cursor' = 1
  /\ UNCHANGED <<now, tables, pend, seen, calls, log, skewed, purges>>

NextRow == IF cursor = Len(pend) THEN phase' = "warn" /\ cursor' = 1
                                 ELSE phase' = phase /\ cursor' = cursor + 1

\* [mutant] the id is not taken from a sequence
InsertOneKeepsId ==
  /\ phase = "insert" /\ References(pend[cursor])
  /\ rows' = [id \in DOMAIN rows \cup {nextId} |->
                IF id = nextId THEN RowOf(pend[cursor]) ELSE rows[id]]
  /\ pend' = [pend EXCEPT ![cursor].id = nextId]
  /\ NextRow
  /\ UNCHANGED <<now, warnings, nextId, nextWarn, sessions, seen, calls, log, skewed, purges, faults>>

InsertOne ==
  /\ phase = "insert" /\ References(pend[cursor])
  /\ rows' = [id \in DOMAIN rows \cup {nextId} |->
                IF id = nextId THEN RowOf(pend[cursor]) ELSE rows[id]]
  /\ pend' = [pend EXCEPT ![cursor].id = nextId]
  /\ nextId' = nextId + 1
  /\ NextRow
  /\ UNCHANGED <<now, warnings, nextWarn, sessions, seen, calls, log, skewed, purges, faults>>

RefuseOne ==
  /\ phase = "insert"
  /\ IF References(pend[cursor]) THEN Fault ELSE UNCHANGED faults
  /\ NextRow
  /\ UNCHANGED <<now, tables, pend, seen, calls, log, skewed, purges>>

----------------------------------------------------------------------------
(* The rest of the pipeline, call by call.                                 *)

\* The flush is done with a call: the next one, or the end of the flush.
NextCall(p, folded) ==
  /\ log' = Append(log, [id |-> p.id, session |-> p.session, key |-> KeyOf(p.kind),
                         at |-> p.at, started |-> p.started, folded |-> folded,
                         flush |-> IF log = <<>> THEN 1
                                   ELSE log[Len(log)].flush + (IF cursor = 1 THEN 1 ELSE 0)])
  /\ IF cursor = Len(pend)
     THEN phase' = "prepare" /\ cursor' = 1 /\ pend' = <<>> /\ seen' = <<>>
     ELSE phase' = "warn" /\ cursor' = cursor + 1 /\ UNCHANGED <<pend, seen>>

\* A call whose insert failed has nothing to attach to.
SkipCall ==
  /\ phase = "warn" /\ pend[cursor].id = NoId
  /\ NextCall(pend[cursor], FALSE)
  /\ UNCHANGED <<now, tables, calls, skewed, purges, faults>>

\* The analyzers' warnings, one in their place when one panics, and one for
\* a failed call.
WarningsOf(kind, panic) ==
  (IF panic THEN <<"analyzer_panic">> ELSE kind.raises)
    \o (IF kind.error THEN <<"upstream_error">> ELSE <<>>)

\* They are written in a transaction of their own, by when the row they
\* refer to may be gone.  A failure is counted, and the call is folded still.
InsertWarnings ==
  LET p == pend[cursor] IN
  /\ phase = "warn" /\ p.id # NoId
  /\ \E panic \in BOOLEAN, lost \in BOOLEAN :
       LET ws == WarningsOf(p.kind, panic) IN
       /\ ws = <<>> => ~ lost
       /\ ws # <<>> /\ p.id \notin DOMAIN rows => lost
       /\ IF panic \/ (lost /\ p.id \in DOMAIN rows) THEN Fault ELSE UNCHANGED faults
       /\ warnings' = IF lost THEN warnings ELSE warnings \cup
            {[id |-> nextWarn + i - 1, request |-> p.id, kind |-> ws[i], at |-> now] :
               i \in DOMAIN ws}
       /\ nextWarn' = IF lost THEN nextWarn ELSE nextWarn + Len(ws)
       /\ pend' = [pend EXCEPT ![cursor].warns = ws, ![cursor].lost = lost]
  /\ phase' = "fold"
  /\ UNCHANGED <<now, rows, sessions, nextId, cursor, seen, calls, log, skewed, purges>>

\* [mutant] a session that a header names keeps its calls' prefix
ContributionKeepsPrefix(p) ==
  [prefix   |-> p.kind.prefix,
   first    |-> p.started,
   last     |-> p.started,
   totals   |-> [requests |-> 1, tokens |-> p.kind.tokens,
                 cost     |-> IF p.kind.cost = NoCost THEN 0 ELSE p.kind.cost,
                 unpriced |-> IF p.kind.cost = NoCost THEN 1 ELSE 0],
   models   |-> {p.kind.resolved} \ {NoModel},
   warnings |-> Len(p.warns)]

\* What one call adds to its session (RecordCall).
Contribution(p) ==
  [prefix   |-> IF p.kind.header # NoHeader /\ p.session = KeyOf(p.kind)
                THEN HeaderKey ELSE p.kind.prefix,
   first    |-> p.started,
   last     |-> p.started,
   totals   |-> [requests |-> 1, tokens |-> p.kind.tokens,
                 cost     |-> IF p.kind.cost = NoCost THEN 0 ELSE p.kind.cost,
                 unpriced |-> IF p.kind.cost = NoCost THEN 1 ELSE 0],
   models   |-> {p.kind.resolved} \ {NoModel},
   warnings |-> Len(p.warns)]

\* [mutant] last_seen is assigned, not raised
MergeAssignsLast(old, new) ==
  [prefix   |-> old.prefix,
   first    |-> IF new.first < old.first THEN new.first ELSE old.first,
   last     |-> new.last,
   totals   |-> [c \in DOMAIN old.totals |-> old.totals[c] + new.totals[c]],
   models   |-> old.models \cup new.models,
   warnings |-> old.warnings + new.warnings]

Merge(old, new) ==
  [prefix   |-> old.prefix,
   first    |-> IF new.first < old.first THEN new.first ELSE old.first,
   last     |-> IF new.last > old.last THEN new.last ELSE old.last,
   totals   |-> [c \in DOMAIN old.totals |-> old.totals[c] + new.totals[c]],
   models   |-> old.models \cup new.models,
   warnings |-> old.warnings + new.warnings]

UpsertSession(sid, c) ==
  [s \in DOMAIN sessions \cup {sid} |->
     IF s # sid THEN sessions[s]
     ELSE IF s \in DOMAIN sessions THEN Merge(sessions[s], c) ELSE c]

RecordCall ==
  LET p == pend[cursor] IN
  /\ phase = "fold"
  /\ sessions' = IF p.session = NoSession THEN sessions
                 ELSE UpsertSession(p.session, Contribution(p))
  /\ skewed' = IF p.lost /\ p.session # NoSession THEN skewed \cup {p.session} ELSE skewed
  /\ NextCall(p, TRUE)
  /\ UNCHANGED <<now, rows, warnings, nextId, nextWarn, calls, purges, faults>>

\* The fold fails: logged, and nothing else.
RecordCallFails ==
  LET p == pend[cursor] IN
  /\ phase = "fold" /\ p.session # NoSession
  /\ Fault
  /\ skewed' = skewed \cup {p.session}
  /\ NextCall(p, FALSE)
  /\ UNCHANGED <<now, tables, calls, purges>>

----------------------------------------------------------------------------
(* Purges.                                                                 *)

\* The calls of this flush whose rows are inserted and not folded.
Unsettled == {i \in DOMAIN pend : (phase # "insert" => i >= cursor) /\ pend[i].id # NoId}
Unfolded == {pend[i].id : i \in Unsettled}

\* The deleted rows' warnings go with them, rows that replay them lose the
\* link, and every session that lost a row is rebuilt from what is left.
PurgeWhere(S) ==
  LET left     == DOMAIN rows \ S
      affected == {rows[i].session : i \in S} \ {NoSession}
      empty    == {s \in affected : SessionRows(rows, s) \subseteq S}
  IN
  /\ rows' = [i \in left |->
                [rows[i] EXCEPT !.replayOf = IF @ \in S THEN NoId ELSE @]]
  /\ warnings' = {w \in warnings : w.request \in left}
  /\ sessions' = [s \in DOMAIN sessions \ empty |->
       IF s \in affected
       THEN SessionTotals(sessions[s].prefix, rows, warnings, SessionRows(rows, s) \ S)
       ELSE sessions[s]]
  /\ skewed' = (skewed \ (empty \cup (affected \cap DOMAIN sessions))) \cup
               {s \in affected : \E i \in Unsettled : pend[i].session = s}

Purge ==
  /\ purges < MaxPurges /\ purges' = purges + 1
  /\ \E S \in {OlderThan(rows, cutoff) : cutoff \in 1..now} \cup {UnpricedRows(rows)} :
       S # {} /\ PurgeWhere(S)
  /\ UNCHANGED <<now, nextId, nextWarn, flush, log, faults>>

Next ==
  \/ Tick
  \/ PrepareCall \/ InsertRequests \/ FallBack \/ InsertOne \/ RefuseOne
  \/ SkipCall \/ InsertWarnings \/ RecordCall \/ RecordCallFails
  \/ Purge

Spec == Init /\ [][Next]_vars

----------------------------------------------------------------------------
(* Properties.                                                             *)

SessionIds == {KeyOf(k) : k \in {j \in Kinds : j.header # NoHeader}} \cup
              {<<"s", t, k.prefix>> : t \in 0..MaxTime, k \in Kinds}
Prefixes == {k.prefix : k \in Kinds} \cup {HeaderKey}

\* Type invariant.
TypeOK ==
  /\ now \in 0..MaxTime /\ calls \in 0..MaxCalls
  /\ purges \in 0..MaxPurges /\ faults \in 0..MaxFaults
  /\ phase \in {"prepare", "insert", "warn", "fold"}
  /\ nextId \in 1 .. MaxCalls + 1 /\ DOMAIN rows \subseteq 1 .. nextId - 1
  /\ \A i \in DOMAIN rows :
       /\ rows[i].kind \in Kinds /\ rows[i].started \in 0..now
       /\ rows[i].session \in SessionIds \cup {NoSession}
       /\ rows[i].replayOf \in 0 .. i - 1
  /\ \A w \in warnings : w.id \in 1 .. nextWarn - 1 /\ w.at \in 0..now
  /\ DOMAIN sessions \subseteq SessionIds /\ skewed \subseteq SessionIds
  /\ \A s \in DOMAIN sessions : sessions[s].prefix \in Prefixes
  /\ Len(pend) <= BatchSize /\ cursor \in 1..BatchSize
  /\ \A k \in DOMAIN seen : seen[k] \in SessionIds

\* A session's running totals are those of its folded rows: whatever calls
\* were folded, in whatever order and over however many purges, rebuilding
\* the session from the tables would change nothing, and a session with no
\* row left is gone.  The exceptions are the sessions where a fold or the
\* write of the warnings failed, until a purge rebuilds them, and those that
\* lost a row to a purge while a call of theirs waited between its insert
\* and its fold.  (UpsertSession against reconcileSession: two independent
\* ways to compute the same columns.)
TotalsMatchRows ==
  \A s \in (DOMAIN sessions \cup {rows[i].session : i \in DOMAIN rows})
             \ (skewed \cup {NoSession}) :
    LET S == SessionRows(rows, s) \ Unfolded IN
    IF S = {} THEN s \notin DOMAIN sessions
    ELSE /\ s \in DOMAIN sessions
         /\ sessions[s] = SessionTotals(sessions[s].prefix, rows, warnings, S)

\* Calls with a session header, calls with different body prefixes and calls
\* without a readable body never end up in one session, also when the
\* header's client sends the same prefix in the same flush; and a session
\* found again by its prefix is never one that a header named (RecordCall's
\* NULL prefix_hash and the two kinds of memo keys).
KeysApart ==
  /\ \A i, j \in DOMAIN rows :
       rows[i].session = rows[j].session /\ rows[i].session # NoSession
         => KeyOf(rows[i].kind) = KeyOf(rows[j].kind)
  /\ \A i \in DOMAIN rows : rows[i].session \in DOMAIN sessions =>
       (sessions[rows[i].session].prefix = HeaderKey) = (rows[i].kind.header # NoHeader)

\* Calls of one prefix are grouped by the gap and by nothing else: a call
\* that joins a session was resolved in the flush or the millisecond of an
\* earlier call of it, or within the window after that call started; and a
\* call that opens a session had no such earlier call, unless that call's
\* row is gone.  The lookup reads the table before the flush's own calls are
\* folded; the memo has to make up for it (Resolve, flushBatch).
GroupedByGap ==
  \A j \in {k \in DOMAIN log : log[k].session # NoSession /\ log[k].key[1] = "p"} :
    LET earlier == {i \in 1 .. j - 1 : log[i].key = log[j].key}
        mates   == {i \in earlier : log[i].session = log[j].session}
        Near(i) == log[j].at - log[i].started <= WindowOf(log[j].key[2])
    IN
    /\ mates # {} => \E i \in mates :
         log[i].flush = log[j].flush \/ log[i].at = log[j].at \/ Near(i)
    /\ mates = {} => \A i \in earlier :
         log[i].folded /\ log[i].session # NoSession /\ log[i].id \in DOMAIN rows => ~ Near(i)

\* A replay's row never points at a row that is gone and no warning outlives
\* its request, although originals are purged while their replays, and
\* requests while their warnings, are on the way to the store.
ReferencesIntact ==
  /\ \A i \in DOMAIN rows : rows[i].replayOf \in DOMAIN rows \cup {NoId}
  /\ \A w \in warnings : w.request \in DOMAIN rows

Idle == pend = <<>>

\* Between flushes no session counts a call whose row is gone: what the
\* comment of PurgeOlderThan says of a purge (store.go:1061).
NoPhantomCalls ==
  Idle => \A s \in DOMAIN sessions :
            sessions[s].totals.requests <= Cardinality(SessionRows(rows, s))

Filters == {<<>>} \cup [since : 0..MaxTime, until : 1..MaxTime] \cup
           [onlyErrors : {TRUE}] \cup [onlyWarned : {TRUE}] \cup
           {[model |-> k.requested] : k \in Kinds}

Served(page) == {page[k].id : k \in DOMAIN page}

\* Page by page, each as the database may answer it, every id is served once.
ServesOnce(pages, ids) ==
  /\ \A p \in DOMAIN pages :
       /\ pages[p] # {}
       /\ \A page \in pages[p] :
            Served(page) \subseteq ids /\ Cardinality(Served(page)) = Len(page)
  /\ \A i \in ids : \E p \in DOMAIN pages :
       \A q \in DOMAIN pages : \A page \in pages[q] : i \in Served(page) <=> p = q

\* The offset of a page; one before the first is the first.
Offset(p, size) == IF p = 0 THEN -1 ELSE p * EffectiveLimit(size)

PagedBy(size) ==
  /\ \A f \in Filters :
       ServesOnce([p \in 0..CountRequests(rows, warnings, f) |->
                     ListRequests(rows, warnings, f, size, Offset(p, size))],
                  RequestWhere(rows, warnings, f))
  /\ ServesOnce([p \in 0..CountWarnings(warnings, <<>>) |->
                    ListWarnings(warnings, <<>>, size, Offset(p, size))],
                 {w.id : w \in warnings})
  /\ ServesOnce([p \in 0..CountSessions(sessions) |->
                    ListSessions(sessions, size, Offset(p, size))],
                 1..CountSessions(sessions))

\* Paging through a list whose rows share their time serves every row that
\* the count announces, once: any page the database may answer with, next
\* to any other (the id tiebreakers of ListRequests and ListWarnings).
PagesPartition == \A size \in 0..2 : PagedBy(size)

SumOf(groups) ==
  [c \in {"requests", "tokens", "cost", "unpriced"} |->
     SumFunction([g \in DOMAIN groups |-> groups[g][c]])]

GroupsAddUp(f) ==
  LET totals == StatsSummary(rows, warnings, f).totals IN
  /\ totals = SumOf(StatsByModel(rows, f))
  /\ totals = SumOf(StatsByCostSource(rows, f))
  /\ totals = SumOf(StatsByPeriod(rows, f, 2, -1))
  /\ totals.requests = CountRequests(rows, warnings, f)

\* Fewer than p percent of the calls are shorter, and p percent no longer.
Divides(d, f, p) ==
  LET S == StatsWindow(rows, f) IN
  S # {} => /\ 100 * Cardinality({i \in S : rows[i].kind.duration < d}) < p * Cardinality(S)
            /\ 100 * Cardinality({i \in S : rows[i].kind.duration <= d}) >= p * Cardinality(S)

PercentilesDivide(f) ==
  LET sum == StatsSummary(rows, warnings, f) IN Divides(sum.p50, f, 50) /\ Divides(sum.p95, f, 95)

\* The statistics of a window tell one story: by model, by cost source and
\* by period they add up to the summary, the summary counts what the list
\* would show, the percentiles divide the calls, the unpriced purge takes
\* rows of the unpriced source only, and the groups of warnings add up to
\* their count.
ReportsAgree ==
  /\ \A f \in {<<>>} \cup [since : 0..MaxTime, until : 1..MaxTime] :
       GroupsAddUp(f) /\ PercentilesDivide(f)
  /\ CountUnpriced(rows) > 0 =>
       /\ CountUnpriced(rows) <= StatsByCostSource(rows, <<>>)["unpriced"].requests
       /\ \A i \in UnpricedRows(rows) : rows[i].kind.cost = NoCost
  /\ CountWarnings(warnings, <<>>)
       = SumFunction([g \in WarningSummary(warnings, <<>>) |-> g.count])
=============================================================================
