------------------------------ MODULE Queries ------------------------------
(***************************************************************************)
(* internal/store's reads as functions of the tables.  A table of requests *)
(* maps a row's id to the row, a table of warnings is a set, and ids grow  *)
(* with every insert.  Every count, list, statistic and preview that the   *)
(* dashboard and the commands show is one of these, on one snapshot.       *)
(*                                                                         *)
(* A filter is a record with the fields it constrains and no others.  One  *)
(* number stands for the four token columns; a cost is an amount or NoCost *)
(* (NULL) and a cost source may be NoSource (NULL).                        *)
(***************************************************************************)
EXTENDS Integers, FiniteSets, Sequences, FiniteSetsExt

NoCost == -1
NoSource == "NULL"
NoModel == ""
NoHeader == ""
NullPrefix == ""

----------------------------------------------------------------------------
(* Selection.  Windows are half open, each bound applied when it is set.   *)

InWindow(t, f) ==
  /\ "since" \in DOMAIN f => t >= f.since
  /\ "until" \in DOMAIN f => t < f.until

StatsWindow(rows, f) == {i \in DOMAIN rows : InWindow(rows[i].started, f)}

Wants(f, field, values) == field \in DOMAIN f => f[field] \in values

\* [mutant] the list's clause forgets the upper bound
RequestWhereNoUntil(rows, warnings, f) ==
  {i \in DOMAIN rows :
     /\ "since" \in DOMAIN f => rows[i].started >= f.since
     /\ Wants(f, "session", {rows[i].session})
     /\ Wants(f, "model", {rows[i].kind.requested, rows[i].kind.resolved})
     /\ Wants(f, "replayOf", {rows[i].replayOf})
     /\ "onlyErrors" \in DOMAIN f => rows[i].kind.error
     /\ "onlyWarned" \in DOMAIN f => \E w \in warnings : w.request = i}

RequestWhere(rows, warnings, f) ==
  {i \in StatsWindow(rows, f) :
     /\ Wants(f, "session", {rows[i].session})
     /\ Wants(f, "model", {rows[i].kind.requested, rows[i].kind.resolved})
     /\ Wants(f, "replayOf", {rows[i].replayOf})
     /\ "onlyErrors" \in DOMAIN f => rows[i].kind.error
     /\ "onlyWarned" \in DOMAIN f => \E w \in warnings : w.request = i}

WarningWhere(warnings, f) ==
  {w \in warnings : Wants(f, "kind", {w.kind}) /\ ("since" \in DOMAIN f => w.at >= f.since)}

----------------------------------------------------------------------------
(* Pages.  SQLite orders by the keys of ORDER BY and owes nothing beyond   *)
(* them: a page is a slice of some sequence that respects the keys.        *)

DefaultLimit == 1000
EffectiveLimit(n) == IF n <= 0 THEN DefaultLimit ELSE n
ClampOffset(n) == IF n < 0 THEN 0 ELSE n

\* [mutant] no tiebreaker
NewestFirstNoTiebreak(a, b) == a.at > b.at

\* ORDER BY started_at (or created_at) DESC, id DESC.
NewestFirst(a, b) == a.at > b.at \/ (a.at = b.at /\ a.id > b.id)

Orders(entries) ==
  {s \in [1..Cardinality(entries) -> entries] :
     \A i, j \in DOMAIN s : i < j => s[i] # s[j] /\ ~ NewestFirst(s[j], s[i])}

Slice(s, limit, offset) ==
  SubSeq(s, offset + 1, Min({Len(s), offset + limit}))

Pages(entries, limit, offset) ==
  {Slice(s, EffectiveLimit(limit), ClampOffset(offset)) : s \in Orders(entries)}

ListRequests(rows, warnings, f, limit, offset) ==
  Pages({[id |-> i, at |-> rows[i].started] : i \in RequestWhere(rows, warnings, f)},
        limit, offset)

CountRequests(rows, warnings, f) == Cardinality(RequestWhere(rows, warnings, f))

ListWarnings(warnings, f, limit, offset) ==
  Pages({[id |-> w.id, at |-> w.at] : w \in WarningWhere(warnings, f)}, limit, offset)

CountWarnings(warnings, f) == Cardinality(WarningWhere(warnings, f))

CountSessions(sessions) == Cardinality(DOMAIN sessions)

\* Session ids are text, of which any fixed order will do.
TextOrder(sessions) ==
  CHOOSE place \in [DOMAIN sessions -> 1..CountSessions(sessions)] :
    \A s, t \in DOMAIN sessions : place[s] = place[t] => s = t

ListSessions(sessions, limit, offset) ==
  LET place == TextOrder(sessions) IN
  Pages({[id |-> place[s], at |-> sessions[s].last] : s \in DOMAIN sessions}, limit, offset)

\* Every warning is in one group, with the group's count and newest time.
WarningSummary(warnings, f) ==
  LET Group(k) == {w \in WarningWhere(warnings, f) : w.kind = k} IN
  {[kind |-> k, count |-> Cardinality(Group(k)), newest |-> Max({w.at : w \in Group(k)})] :
     k \in {w.kind : w \in WarningWhere(warnings, f)}}

----------------------------------------------------------------------------
(* Statistics over the rows of a window.                                   *)

Cost(rows, i) == IF rows[i].kind.cost = NoCost THEN 0 ELSE rows[i].kind.cost

Totals(rows, S) ==
  [requests |-> Cardinality(S),
   tokens   |-> SumFunction([i \in S |-> rows[i].kind.tokens]),
   cost     |-> SumFunction([i \in S |-> Cost(rows, i)]),
   unpriced |-> Cardinality({i \in S : rows[i].kind.cost = NoCost})]

\* Nearest rank, in whole percent, of the values of a function.
Percentile(value, p) ==
  LET n == Cardinality(DOMAIN value)
      sorted == CHOOSE s \in [1..n -> DOMAIN value] :
                  \A i, j \in 1..n : i < j => s[i] # s[j] /\ value[s[i]] <= value[s[j]]
      rank == (p * n + 99) \div 100
  IN  IF n = 0 THEN 0 ELSE value[sorted[Min({Max({rank, 1}), n})]]

StatsSummary(rows, warnings, f) ==
  LET S == StatsWindow(rows, f)
      duration == [i \in S |-> rows[i].kind.duration]
  IN
  [totals   |-> Totals(rows, S),
   errors   |-> Cardinality({i \in S : rows[i].kind.error}),
   warnings |-> Cardinality({w \in warnings : w.request \in S}),
   p50      |-> Percentile(duration, 50),
   p95      |-> Percentile(duration, 95)]

\* GROUP BY: one entry per label that occurs.
Grouped(rows, label) ==
  [g \in Range(label) |-> Totals(rows, {i \in DOMAIN label : label[i] = g})]

ModelLabel(r) == IF r.kind.resolved = NoModel THEN r.kind.requested ELSE r.kind.resolved
StatsByModel(rows, f) ==
  Grouped(rows, [i \in StatsWindow(rows, f) |-> ModelLabel(rows[i])])

SourceLabel(r) == IF r.kind.source = NoSource THEN "unpriced" ELSE r.kind.source
StatsByCostSource(rows, f) ==
  Grouped(rows, [i \in StatsWindow(rows, f) |-> SourceLabel(rows[i])])

\* Buckets of the given length, shifted by the viewer's time zone.
StatsByPeriod(rows, f, length, shift) ==
  Grouped(rows, [i \in StatsWindow(rows, f) |-> (rows[i].started + shift) \div length])

----------------------------------------------------------------------------
(* Sessions, and what the purges select.                                   *)

SessionRows(rows, sid) == {i \in DOMAIN rows : rows[i].session = sid}

\* A session's columns as a function of its key and some of its rows.
SessionTotals(prefix, rows, warnings, S) ==
  [prefix   |-> prefix,
   first    |-> Min({rows[i].started : i \in S}),
   last     |-> Max({rows[i].started : i \in S}),
   totals   |-> Totals(rows, S),
   models   |-> {rows[i].kind.resolved : i \in S} \ {NoModel},
   warnings |-> Cardinality({w \in warnings : w.request \in S})]

\* ORDER BY last_seen DESC LIMIT 1: any of the latest.
LatestSessions(sessions, prefix) ==
  LET keyed == {s \in DOMAIN sessions : sessions[s].prefix = prefix} IN
  {s \in keyed : \A t \in keyed : sessions[t].last <= sessions[s].last}

StatsBySession(sessions, since) == {s \in DOMAIN sessions : sessions[s].last >= since}

OlderThan(rows, cutoff) == {i \in DOMAIN rows : rows[i].started < cutoff}

UnpricedRows(rows) ==
  {i \in DOMAIN rows : SourceLabel(rows[i]) = "unpriced" /\ rows[i].kind.tokens > 0}

\* What the retention page shows before a purge.
CountPurgeable(rows, cutoff) ==
  LET S == OlderThan(rows, cutoff) IN
  [count |-> Cardinality(S), span |-> IF S = {} THEN <<>>
     ELSE <<Min({rows[i].started : i \in S}), Max({rows[i].started : i \in S})>>]
CountUnpriced(rows) == Cardinality(UnpricedRows(rows))
=============================================================================
