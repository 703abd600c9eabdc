---------------------------- MODULE MCDashboard -----------------------------
(***************************************************************************)
(* The parts behind the dashboard that share no state: the event feed, the *)
(* replay route, the reload route, the price file with the costs computed  *)
(* from it, the token counts of a response, and the tables behind the      *)
(* lists and statistics.  A behaviour is a behaviour of one of them; the   *)
(* others stay as they start.                                              *)
(***************************************************************************)
EXTENDS LiveView, Replay, Reload, MCPrices, MCSse, MCSessions

VARIABLE part

MCOriginals == 1..2
MCDays == 1..2
MCFlags == [k \in {} |-> 0]

usageVars == <<cap, body, sent, head, tail, closed>>
dashboardVars ==
  <<part, liveVars, replayVars, reloadVars, priceVars, usageVars, vars>>

DashboardInit ==
  /\ part \in {"live", "replay", "reload", "prices", "usage", "tables"}
  /\ LiveInit /\ ReplayInit /\ ReloadInit /\ PriceInit /\ Init
  /\ IF part = "usage" THEN SseInit
     ELSE cap = 0 /\ body = 0 /\ sent = 0 /\ head = <<>> /\ tail = <<>> /\ closed = FALSE

StepOf(p) ==
  /\ part = p /\ UNCHANGED part
  /\ p # "live" => UNCHANGED liveVars
  /\ p # "replay" => UNCHANGED replayVars
  /\ p # "reload" => UNCHANGED reloadVars
  /\ p # "prices" => UNCHANGED priceVars
  /\ p # "usage" => UNCHANGED usageVars
  /\ p # "tables" => UNCHANGED vars

DashboardNext ==
  \/ StepOf("live") /\ LiveNext
  \/ StepOf("replay") /\ ReplayNext
  \/ StepOf("reload") /\ ReloadNext
  \/ StepOf("prices") /\ PriceNext
  \/ StepOf("usage") /\ SseNext
  \/ StepOf("tables") /\ Next

\* A route call that has begun goes on: the upstream answers or fails, or the
\* caller's own timeout ends it, and the poll has a deadline.
DashboardSpec ==
  /\ DashboardInit /\ [][DashboardNext]_dashboardVars
  /\ \A x \in Handlers : WF_dashboardVars(StepOf("replay") /\ Route(x))
=============================================================================
