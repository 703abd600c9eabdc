----------------------------- MODULE MCSessions -----------------------------
(***************************************************************************)
(* A priced call and an error without tokens that share a prefix, a call   *)
(* that a header names although its body has that prefix, and one without  *)
(* a readable body whose price is unknown.                                 *)
(***************************************************************************)
EXTENDS Sessions

MCKinds == {
  [header |-> NoHeader, prefix |-> "p", requested |-> "m", resolved |-> "m",
   tokens |-> 2, cost |-> 3, source |-> "configured", error |-> FALSE,
   duration |-> 1, raises |-> <<"dropped_param">>, replay |-> FALSE],
  [header |-> NoHeader, prefix |-> "p", requested |-> "m", resolved |-> NoModel,
   tokens |-> 0, cost |-> NoCost, source |-> NoSource, error |-> TRUE,
   duration |-> 2, raises |-> <<>>, replay |-> FALSE],
  [header |-> "h", prefix |-> "p", requested |-> "m", resolved |-> "n",
   tokens |-> 1, cost |-> NoCost, source |-> "unpriced", error |-> FALSE,
   duration |-> 1, raises |-> <<>>, replay |-> TRUE],
  [header |-> NoHeader, prefix |-> NullPrefix, requested |-> NoModel, resolved |-> "n",
   tokens |-> 1, cost |-> NoCost, source |-> "unknown-model", error |-> FALSE,
   duration |-> 3, raises |-> <<>>, replay |-> FALSE]}
=============================================================================
