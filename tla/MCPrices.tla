------------------------------ MODULE MCPrices ------------------------------
(***************************************************************************)
(* Two shipped models and one of the user's; hand edits that are good, cut *)
(* short and malformed; a holiday on a weekday and a make-up day on a      *)
(* weekend, priced off, in and between the windows.                        *)
(***************************************************************************)
EXTENDS PriceFile

MCEdits == {
  [op |-> "set", model |-> "mine", field |-> "input", rate |-> 1],
  [op |-> "set", model |-> "mine", field |-> "cache_read", rate |-> -2],
  [op |-> "set", model |-> "mine", field |-> "input", rate |-> 3],
  [op |-> "unset", model |-> "mine"],
  [op |-> "unset", model |-> NotAModel],
  [op |-> "post", model |-> "flash",
   rates |-> [NoRates EXCEPT !["input"] = 1, !["output"] = 2]]}

MCHandEdits == {{}, {Line("flash", "inpt", 1)}, {Line("mine", "input", 1), Line("mine", "output", 0)}}

Tokens(input, output, read, write) ==
  [f \in Fields |-> CASE f = "input" -> input [] f = "output" -> output
                      [] f = "cache_read" -> read [] f = "cache_write" -> write]

MCBilled == {[model |-> m, usage |-> Tokens(1, 2, r, 0), at |-> t] :
               m \in {"flash", "mine"}, r \in {0, 2}, t \in {24 * 2 + 9, 24 * 2 + 4}}
            \cup {[model |-> "mine", usage |-> Tokens(3, 0, 0, 0), at |-> t] :
                    t \in {24 * 1 + 3, 24 * 5 + 6, 24 * 6 + 2, 24 * 5 + 16}}

MCCalendar == [offPeak |-> ParseDateSet({[lo |-> 0, hi |-> 1]}),
               work |-> ParseDateSet({[lo |-> 5, hi |-> 5]})]

ASSUME Accepted(MCCalendar.offPeak, MCCalendar.work)
=============================================================================
