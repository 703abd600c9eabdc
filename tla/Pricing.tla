------------------------------ MODULE Pricing ------------------------------
(***************************************************************************)
(* internal/pricing's arithmetic: whether an instant is billed at the peak *)
(* rate, and what a call costs.                                            *)
(*                                                                         *)
(* Data.  An instant is an hour counted from a Monday 00:00 UTC, a date    *)
(* the day it falls on; what the calendar asks of a time ends at its hour. *)
(* A rate is a whole number of 1/Den micro-dollars a token: the code's     *)
(* rates are exact rationals, and so is every sum of them before the one   *)
(* rounding.  Amounts are unbounded here; the code ends in an int64.       *)
(***************************************************************************)
EXTENDS Integers

CONSTANT Den   \* parts of a micro-dollar

ASSUME DenAssumption == Den \in Nat \ {0}

Unset == -1    \* a rate the table does not have
NoAmount == -1 \* a cost that could not be computed

----------------------------------------------------------------------------
(* The peak calendar.                                                      *)

Date(t) == t \div 24
Hour(t) == t % 24
Weekend(d) == d % 7 \in {5, 6}

\* A configured date set is a set of ranges; NoDates is what is refused.
NoDates == {-1}
ParseDateSet(ranges) ==
  IF \E r \in ranges : r.hi < r.lo THEN NoDates ELSE UNION {r.lo .. r.hi : r \in ranges}

\* A date is a rest day or a make-up work day, never both.
Accepted(offPeak, work) ==
  /\ NoDates \notin {offPeak, work}
  /\ offPeak \cap work = {}

IsPeak(cal, t) ==
  /\ Date(t) \notin cal.offPeak
  /\ Date(t) \in cal.work \/ ~Weekend(Date(t))
  /\ Hour(t) \in 1..3 \cup 6..9

PeakPriced(cal, t, amount) == amount > 0 /\ IsPeak(cal, t)

\* What the rule means: DeepSeek's day and its windows are Beijing's, and a
\* rest day there never peaks.
BeijingPeak(cal, t) ==
  LET day == Date(t + 8)
      workday == day \notin cal.offPeak /\ (day \in cal.work \/ ~Weekend(day))
  IN  workday /\ Hour(t + 8) \in 9..11 \cup 14..17

----------------------------------------------------------------------------
(* The cost of a call.                                                     *)

PeakMultiplier == 2

Fields == {"input", "output", "cache_read", "cache_write"}

NoRates == [f \in Fields |-> Unset]

Source(rates) == IF rates["input"] = Unset THEN "unpriced" ELSE "configured"

Magnitude(n) == IF n < 0 THEN -n ELSE n

\* The nearest whole number to num / Den, halves away from zero.
RoundHalfUp(num) ==
  LET q == Magnitude(num) \div Den
      rem == Magnitude(num) % Den
      up == IF 2 * rem >= Den THEN q + 1 ELSE q
  IN  IF num < 0 THEN -up ELSE up

\* The rate a category is billed at: its own, or the input rate.
RateOf(rates, f) == IF rates[f] = Unset THEN rates["input"] ELSE rates[f]

\* The unrounded cost of a call's tokens, every rate multiplied first.
Total(usage, rates, multiplier) ==
  LET Part(f) == usage[f] * (RateOf(rates, f) * multiplier)
  IN  Part("input") + Part("output") + Part("cache_read") + Part("cache_write")

Approximate(usage, rates) == \E f \in Fields : usage[f] # 0 /\ rates[f] = Unset

\* [mutant] the peak multiplier applied to the rounded amount
ComputeDoublesLate(model, usage, table, t, cal) ==
  IF model \notin DOMAIN table THEN [amount |-> NoAmount, source |-> "unknown-model"]
  ELSE IF table[model]["input"] = Unset THEN [amount |-> NoAmount, source |-> "unpriced"]
  ELSE [amount |-> RoundHalfUp(Total(usage, table[model], 1))
                     * (IF IsPeak(cal, t) THEN PeakMultiplier ELSE 1),
        source |-> IF Approximate(usage, table[model]) THEN "approximate" ELSE "configured"]

Compute(model, usage, table, t, cal) ==
  LET Unpriced(source) == [amount |-> NoAmount, source |-> source]
      multiplier == IF IsPeak(cal, t) THEN PeakMultiplier ELSE 1
  IN
  IF model \notin DOMAIN table THEN Unpriced("unknown-model")
  ELSE IF Source(table[model]) = "unpriced" THEN Unpriced("unpriced")
  ELSE [amount |-> RoundHalfUp(Total(usage, table[model], multiplier)),
        source |-> IF Approximate(usage, table[model]) THEN "approximate" ELSE "configured"]
=============================================================================
