------------------------------- MODULE BidCheck -------------------------------
(***************************************************************************)
(* Scoring a bid against a published Do Not Buy Price, and measuring how   *)
(* much of a species has been bought.  Pure definitions.  Money is counted *)
(* in units of which Cent make a cent, so that prices finer than a cent    *)
(* are whole numbers; a weight is a whole number too.                      *)
(***************************************************************************)
EXTENDS Integers

CONSTANTS
    Cent,             \* the units in a cent
    CloseThreshold    \* bid_check_close_threshold_pct

ASSUME BidCheckAssumption ==
    /\ Cent \in Nat \ {0}
    /\ CloseThreshold \in 0..100

Money == Nat
Weight == Int

(* A mutant of FloorToCents: rounding up, which authorises an overpay.     *)
CeilToCents(amount) == ((amount + Cent - 1) \div Cent) * Cent

(* A price rounded down to whole cents: what a screen shows of a ceiling.  *)
FloorToCents(amount) == (amount \div Cent) * Cent

(* The price per head is over the ceiling.  A weight that is no weight is  *)
(* never within it.                                                        *)
IsBreach(price, weight, dnbp) == weight <= 0 \/ price > dnbp * weight

(* The most a buyer may bid for a head of this weight.                     *)
MaxPricePerHead(weight, dnbp) ==
    IF weight <= 0 THEN 0 ELSE FloorToCents(dnbp * weight)

(* Within CloseThreshold percent of the ceiling.                           *)
IsClose(price, weight, dnbp) ==
    IF dnbp > 0
    THEN (dnbp * weight - price) * 100 < CloseThreshold * dnbp * weight
    ELSE 0 < CloseThreshold

BidStatus(price, weight, dnbp) ==
    CASE IsBreach(price, weight, dnbp) -> "BREACH"
      [] ~IsBreach(price, weight, dnbp) /\ IsClose(price, weight, dnbp) -> "CLOSE"
      [] OTHER -> "PASS"

-----------------------------------------------------------------------------
(* Progress against a target.  A history is a function of 1..n, earliest   *)
(* first, to [from, target].                                               *)

(* A mutant of ProgressAnchor: every publication starts the count anew.    *)
AnchorAtNow(history, n, target, now) == now

(* Walk back from the end of the history as long as the target is the same *)
(* and take the start of the last publication passed.                      *)
ProgressAnchor(history, n, target, now) ==
    LET walk[i \in 0..n] ==
          \* the anchor when the i latest publications have been looked at
          IF i = 0 THEN [at |-> now, stopped |-> FALSE]
          ELSE LET past == walk[i - 1]
                   seen == history[n - i + 1]
               IN  IF past.stopped \/ seen.target # target
                   THEN [past EXCEPT !.stopped = TRUE]
                   ELSE [at |-> seen.from, stopped |-> FALSE]
    IN  walk[n].at
=============================================================================
