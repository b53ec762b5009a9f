----------------------------- MODULE PriceBoard -----------------------------
(***************************************************************************)
(* What the trading desk promises the buyer at the ring, with none of the  *)
(* tables that implement it.                                               *)
(*                                                                         *)
(* There is one price board.  A set of prices goes up whole, computed from *)
(* one submitted order book under one version of the reference data, and   *)
(* only if nothing in that book blocks and every concern the engine has    *)
(* about it was reviewed by a person, for that order, against that         *)
(* content.  A buyer who listens only to the price alerts knows the prices *)
(* on the board.                                                           *)
(***************************************************************************)
EXTENDS OrderBook

VARIABLES
    board,      \* the prices the buyer may rely on
    alerted,    \* the prices of the last price alert
    reviews     \* the reviews people have made: order, code, fingerprint

boardVars == <<board, alerted, reviews>>

Review(o, k, f) == [order |-> o, code |-> k, fingerprint |-> f]

AllReviews ==
    [order : Orders, code : {k \in Codes : Severity[k] # "BLOCK"},
     fingerprint : Fingerprints]

(* Nothing the engine says about book b under version r is left open. *)
Cleared(b, r) ==
    \A o \in ActiveOrders(b) : \A k \in Raises[b[o], r] :
        /\ Severity[k] # "BLOCK"
        /\ Reviewable(k) => Review(o, k, Fingerprint[b[o]]) \in reviews

Init ==
    /\ board = NothingPriced
    /\ alerted = NothingPriced
    /\ reviews = {}

MakeReview ==
    /\ \E rv \in AllReviews : reviews' = reviews \cup {rv}
    /\ UNCHANGED <<board, alerted>>

(* A same-price announcement leaves the board as it is and alerts nobody. *)
Announce ==
    /\ \E b \in Workbooks, r \in Refs :
        /\ Cleared(b, r)
        /\ ActiveOrders(b) # {}
        /\ board' = SpeciesPrices(QuotesOf(b, r))
        /\ alerted' = board'
    /\ UNCHANGED reviews

Next == MakeReview \/ Announce

Spec == Init /\ [][Next]_boardVars
=============================================================================
