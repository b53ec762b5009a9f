----------------------------- MODULE MCDeskRaces -----------------------------
(***************************************************************************)
(* One submission and three requests in flight.  Version "r1" prices both  *)
(* orders, "r2" raises a warning for the sheep, "r3" has no factor for the *)
(* goats.                                                                  *)
(***************************************************************************)
EXTENDS DeskRaces, TLC

CONSTANTS w1, w2, w3

MCRequests == {w1, w2, w3}
MCSymmetry == Permutations(MCRequests)

MCOrders == {"o1", "o2"}
MCSpecies == {"SHEEP", "GOAT"}
MCSpeciesOf == [o \in MCOrders |-> IF o = "o1" THEN "SHEEP" ELSE "GOAT"]
MCLineNo == [o \in MCOrders |-> IF o = "o1" THEN 1 ELSE 2]

MCContents == {"sheep", "goat"}
MCFingerprint == [c \in MCContents |-> c]

MCRefs == {"r1", "r2", "r3"}
MCCodes == {"NO_DNBP_FACTOR", "MARGIN_BUFFER_ERODED", "DNBP_OUTLIER"}
MCSeverity ==
    [k \in MCCodes |-> IF k = "NO_DNBP_FACTOR" THEN "BLOCK" ELSE "WARN"]

MCQuote ==
    [x \in MCContents \X MCRefs |->
        CASE x[1] = "sheep" -> IF x[2] = "r1" THEN 20 ELSE 21
          [] x = <<"goat", "r3">> -> None
          [] OTHER -> 15]

MCRaises ==
    [x \in MCContents \X MCRefs |->
        CASE x = <<"sheep", "r2">> -> {"MARGIN_BUFFER_ERODED"}
          [] x = <<"goat", "r3">> -> {"NO_DNBP_FACTOR"}
          [] OTHER -> {}]

MCBook == [o \in MCOrders |-> IF o = "o1" THEN "sheep" ELSE "goat"]
MCWorkbooks == {MCBook}
MCSnapshots == {"s1"}
MCBookOf == [s \in MCSnapshots |-> MCBook]
MCInstructions == {1}
MCInstructionFor == [i \in MCInstructions |-> "s1"]
=============================================================================
