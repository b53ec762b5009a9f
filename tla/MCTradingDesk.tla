---------------------------- MODULE MCTradingDesk ----------------------------
(***************************************************************************)
(* A small desk for TLC: two sheep orders and one for goats, two versions  *)
(* of the reference data.  The goat order has no factor under "r1" (BLOCK) *)
(* and one under "r2"; "sheepB" raises a margin warning under both.        *)
(* "sheepC" is a changed sheepB with the same warning.  "loaded" is sheepA *)
(* once it is shipped: lifecycle is no business column, so the fingerprint *)
(* stays.                                                                  *)
(***************************************************************************)
EXTENDS TradingDesk, TLC

MCOrders == {"o1", "o2", "o3"}
MCSpecies == {"SHEEP", "GOAT"}
MCSpeciesOf == [o \in MCOrders |-> IF o = "o3" THEN "GOAT" ELSE "SHEEP"]

MCContents == {"sheepA", "sheepB", "sheepC", "goat", "loaded"}
MCActiveContents == MCContents \ {"loaded"}
MCFingerprint == [c \in MCContents |-> IF c = "loaded" THEN "sheepA" ELSE c]
MCSuppliesValue == {"sheepA", "sheepC", "goat"}
MCSuppliesBefore == {"sheepA", "sheepB", "goat"}  \* the change drops it

MCRefs == {"r1", "r2"}
MCCodes == {"NO_DNBP_FACTOR", "MARGIN_BUFFER_ERODED", "DNBP_OUTLIER"}
MCSeverity ==
    [k \in MCCodes |-> IF k = "NO_DNBP_FACTOR" THEN "BLOCK" ELSE "WARN"]

MCQuote ==
    [x \in MCContents \X MCRefs |->
        CASE x = <<"sheepA", "r1">> -> 20
          [] x = <<"sheepA", "r2">> -> 30
          [] x[1] \in {"sheepB", "sheepC"} -> 21
          [] x = <<"goat", "r2">> -> 15
          [] OTHER -> None]

MCRaises ==
    [x \in MCContents \X MCRefs |->
        CASE x[1] \in {"sheepB", "sheepC"} -> {"MARGIN_BUFFER_ERODED"}
          [] x = <<"goat", "r1">> -> {"NO_DNBP_FACTOR"}
          [] OTHER -> {}]

(* The goat order leaves the book, the second sheep order changes; the     *)
(* first is shipped.                                                       *)
MCBook(c1, c2, c3) ==
    [o \in MCOrders |-> CASE o = "o1" -> c1 [] o = "o2" -> c2 [] OTHER -> c3]

MCWorkbooks ==
    {MCBook("sheepA", "sheepB", "goat"),
     MCBook("loaded", "sheepC", None)}

MCQueriedOrders == {"o2"}
=============================================================================
