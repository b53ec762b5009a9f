---------------------------- MODULE MCBuyerSync ----------------------------
(***************************************************************************)
(* Two purchases of 7 dollars a kilogram, 100 units to a cent.             *)
(* Sheep start at 7.50 and goats at nothing: a screen shows whole cents.   *)
(***************************************************************************)
EXTENDS BuyerSync, TLC

CONSTANTS r1, r2

MCRequests == {r1, r2}
MCSymmetry == Permutations(MCRequests)

MCSpecies == {"SHEEP", "GOAT"}
MCLots == {"a", "b"}

MCNoteOf ==
    [u \in Lots |->
        [species |-> IF u = "b" THEN "GOAT" ELSE "SHEEP",
         price |-> 1400, weight |-> 2, heads |-> IF u = "a" THEN 3 ELSE 5]]

\* dearer; lighter and fewer
MCCorrectionsOf ==
    [u \in Lots |->
        IF u # "a" THEN {}
        ELSE {[price |-> 1600, weight |-> None, heads |-> None],
              [price |-> None, weight |-> 3, heads |-> 4]}]

\* the sheep are left out once and return with their target; the goats get one
MCSheep(dnbp) == [dnbp |-> dnbp, target |-> 10]
MCGoats(target) == [dnbp |-> 710, target |-> target]
MCBoard(sheep, goats) == [s \in MCSpecies |-> IF s = "SHEEP" THEN sheep ELSE goats]
MCFirst == << [board |-> MCBoard(MCSheep(750), None), at |-> 1, from |-> 1] >>
MCBoards ==
    << {}, {MCBoard(None, MCGoats(None))}, {MCBoard(MCSheep(650), MCGoats(20))} >>

\* for the run about liveness
MCNoCorrections == [u \in Lots |-> {}]
MCOneBoard == << {}, {MCBoard(MCSheep(650), MCGoats(None))} >>
=============================================================================
