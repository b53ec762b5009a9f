------------------------ MODULE MCReferenceVersions ------------------------
(***************************************************************************)
(* A submission of lines that differ in what makes them hard to price:     *)
(* a complete sheep line, the same with nothing but its price, one without *)
(* a price, one priced at zero, a goat line (the seed has no factor for    *)
(* goats), one of an unread species, and a loaded line at a loss.          *)
(***************************************************************************)
EXTENDS ReferenceVersions, TLC

CONSTANTS ada, ben

MCAdmins == {ada, ben}
MCSymmetry == Permutations(MCAdmins)

Complete ==
    [species |-> "SHEEP", lifecycle |-> "ACTIVE", price |-> 9, incoterm |-> "CIF",
     cost |-> 7, pack |-> 3, offal |-> 2, skin |-> 1, weight |-> 20, mom |-> 20,
     benchmark |-> 6, method |-> "GAYAN_FIXED_COST", loadout |-> None,
     nrv |-> 8, qty |-> 40, heads |-> 2, total |-> 280, product |-> "CARCASE",
     handSet |-> {}]

Bare ==
    [Complete EXCEPT !.cost = None, !.pack = None, !.weight = 0, !.skin = 5,
        !.incoterm = "FAS", !.benchmark = None, !.handSet = {"skin"}]

Loaded ==
    [Complete EXCEPT !.lifecycle = "LOADED", !.species = "GOAT", !.price = None,
        !.mom = -3]

Submission ==
    <<Complete, Bare, [Complete EXCEPT !.price = 0, !.cost = 1],
      [Complete EXCEPT !.species = "GOAT", !.price = 10],
      [Complete EXCEPT !.species = None, !.qty = None], Loaded>>

LookupSheet ==
    [cif |-> 1, pack |-> [p \in {"CARCASE"} |-> 3],
     offal |-> [sp \in {"SHEEP"} |-> 2], skin |-> [sp \in {"SHEEP"} |-> 1],
     fixed |-> [ACTIVE |-> 40, LOADED |-> 34]]

MCBook == Submission

MCTables == LookupSheet

MCAverages == {"SHEEP" :> 70 @@ "GOAT" :> 60}

MCKeys ==
    {Cif(None), Cif("GOAT"), Factor("SHEEP"), Factor("GOAT"), Weight("SHEEP")}

MCSeed == Cif(None) :> 1 @@ Factor("SHEEP") :> 8 @@ Weight("SHEEP") :> 20

MCAsked ==
    <<Cif(None) :> 2 @@ Factor("GOAT") :> 7,
      Factor("SHEEP") :> 9 @@ Cif("GOAT") :> 3>>
=============================================================================
