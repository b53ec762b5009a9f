------------------------------- MODULE Engine -------------------------------
(***************************************************************************)
(* The pricing engine: what one order line is worth under one              *)
(* configuration, what is wrong with the line, and what a change of        *)
(* configuration would do to its price.  Pure functions of a line (a       *)
(* record of the received columns, each a number or None) and of a config  *)
(*                                                                         *)
(*   [cif |-> buffer, factor |-> [some species -> factor],                 *)
(*    weight |-> [some species -> standard weight]].                       *)
(*                                                                         *)
(* Numbers are whole: factors are in parts of Unit, so a DNBP and a profit *)
(* are in parts of Unit too.  The engine divides costs per head by the     *)
(* standard weight; here profits are kept per animal of standard weight,   *)
(* that is multiplied by it, which keeps their sign and their presence.    *)
(* An issue is a code with the column it is about (None for most).         *)
(***************************************************************************)
EXTENDS Integers, FiniteSetsExt

CONSTANTS
    None,   \* null
    Unit    \* the denominator of the factors

ASSUME UnitAssumption == Unit \in Nat \ {0}

ASSUME NoneAssumption == None \notin Int

Number == Int \cup {None}
Text == STRING \cup {None}

(* The received columns of a line that the engine and the cross-check read.*)
Line ==
    [species : Text, lifecycle : {"ACTIVE", "LOADED"}, price : Number,
     incoterm : {"CIF", "FAS", None}, cost : Number, pack : Number,
     offal : Number, skin : Number, weight : Number, mom : Number,
     benchmark : Number, method : Text, loadout : Text, nrv : Number,
     qty : Number, heads : Number, total : Number, product : Text,
     handSet : SUBSET {"skin", "pack", "offal", "mom"}]

IsConfig(c) ==
    /\ c.cif \in Int
    /\ \A sp \in DOMAIN c.factor : c.factor[sp] \in Int
    /\ \A sp \in DOMAIN c.weight : c.weight[sp] \in Int

Known(S) == None \notin S

(* The value of a lookup table at a key, None if the key is not there. *)
Lookup(table, k) == IF k \in DOMAIN table THEN table[k] ELSE None

Active(l) == l.lifecycle = "ACTIVE"

-----------------------------------------------------------------------------
(* The price *)

HasFactor(sp, c) == sp \in DOMAIN c.factor

(* For a species that has a factor. *)
ComputeBingDnbp(price, sp, c) == (price - c.cif) * c.factor[sp]

HasSellPrice(l) == l.price # None /\ l.price > 0

(* A mutant of BingDnbp: a missing factor counts as one.                   *)
GuessedDnbp(l, c) ==
    IF ~HasSellPrice(l) THEN None
    ELSE IF HasFactor(l.species, c) THEN ComputeBingDnbp(l.price, l.species, c)
    ELSE Unit * (l.price - c.cif)

BingDnbp(l, c) ==
    IF HasFactor(l.species, c) /\ HasSellPrice(l)
    THEN ComputeBingDnbp(l.price, l.species, c)
    ELSE None

-----------------------------------------------------------------------------
(* The supporting analysis *)

AdjustedPrice(l, c) == IF l.price = None THEN None ELSE l.price - c.cif

HasStandardWeight(l, c) == Lookup(c.weight, l.species) \notin {None, 0}

(* A cost or return per head, per animal of standard weight: no standard   *)
(* weight, nothing to spread it over.                                      *)
Spread(l, c, perHead) == IF HasStandardWeight(l, c) THEN perHead ELSE None

(* What is left of the adjusted price after paying paid (in parts of Unit) *)
(* and packing, with offal and skin returned.                              *)
Profit(l, c, paid) ==
    LET pack  == Spread(l, c, l.pack)
        offal == Spread(l, c, l.offal)
        skin  == Spread(l, c, l.skin)
    IN  IF Known({AdjustedPrice(l, c), paid, pack, offal, skin})
        THEN (Unit * AdjustedPrice(l, c) - paid) * c.weight[l.species]
             + Unit * (offal + skin - pack)
        ELSE None

ProfitOnPeterCosts(l, c) ==
    Profit(l, c, IF l.cost = None THEN None ELSE Unit * l.cost)

ProfitOnBingDnbp(l, c) == Profit(l, c, BingDnbp(l, c))

(* How far the DNBP is above a received column. *)
Above(l, c, received) ==
    IF Known({BingDnbp(l, c), received}) THEN BingDnbp(l, c) - Unit * received
    ELSE None

Workings(l, c) ==
    [adjusted |-> AdjustedPrice(l, c),
     pack |-> Spread(l, c, l.pack),
     offal |-> Spread(l, c, l.offal),
     skin |-> Spread(l, c, l.skin),
     profitPeter |-> ProfitOnPeterCosts(l, c),
     dnbp |-> BingDnbp(l, c),
     factor |-> Lookup(c.factor, l.species),
     profitDnbp |-> ProfitOnBingDnbp(l, c),
     overBenchmark |-> Above(l, c, l.benchmark),
     overPeter |-> Above(l, c, l.cost),
     complete |-> Known({ProfitOnBingDnbp(l, c), Above(l, c, l.cost)})]

-----------------------------------------------------------------------------
(* What is wrong with a line *)

When(condition, code) == IF condition THEN {<<code, None>>} ELSE {}

Negative(x) == x # None /\ x < 0

ActiveLineIssues(l, c) ==
    UNION {When(~HasFactor(l.species, c), "NO_DNBP_FACTOR"),
           When(~HasSellPrice(l), "MISSING_SELL_PRICE"),
           When(l.cost = None, "MISSING_LIVESTOCK_COST"),
           When(l.weight = None \/ l.weight <= 0, "MISSING_AVG_WEIGHT"),
           When(~HasStandardWeight(l, c), "NO_STANDARD_WEIGHT"),
           When(Negative(ProfitOnPeterCosts(l, c)), "NEGATIVE_MARGIN"),
           When(Above(l, c, l.cost) # None /\ Above(l, c, l.cost) >= 0,
                "MARGIN_BUFFER_ERODED")}

LoadedLineIssues(l) ==
    UNION {When(l.loadout = None, "LOADED_MISSING_LOADOUT_DATE"),
           When(l.cost = None, "LOADED_MISSING_ACTUAL_COST"),
           When(Negative(l.mom), "LOADED_NEGATIVE_MARGIN")}

(***************************************************************************)
(* The cross-check recomputes the abattoir's own columns from its own      *)
(* tables.  Check reports a received column that differs from n/d by more  *)
(* than a millionth of it; nothing to compare is not a mismatch.           *)
(***************************************************************************)
Magnitude(x) == IF x < 0 THEN -x ELSE x

Check(column, received, n, d) ==
    IF /\ Known({received, n})
       /\ Magnitude(received * d - n) * 1000000 > Magnitude(n)
    THEN {<<"RECEIVED_VALUE_MISMATCH", column>>}
    ELSE {}

(* What an expected quotient by the average weight is compared as: zero    *)
(* when there is no weight to divide by.                                   *)
CheckPerHead(column, received, n, weight) ==
    IF weight <= 0 THEN Check(column, received, 0, 1)
    ELSE Check(column, received, n, weight)

ExpectedNrv(l, tables) == IF l.incoterm = "CIF" THEN l.price - tables.cif ELSE l.price

ExpectedMom(l) ==
    IF l.weight <= 0 THEN 0
    ELSE (l.nrv - l.cost) * l.weight + l.offal + l.skin - l.pack

ExpectedGayan(l, tables) ==
    l.nrv * l.weight
    - (tables.fixed[l.lifecycle] + l.pack - l.skin - l.offal)

RunCrosscheck(l, tables) ==
    UNION {
      IF Known({l.price, l.incoterm})
      THEN Check("K", l.nrv, ExpectedNrv(l, tables), 1) ELSE {},
      IF l.product # None
      THEN Check("M", l.pack, Lookup(tables.pack, l.product), 1) ELSE {},
      IF l.species # None
      THEN Check("N", l.offal, Lookup(tables.offal, l.species), 1) ELSE {},
      IF l.species # None /\ "skin" \notin l.handSet
      THEN Check("O", l.skin, Lookup(tables.skin, l.species), 1) ELSE {},
      IF Known({l.nrv, l.cost, l.weight, l.offal, l.skin, l.pack})
      THEN Check("Q", l.mom, ExpectedMom(l), 1) ELSE {},
      IF Known({l.qty, l.weight})
      THEN CheckPerHead("U", l.heads, l.qty, l.weight) ELSE {},
      IF Known({l.cost, l.qty})
      THEN Check("V", l.total, l.cost * l.qty, 1) ELSE {},
      When(l.benchmark = None, "RECEIVED_BENCHMARK_ABSENT"),
      IF /\ l.method = "GAYAN_FIXED_COST"
         /\ Known({l.benchmark, l.nrv, l.weight, l.pack, l.offal, l.skin})
      THEN CheckPerHead("T", l.benchmark, ExpectedGayan(l, tables), l.weight)
      ELSE {}}

HandSetIssues(l) == {<<"HAND_SET_VALUE", column>> : column \in l.handSet}

(* More than 15% off the average (None if nothing was published). *)
CheckDnbpOutlier(dnbp, average) ==
    IF Known({dnbp, average})
    THEN When(average > 0 /\ 100 * Magnitude(dnbp - average) > 15 * average,
              "DNBP_OUTLIER")
    ELSE {}

(* Everything calculation finds in one line.  averages has the 30-day      *)
(* average of each species something was published of.                     *)
Issues(l, c, tables, averages) ==
    IF Active(l)
    THEN ActiveLineIssues(l, c) \cup RunCrosscheck(l, tables) \cup HandSetIssues(l)
         \cup CheckDnbpOutlier(BingDnbp(l, c), Lookup(averages, l.species))
    ELSE LoadedLineIssues(l)

Blocking == {"NO_DNBP_FACTOR", "MISSING_SELL_PRICE"}

ActiveOnlyCodes ==
    Blocking \cup
    {"MISSING_LIVESTOCK_COST", "MISSING_AVG_WEIGHT", "RECEIVED_VALUE_MISMATCH",
     "RECEIVED_BENCHMARK_ABSENT", "NO_STANDARD_WEIGHT", "MARGIN_BUFFER_ERODED",
     "NEGATIVE_MARGIN", "DNBP_OUTLIER", "HAND_SET_VALUE"}

IsPublishable(found) == \A i \in found : i[1] \notin Blocking

-----------------------------------------------------------------------------
(* What a change of configuration does *)

PriceOrNone(l, c) ==
    IF l.price = None \/ ~HasFactor(l.species, c) THEN None
    ELSE ComputeBingDnbp(l.price, l.species, c)

ImpactOf(l, old, new) ==
    LET before == PriceOrNone(l, old)
        after  == PriceOrNone(l, new)
        delta  == IF Known({before, after}) THEN after - before ELSE None
    IN  [before |-> before, after |-> after, delta |-> delta,
         exposure |-> IF Known({delta, l.qty}) THEN delta * l.qty ELSE None]

(* lines is a function from the lines previewed, a finite set. *)
ComputeImpact(lines, old, new) ==
    LET result == [i \in DOMAIN lines |-> ImpactOf(lines[i], old, new)]
    IN  [lines |-> result,
         aggregate |-> MapThenSumSet(LAMBDA i : result[i].exposure,
                           {i \in DOMAIN lines : result[i].exposure # None}),
         affected |-> {i \in DOMAIN lines : result[i].delta \notin {None, 0}}]
=============================================================================
