---------------------- MODULE ReferenceVersions_proofs ----------------------
(***************************************************************************)
(* Theorems about the pricing engine, for every line and configuration:    *)
(* the facts the trading desk's modules assume of it.  And theorems about  *)
(* the versions of the reference data it is run under: one of them is      *)
(* active unless activations overlapped; what a calculation leaves is      *)
(* priced or blocked; and what a preview promised comes true.              *)
(***************************************************************************)
EXTENDS ReferenceVersions, FiniteSetTheorems, SequenceTheorems, TLAPS

-----------------------------------------------------------------------------
(* The engine.                                                             *)

LEMMA QuoteIsNumber ==
    ASSUME NEW l \in Line, NEW c, IsConfig(c)
    PROVE  BingDnbp(l, c) # None <=> HasFactor(l.species, c) /\ HasSellPrice(l)
<1>1. ASSUME HasFactor(l.species, c), HasSellPrice(l)
      PROVE  BingDnbp(l, c) \in Int
  <2>1. l.price \in Int /\ c.cif \in Int /\ c.factor[l.species] \in Int
    BY <1>1 DEF Line, Number, IsConfig, HasFactor, HasSellPrice
  <2>2. BingDnbp(l, c) = (l.price - c.cif) * c.factor[l.species]
    BY <1>1 DEF BingDnbp, ComputeBingDnbp
  <2> QED BY <2>1, <2>2
<1>2. ASSUME ~(HasFactor(l.species, c) /\ HasSellPrice(l))
      PROVE  BingDnbp(l, c) = None
  BY <1>2 DEF BingDnbp
<1> QED BY <1>1, <1>2, NoneAssumption

(* The only issues that block are the two of the pricing rules.            *)
LEMMA OthersDoNotBlock ==
    ASSUME NEW l, NEW c, NEW tables, NEW averages, Active(l),
           NEW i \in Issues(l, c, tables, averages), i[1] \in Blocking
    PROVE  \/ i[1] = "NO_DNBP_FACTOR" /\ ~HasFactor(l.species, c)
           \/ i[1] = "MISSING_SELL_PRICE" /\ ~HasSellPrice(l)
<1>1. \/ i \in ActiveLineIssues(l, c)
      \/ i \in RunCrosscheck(l, tables)
      \/ i \in HandSetIssues(l)
      \/ i \in CheckDnbpOutlier(BingDnbp(l, c), Lookup(averages, l.species))
  BY DEF Issues
<1>2. i \notin HandSetIssues(l)
  BY DEF HandSetIssues, Blocking
<1>3. i \notin CheckDnbpOutlier(BingDnbp(l, c), Lookup(averages, l.species))
  BY DEF CheckDnbpOutlier, When, Blocking
<1>4. \A column, received, n, d : i \notin Check(column, received, n, d)
  BY DEF Check, Blocking
<1>5. \A column, received, n, w : i \notin CheckPerHead(column, received, n, w)
  BY <1>4 DEF CheckPerHead
<1>6. \A condition : i \notin When(condition, "RECEIVED_BENCHMARK_ABSENT")
  BY DEF When, Blocking
<1>7. i \notin RunCrosscheck(l, tables)
  BY <1>4, <1>5, <1>6 DEF RunCrosscheck
<1>8. CASE i \in ActiveLineIssues(l, c)
  BY <1>8 DEF ActiveLineIssues, When, Blocking
<1> QED BY <1>1, <1>2, <1>3, <1>7, <1>8

(* An active line has no price exactly if an issue blocks its publication: *)
(* compute_order_workings (domain/engine/workings.py) leaves no line       *)
(* silently unpriced, and the publication gate refuses no priced line.     *)
THEOREM UnpricedIsBlocked ==
    ASSUME NEW l \in Line, NEW c, NEW tables, NEW averages,
           Active(l), IsConfig(c)
    PROVE  BingDnbp(l, c) = None <=> ~IsPublishable(Issues(l, c, tables, averages))
<1> DEFINE found == Issues(l, c, tables, averages)
<1>1. ASSUME BingDnbp(l, c) = None
      PROVE  ~IsPublishable(found)
  <2>1. ~HasFactor(l.species, c) \/ ~HasSellPrice(l)
    BY <1>1, QuoteIsNumber
  <2>2. CASE ~HasFactor(l.species, c)
    <3>1. <<"NO_DNBP_FACTOR", None>> \in ActiveLineIssues(l, c)
      BY <2>2 DEF ActiveLineIssues, When
    <3>2. <<"NO_DNBP_FACTOR", None>> \in found
      BY <3>1 DEF Issues
    <3> QED BY <3>2 DEF IsPublishable, Blocking
  <2>3. CASE ~HasSellPrice(l)
    <3>1. <<"MISSING_SELL_PRICE", None>> \in ActiveLineIssues(l, c)
      BY <2>3 DEF ActiveLineIssues, When
    <3>2. <<"MISSING_SELL_PRICE", None>> \in found
      BY <3>1 DEF Issues
    <3> QED BY <3>2 DEF IsPublishable, Blocking
  <2> QED BY <2>1, <2>2, <2>3
<1>2. ASSUME ~IsPublishable(found)
      PROVE  BingDnbp(l, c) = None
  <2>1. PICK i \in found : i[1] \in Blocking
    BY <1>2 DEF IsPublishable
  <2>2. ~HasFactor(l.species, c) \/ ~HasSellPrice(l)
    BY <2>1, OthersDoNotBlock
  <2> QED BY <2>2 DEF BingDnbp
<1> QED BY <1>1, <1>2

(* No pricing rule fires against a loaded line: its livestock is bought    *)
(* (ACTIVE_ONLY_CODES of domain/engine/issues.py).                         *)
THEOREM LoadedLinesAreLeftAlone ==
    ASSUME NEW l, NEW c, NEW tables, NEW averages, ~Active(l)
    PROVE  /\ IsPublishable(Issues(l, c, tables, averages))
           /\ \A i \in Issues(l, c, tables, averages) : i[1] \notin ActiveOnlyCodes
<1>1. ASSUME NEW i \in Issues(l, c, tables, averages)
      PROVE  i[1] \in {"LOADED_MISSING_LOADOUT_DATE",
                       "LOADED_MISSING_ACTUAL_COST", "LOADED_NEGATIVE_MARGIN"}
  BY DEF Issues, LoadedLineIssues, When
<1> QED BY <1>1 DEF IsPublishable, ActiveOnlyCodes, Blocking

(* Nothing but the price, the species, the buffer and the factor of the    *)
(* species can move the published number (domain/engine/dnbp.py).          *)
THEOREM OnlyThreeInputs ==
    ASSUME NEW l, NEW k, NEW c, NEW d,
           l.price = k.price, l.species = k.species, c.cif = d.cif,
           HasFactor(l.species, c) <=> HasFactor(l.species, d),
           HasFactor(l.species, c) => c.factor[l.species] = d.factor[l.species]
    PROVE  BingDnbp(l, c) = BingDnbp(k, d)
BY DEF BingDnbp, HasSellPrice, ComputeBingDnbp

(* What the impact preview computes for a line with a sell price is what   *)
(* calculation computes (domain/engine/impact.py, domain/engine/           *)
(* workings.py).                                                           *)
THEOREM PreviewAgrees ==
    ASSUME NEW l, NEW c, HasSellPrice(l) \/ l.price = None
    PROVE  PriceOrNone(l, c) = BingDnbp(l, c)
BY DEF PriceOrNone, BingDnbp, HasSellPrice

-----------------------------------------------------------------------------
(* The shape of what the engine returns.                                   *)

Row == [adjusted : Number, pack : Number, offal : Number, skin : Number,
        profitPeter : Number, dnbp : Number, factor : Number,
        profitDnbp : Number, overBenchmark : Number, overPeter : Number,
        complete : BOOLEAN]

LEMMA ProfitIsNumber ==
    ASSUME NEW l \in Line, NEW c, IsConfig(c), NEW paid \in Number
    PROVE  Profit(l, c, paid) \in Number
<1> DEFINE pack == Spread(l, c, l.pack)
           offal == Spread(l, c, l.offal)
           skin == Spread(l, c, l.skin)
           adjusted == AdjustedPrice(l, c)
<1>1. CASE Known({adjusted, paid, pack, offal, skin})
  <2>1. HasStandardWeight(l, c)
    BY <1>1 DEF Known, Spread
  <2>2. c.weight[l.species] \in Int
    BY <2>1 DEF HasStandardWeight, Lookup, IsConfig
  <2>3. l.pack \in Number /\ l.offal \in Number /\ l.skin \in Number /\ l.price \in Number
    BY DEF Line
  <2>4. pack \in Int /\ offal \in Int /\ skin \in Int
    BY <1>1, <2>1, <2>3 DEF Known, Spread, Number
  <2>5. adjusted \in Int
    BY <1>1, <2>3 DEF Known, AdjustedPrice, Number, IsConfig
  <2>6. paid \in Int /\ Unit \in Int
    BY <1>1, UnitAssumption DEF Known, Number
  <2>7. Profit(l, c, paid) =
           (Unit * adjusted - paid) * c.weight[l.species] + Unit * (offal + skin - pack)
    BY <1>1 DEF Profit
  <2> HIDE DEF pack, offal, skin, adjusted
  <2>8. Unit * adjusted - paid \in Int /\ Unit * (offal + skin - pack) \in Int
    BY <2>4, <2>5, <2>6
  <2>9. (Unit * adjusted - paid) * c.weight[l.species] \in Int
    BY <2>2, <2>8
  <2> QED BY <2>7, <2>8, <2>9 DEF Number
<1>2. CASE ~Known({adjusted, paid, pack, offal, skin})
  BY <1>2 DEF Profit, Number
<1> QED BY <1>1, <1>2

LEMMA QuoteIsTyped ==
    ASSUME NEW l \in Line, NEW c, IsConfig(c)
    PROVE  BingDnbp(l, c) \in Number
<1>1. CASE HasFactor(l.species, c) /\ HasSellPrice(l)
  <2>1. l.price \in Int /\ c.cif \in Int /\ c.factor[l.species] \in Int
    BY <1>1 DEF Line, Number, IsConfig, HasFactor, HasSellPrice
  <2>2. (l.price - c.cif) * c.factor[l.species] \in Int
    BY <2>1
  <2> QED BY <1>1, <2>2 DEF BingDnbp, ComputeBingDnbp, Number
<1>2. CASE ~(HasFactor(l.species, c) /\ HasSellPrice(l))
  BY <1>2 DEF BingDnbp, Number
<1> QED BY <1>1, <1>2

LEMMA WorkingsAreTyped ==
    ASSUME NEW l \in Line, NEW c, IsConfig(c)
    PROVE  Workings(l, c) \in Row
<1>1. /\ l.price \in Number /\ l.cost \in Number /\ l.pack \in Number
      /\ l.offal \in Number /\ l.skin \in Number /\ l.benchmark \in Number
  BY DEF Line
<1>2. AdjustedPrice(l, c) \in Number
  BY <1>1 DEF AdjustedPrice, Number, IsConfig
<1>3. \A x \in Number : Spread(l, c, x) \in Number
  BY DEF Spread, Number
<1>4. BingDnbp(l, c) \in Number
  BY QuoteIsTyped
<1>5. Unit \in Int
  BY UnitAssumption
<1>6. \A x \in Int : Unit * x \in Int
  BY <1>5
<1>7. ProfitOnBingDnbp(l, c) \in Number
  BY <1>4, ProfitIsNumber DEF ProfitOnBingDnbp
<1>8. ProfitOnPeterCosts(l, c) \in Number
  <2>1. (IF l.cost = None THEN None ELSE Unit * l.cost) \in Number
    BY <1>1, <1>6 DEF Number
  <2> QED BY <2>1, ProfitIsNumber DEF ProfitOnPeterCosts
<1>9. ASSUME NEW x \in Number
      PROVE  Above(l, c, x) \in Number
  <2>1. CASE Known({BingDnbp(l, c), x})
    <3>1. BingDnbp(l, c) \in Int /\ x \in Int
      BY <2>1, <1>4 DEF Known, Number
    <3>2. BingDnbp(l, c) - Unit * x \in Int
      BY <3>1, <1>6
    <3> QED BY <2>1, <3>2 DEF Above, Number
  <2>2. CASE ~Known({BingDnbp(l, c), x})
    BY <2>2 DEF Above, Number
  <2> QED BY <2>1, <2>2
<1>10. Lookup(c.factor, l.species) \in Number
  BY DEF Lookup, IsConfig, Number
<1>11. Known({ProfitOnBingDnbp(l, c), Above(l, c, l.cost)}) \in BOOLEAN
  BY DEF Known
<1>12. /\ Above(l, c, l.benchmark) \in Number /\ Above(l, c, l.cost) \in Number
       /\ Spread(l, c, l.pack) \in Number /\ Spread(l, c, l.offal) \in Number
       /\ Spread(l, c, l.skin) \in Number
  BY <1>1, <1>3, <1>9
<1> QED BY ONLY <1>2, <1>4, <1>7, <1>8, <1>10, <1>11, <1>12 DEF Workings, Row

(* A list of at most ten sets is a finite set of sets.                     *)
LEMMA TenAreFinite ==
    ASSUME NEW a, NEW b, NEW c, NEW d, NEW e, NEW f, NEW g, NEW h, NEW i, NEW j
    PROVE  IsFiniteSet({a, b, c, d, e, f, g, h, i, j})
<1> DEFINE S1 == {a} \cup {b}
           S2 == S1 \cup {c}
           S3 == S2 \cup {d}
           S4 == S3 \cup {e}
           S5 == S4 \cup {f}
           S6 == S5 \cup {g}
           S7 == S6 \cup {h}
           S8 == S7 \cup {i}
           S9 == S8 \cup {j}
<1>1. {a, b, c, d, e, f, g, h, i, j} = S9
  BY SMT
<1>2. \A S, x : IsFiniteSet(S) => IsFiniteSet(S \cup {x})
  BY FS_AddElement
<1>3. IsFiniteSet(S3)
  <2>1. IsFiniteSet(S1)
    BY <1>2, FS_Singleton
  <2> HIDE DEF S1
  <2>2. IsFiniteSet(S2)
    BY <1>2, <2>1
  <2> HIDE DEF S2
  <2> QED BY <1>2, <2>2
<1> HIDE DEF S3
<1>4. IsFiniteSet(S6)
  <2>1. IsFiniteSet(S4)
    BY <1>2, <1>3
  <2> HIDE DEF S4
  <2>2. IsFiniteSet(S5)
    BY <1>2, <2>1
  <2> HIDE DEF S5
  <2> QED BY <1>2, <2>2
<1> HIDE DEF S6
<1>5. IsFiniteSet(S9)
  <2>1. IsFiniteSet(S7)
    BY <1>2, <1>4
  <2> HIDE DEF S7
  <2>2. IsFiniteSet(S8)
    BY <1>2, <2>1
  <2> HIDE DEF S8
  <2> QED BY <1>2, <2>2
<1> HIDE DEF S9
<1> QED BY <1>1, <1>5

LEMMA TenUnitedAreFinite ==
    ASSUME NEW a, NEW b, NEW c, NEW d, NEW e, NEW f, NEW g, NEW h, NEW i, NEW j,
           IsFiniteSet(a), IsFiniteSet(b), IsFiniteSet(c), IsFiniteSet(d),
           IsFiniteSet(e), IsFiniteSet(f), IsFiniteSet(g), IsFiniteSet(h),
           IsFiniteSet(i), IsFiniteSet(j)
    PROVE  IsFiniteSet(UNION {a, b, c, d, e, f, g, h, i, j})
<1>1. IsFiniteSet({a, b, c, d, e, f, g, h, i, j})
  BY TenAreFinite
<1>2. \A T \in {a, b, c, d, e, f, g, h, i, j} : IsFiniteSet(T)
  OBVIOUS
<1> QED BY ONLY <1>1, <1>2, FS_UNION

(* What is found in one line is a finite set of issues, each rule finding  *)
(* at most one and each column being set by hand at most once.             *)
LEMMA IssuesAreFinite ==
    ASSUME NEW l \in Line, NEW c, NEW tables, NEW averages
    PROVE  IsFiniteSet(Issues(l, c, tables, averages))
<1>1. ASSUME NEW condition, NEW code
      PROVE  IsFiniteSet(When(condition, code))
  BY FS_EmptySet, FS_Singleton DEF When
<1>2. ASSUME NEW column, NEW received, NEW n, NEW d
      PROVE  IsFiniteSet(Check(column, received, n, d))
  <2>1. \/ Check(column, received, n, d) = {}
        \/ Check(column, received, n, d) = {<<"RECEIVED_VALUE_MISMATCH", column>>}
    BY SMT DEF Check
  <2> QED BY <2>1, FS_EmptySet, FS_Singleton
<1>3. ASSUME NEW column, NEW received, NEW n, NEW w
      PROVE  IsFiniteSet(CheckPerHead(column, received, n, w))
  BY <1>2 DEF CheckPerHead
<1>4. IsFiniteSet({})
  BY FS_EmptySet
<1>5. IsFiniteSet(ActiveLineIssues(l, c))
  <2> DEFINE A1 == When(~HasFactor(l.species, c), "NO_DNBP_FACTOR")
             A2 == When(~HasSellPrice(l), "MISSING_SELL_PRICE")
             A3 == When(l.cost = None, "MISSING_LIVESTOCK_COST")
             A4 == When(l.weight = None \/ l.weight <= 0, "MISSING_AVG_WEIGHT")
             A5 == When(~HasStandardWeight(l, c), "NO_STANDARD_WEIGHT")
             A6 == When(Negative(ProfitOnPeterCosts(l, c)), "NEGATIVE_MARGIN")
             A7 == When(Above(l, c, l.cost) # None /\ Above(l, c, l.cost) >= 0,
                        "MARGIN_BUFFER_ERODED")
  <2>1. /\ IsFiniteSet(A1) /\ IsFiniteSet(A2) /\ IsFiniteSet(A3) /\ IsFiniteSet(A4)
        /\ IsFiniteSet(A5) /\ IsFiniteSet(A6) /\ IsFiniteSet(A7)
    BY <1>1
  <2>2. ActiveLineIssues(l, c) = UNION {A1, A2, A3, A4, A5, A6, A7}
    BY DEF ActiveLineIssues
  <2> HIDE DEF A1, A2, A3, A4, A5, A6, A7
  <2>3. {A1, A2, A3, A4, A5, A6, A7} = {A1, A2, A3, A4, A5, A6, A7, A7, A7, A7}
    OBVIOUS
  <2>4. IsFiniteSet(UNION {A1, A2, A3, A4, A5, A6, A7, A7, A7, A7})
    BY ONLY <2>1, TenUnitedAreFinite
  <2> QED BY <2>2, <2>3, <2>4
<1>6. IsFiniteSet(LoadedLineIssues(l))
  <2> DEFINE B1 == When(l.loadout = None, "LOADED_MISSING_LOADOUT_DATE")
             B2 == When(l.cost = None, "LOADED_MISSING_ACTUAL_COST")
             B3 == When(Negative(l.mom), "LOADED_NEGATIVE_MARGIN")
  <2>1. IsFiniteSet(B1) /\ IsFiniteSet(B2) /\ IsFiniteSet(B3)
    BY <1>1
  <2>2. LoadedLineIssues(l) = UNION {B1, B2, B3}
    BY DEF LoadedLineIssues
  <2> HIDE DEF B1, B2, B3
  <2>3. {B1, B2, B3} = {B1, B2, B3, B3, B3, B3, B3, B3, B3, B3}
    OBVIOUS
  <2>4. IsFiniteSet(UNION {B1, B2, B3, B3, B3, B3, B3, B3, B3, B3})
    BY ONLY <2>1, TenUnitedAreFinite
  <2> QED BY <2>2, <2>3, <2>4
<1>7. IsFiniteSet(RunCrosscheck(l, tables))
  <2> DEFINE C1 == IF Known({l.price, l.incoterm})
                   THEN Check("K", l.nrv, ExpectedNrv(l, tables), 1) ELSE {}
             C2 == IF l.product # None
                   THEN Check("M", l.pack, Lookup(tables.pack, l.product), 1) ELSE {}
             C3 == IF l.species # None
                   THEN Check("N", l.offal, Lookup(tables.offal, l.species), 1) ELSE {}
             C4 == IF l.species # None /\ "skin" \notin l.handSet
                   THEN Check("O", l.skin, Lookup(tables.skin, l.species), 1) ELSE {}
             C5 == IF Known({l.nrv, l.cost, l.weight, l.offal, l.skin, l.pack})
                   THEN Check("Q", l.mom, ExpectedMom(l), 1) ELSE {}
             C6 == IF Known({l.qty, l.weight})
                   THEN CheckPerHead("U", l.heads, l.qty, l.weight) ELSE {}
             C7 == IF Known({l.cost, l.qty})
                   THEN Check("V", l.total, l.cost * l.qty, 1) ELSE {}
             C8 == When(l.benchmark = None, "RECEIVED_BENCHMARK_ABSENT")
             C9 == IF /\ l.method = "GAYAN_FIXED_COST"
                      /\ Known({l.benchmark, l.nrv, l.weight, l.pack, l.offal, l.skin})
                   THEN CheckPerHead("T", l.benchmark, ExpectedGayan(l, tables), l.weight)
                   ELSE {}
  <2>1. /\ IsFiniteSet(C1) /\ IsFiniteSet(C2) /\ IsFiniteSet(C3)
        /\ IsFiniteSet(C4) /\ IsFiniteSet(C5) /\ IsFiniteSet(C7)
    BY <1>2, <1>4
  <2>2. IsFiniteSet(C6) /\ IsFiniteSet(C9)
    BY <1>3, <1>4
  <2>3. IsFiniteSet(C8)
    BY <1>1
  <2>4. RunCrosscheck(l, tables) = UNION {C1, C2, C3, C4, C5, C6, C7, C8, C9}
    BY DEF RunCrosscheck
  <2> HIDE DEF C1, C2, C3, C4, C5, C6, C7, C8, C9
  <2>5. {C1, C2, C3, C4, C5, C6, C7, C8, C9} = {C1, C2, C3, C4, C5, C6, C7, C8, C9, C9}
    OBVIOUS
  <2>6. IsFiniteSet(UNION {C1, C2, C3, C4, C5, C6, C7, C8, C9, C9})
    BY ONLY <2>1, <2>2, <2>3, TenUnitedAreFinite
  <2> QED BY <2>4, <2>5, <2>6
<1>8. IsFiniteSet(HandSetIssues(l))
  <2> DEFINE H1 == IF "skin" \in l.handSet THEN {<<"HAND_SET_VALUE", "skin">>} ELSE {}
             H2 == IF "pack" \in l.handSet THEN {<<"HAND_SET_VALUE", "pack">>} ELSE {}
             H3 == IF "offal" \in l.handSet THEN {<<"HAND_SET_VALUE", "offal">>} ELSE {}
             H4 == IF "mom" \in l.handSet THEN {<<"HAND_SET_VALUE", "mom">>} ELSE {}
  <2>1. l.handSet \subseteq {"skin", "pack", "offal", "mom"}
    BY DEF Line
  <2>2. IsFiniteSet(H1) /\ IsFiniteSet(H2) /\ IsFiniteSet(H3) /\ IsFiniteSet(H4)
    BY <1>4, FS_Singleton
  <2>3. HandSetIssues(l) = ((H1 \cup H2) \cup H3) \cup H4
    BY <2>1 DEF HandSetIssues
  <2> HIDE DEF H1, H2, H3, H4
  <2>4. \A S, T : IsFiniteSet(S) /\ IsFiniteSet(T) => IsFiniteSet(S \cup T)
    BY FS_Union
  <2> QED BY ONLY <2>2, <2>3, <2>4
<1>9. IsFiniteSet(CheckDnbpOutlier(BingDnbp(l, c), Lookup(averages, l.species)))
  BY <1>1, <1>4 DEF CheckDnbpOutlier
<1>10. \A S, T : IsFiniteSet(S) /\ IsFiniteSet(T) => IsFiniteSet(S \cup T)
  BY FS_Union
<1>11. CASE Active(l)
  BY <1>5, <1>7, <1>8, <1>9, <1>10, <1>11 DEF Issues
<1>12. CASE ~Active(l)
  BY <1>6, <1>12 DEF Issues
<1> QED BY <1>11, <1>12

-----------------------------------------------------------------------------
(* Versions.                                                               *)

EntrySets == UNION {[K -> Int] : K \in SUBSET Keys}

Version == [entries : EntrySets, previewed : BOOLEAN, active : BOOLEAN]

(* What a version has to offer to a calculation: a buffer. *)
Computable(v, buffer) == v \in VersionIds /\ buffer \in Buffers(versions[v].entries)

VersionsAreTyped == versions \in Seq(Version) /\ Len(versions) > 0

LEMMA EntriesAreSets ==
    ASSUME NEW e
    PROVE  AreEntries(e) <=> e \in EntrySets
<1>1. ASSUME AreEntries(e) PROVE e \in EntrySets
  <2>1. e \in [DOMAIN e -> Int] /\ DOMAIN e \in SUBSET Keys
    BY <1>1 DEF AreEntries
  <2> QED BY <2>1 DEF EntrySets
<1>2. ASSUME e \in EntrySets PROVE AreEntries(e)
  <2>1. PICK K \in SUBSET Keys : e \in [K -> Int]
    BY <1>2 DEF EntrySets
  <2> QED BY <2>1 DEF AreEntries
<1> QED BY <1>1, <1>2

(* A configuration that has a buffer is one the engine can use.            *)
LEMMA ConfigIsConfig ==
    ASSUME NEW e \in EntrySets, NEW buffer \in Buffers(e)
    PROVE  IsConfig(ConfigOf(e, buffer))
<1>1. PICK K \in SUBSET Keys : e \in [K -> Int]
  BY DEF EntrySets
<1>2. ASSUME NEW table, NEW sp \in DOMAIN Section(e, table)
      PROVE  Section(e, table)[sp] \in Int
  <2>1. PICK k \in DOMAIN e : k[1] = table /\ k[2] = sp
    BY DEF Section
  <2>2. k = <<table, sp>>
    BY <2>1, <1>1, KeysAssumption
  <2> QED BY <2>1, <2>2, <1>1 DEF Section
<1>3. buffer \in Int
  BY <1>1 DEF Buffers
<1> QED BY <1>2, <1>3 DEF IsConfig, ConfigOf

LEMMA OverlayIsTyped ==
    ASSUME NEW e \in EntrySets, NEW d \in EntrySets
    PROVE  Overlaid(e, d) \in EntrySets
<1>1. PICK J \in SUBSET Keys : e \in [J -> Int]
  BY DEF EntrySets
<1>2. PICK K \in SUBSET Keys : d \in [K -> Int]
  BY DEF EntrySets
<1>3. Overlaid(e, d) \in [J \cup K -> Int]
  BY <1>1, <1>2 DEF Overlaid
<1> QED BY <1>3 DEF EntrySets

(* A version keeps its entries for good, and none disappears.              *)
EntriesStay ==
    \A v \in VersionIds : v \in VersionIds' /\ versions'[v].entries = versions[v].entries

LEMMA VersionsStay ==
    ASSUME VersionsAreTyped, [Next]_vars
    PROVE  VersionsAreTyped' /\ EntriesStay
<1> USE DEF VersionsAreTyped
<1>1. /\ versions \in [1..Len(versions) -> Version] /\ Len(versions) \in Nat
      /\ VersionIds = 1..Len(versions)
  BY LenProperties DEF VersionIds
<1>2. CASE Create
  <2> DEFINE new == [entries |-> Merged(Asked[Len(versions)]), previewed |-> FALSE,
                     active |-> FALSE]
  <2>1. Asked[Len(versions)] \in EntrySets
    BY <1>1, <1>2, EntriesAssumption, EntriesAreSets DEF Create
  <2>2. Merged(Asked[Len(versions)]) \in EntrySets
    <3>1. CASE ActiveId = 0
      BY <3>1, <2>1 DEF Merged
    <3>2. CASE ActiveId # 0
      <4>1. ActiveId \in VersionIds
        BY <3>2 DEF ActiveId, ActiveIds
      <4>2. versions[ActiveId].entries \in EntrySets
        BY <4>1, <1>1 DEF Version
      <4> QED BY <3>2, <4>2, <2>1, OverlayIsTyped DEF Merged
    <3> QED BY <3>1, <3>2
  <2>3. new \in Version
    BY <2>2 DEF Version
  <2>4. versions' = Append(versions, new)
    BY <1>2 DEF Create
  <2> HIDE DEF new
  <2>5. /\ versions' \in Seq(Version) /\ Len(versions') = Len(versions) + 1
        /\ \A i \in 1..Len(versions) : versions'[i] = versions[i]
    BY <2>3, <2>4, AppendProperties
  <2>6. DOMAIN versions' = 1..Len(versions')
    BY <2>5, LenProperties
  <2> QED BY <2>5, <2>6, <1>1 DEF EntriesStay, VersionIds
<1>3. ASSUME NEW v \in VersionIds, Preview(v)
      PROVE  VersionsAreTyped' /\ EntriesStay
  <2> DEFINE new == [versions[v] EXCEPT !.previewed = TRUE]
  <2>1. new \in Version /\ new.entries = versions[v].entries
    BY <1>1 DEF Version
  <2>2. versions' = [versions EXCEPT ![v] = new]
    BY <1>3 DEF Preview
  <2> HIDE DEF new
  <2>3. versions' \in Seq(Version) /\ Len(versions') = Len(versions)
    BY <2>1, <2>2, <1>1, ExceptSeq
  <2>4. DOMAIN versions' = DOMAIN versions
    BY <2>2
  <2> QED BY <2>1, <2>2, <2>3, <2>4, <1>1 DEF EntriesStay, VersionIds
<1>4. ASSUME NEW a \in Admins, CommitActivate(a)
      PROVE  VersionsAreTyped' /\ EntriesStay
  <2>1. versions' = [v \in VersionIds |->
                       [versions[v] EXCEPT !.active = Flipped(request[a], v)]]
    BY <1>4 DEF CommitActivate
  <2>2. \A v \in VersionIds : Flipped(request[a], v) \in BOOLEAN
    BY <1>1 DEF Flipped, Version
  <2>3. ASSUME NEW v \in VersionIds
        PROVE  versions'[v] \in Version /\ versions'[v].entries = versions[v].entries
    BY <2>1, <2>2, <1>1 DEF Version
  <2>4. versions' \in [1..Len(versions) -> Version]
    BY <2>1, <2>3, <1>1
  <2>5. versions' \in Seq(Version) /\ Len(versions') = Len(versions)
    BY <2>4, <1>1
  <2> QED BY <2>1, <2>3, <2>5, <1>1 DEF EntriesStay, VersionIds
<1>5. CASE UNCHANGED versions
  BY <1>5 DEF EntriesStay, VersionIds
<1> QED
  BY <1>2, <1>3, <1>4, <1>5
     DEF Next, vars, BeginActivate, ReadPrevious, Fail, BeginCalculate, CommitCalculate

LEMMA FirstVersions == Init => VersionsAreTyped
<1> SUFFICES ASSUME Init PROVE VersionsAreTyped
  OBVIOUS
<1>1. [entries |-> Seed, previewed |-> TRUE, active |-> TRUE] \in Version
  BY EntriesAssumption, EntriesAreSets DEF Version
<1> QED BY <1>1 DEF Init, VersionsAreTyped

-----------------------------------------------------------------------------
(* Activation.                                                             *)

Load == [job : {"load"}, version : Nat, loaded : BOOLEAN, crossed : BOOLEAN]
Flip == [job : {"flip"}, version : Nat, loaded : BOOLEAN, crossed : BOOLEAN, previous : Nat]

RequestsAreTyped ==
    /\ request \in [Admins -> {Idle} \cup Load \cup Flip]
    /\ raced \in BOOLEAN
    /\ activated \in VersionIds

(* What a request in flight has read is still so, unless an activation was *)
(* committed since.                                                        *)
ReadsAreFresh ==
    \A a \in Admins :
        request[a].job # "idle" =>
            /\ request[a].version \in VersionIds
            /\ ~request[a].crossed =>
                   /\ ActiveIsReadable
                   /\ request[a].loaded = versions[request[a].version].active
                   /\ request[a].job = "flip" => request[a].previous = ActiveId

Activating ==
    /\ VersionsAreTyped
    /\ RequestsAreTyped
    /\ ReadsAreFresh
    /\ OneActiveVersion

(* Only a commit changes which versions are active.                        *)
LEMMA OnlyCommitsActivate ==
    ASSUME VersionsAreTyped, [Next]_vars, \A a \in Admins : ~CommitActivate(a)
    PROVE  /\ ActiveIds' = ActiveIds
           /\ ActiveId' = ActiveId
           /\ ActiveIsReadable' <=> ActiveIsReadable
           /\ \A v \in VersionIds :
                  v \in VersionIds' /\ versions'[v].active = versions[v].active
<1>1. /\ versions \in [1..Len(versions) -> Version] /\ Len(versions) \in Nat
      /\ VersionIds = 1..Len(versions)
  BY LenProperties DEF VersionIds, VersionsAreTyped
<1>2. VersionsAreTyped' /\ EntriesStay
  BY VersionsStay
<1>3. VersionIds \subseteq VersionIds'
  BY <1>2 DEF EntriesStay
<1>4. /\ \A v \in VersionIds : versions'[v].active = versions[v].active
      /\ \A v \in VersionIds' \ VersionIds : ~versions'[v].active
  <2>1. CASE Create
    <3> DEFINE new == [entries |-> Merged(Asked[Len(versions)]), previewed |-> FALSE,
                       active |-> FALSE]
    <3>1. versions' = Append(versions, new)
      BY <2>1 DEF Create
    <3>2. ~new.active
      OBVIOUS
    <3> HIDE DEF new
    <3>3. /\ DOMAIN versions' = 1..(Len(versions) + 1)
          /\ \A i \in 1..Len(versions) : versions'[i] = versions[i]
          /\ versions'[Len(versions) + 1] = new
      BY <3>1, <1>1
    <3> QED BY <3>2, <3>3, <1>1 DEF VersionIds
  <2>2. ASSUME NEW v \in VersionIds, Preview(v)
        PROVE  /\ \A u \in VersionIds : versions'[u].active = versions[u].active
               /\ VersionIds' = VersionIds
    BY <2>2, <1>1 DEF Preview, VersionIds, Version
  <2>3. CASE UNCHANGED versions
    BY <2>3 DEF VersionIds
  <2> QED
    BY <2>1, <2>2, <2>3
       DEF Next, vars, BeginActivate, ReadPrevious, Fail, BeginCalculate, CommitCalculate
<1>5. ActiveIds' = ActiveIds
  BY <1>3, <1>4 DEF ActiveIds
<1> QED
  BY <1>3, <1>4, <1>5 DEF ActiveId, ActiveIsReadable

LEMMA ActivatingHolds ==
    ASSUME Activating, [Next]_vars
    PROVE  Activating'
<1> USE DEF Activating
<1>1. VersionsAreTyped' /\ EntriesStay
  BY VersionsStay
<1>2. VersionIds \subseteq Nat /\ 0 \notin VersionIds /\ ActiveId \in Nat
      /\ \A v \in VersionIds : versions[v] \in Version
  <2>1. /\ versions \in [1..Len(versions) -> Version] /\ Len(versions) \in Nat
        /\ VersionIds = 1..Len(versions)
    BY LenProperties DEF VersionIds, VersionsAreTyped
  <2> QED BY <2>1 DEF ActiveId, ActiveIds, Version
<1>3. VersionIds \subseteq VersionIds'
  BY <1>1 DEF EntriesStay
<1>4. ASSUME NEW a \in Admins, CommitActivate(a)
      PROVE  Activating'
  <2> DEFINE rq == request[a]
  <2>1. rq \in Flip /\ rq.job = "flip"
    BY <1>4 DEF CommitActivate, RequestsAreTyped, Load, Flip, Idle
  <2>2. /\ activated' = rq.version
        /\ raced' = rq.crossed
        /\ versions' = [v \in VersionIds |-> [versions[v] EXCEPT !.active = Flipped(rq, v)]]
        /\ request' = [b \in Admins |->
               IF b = a \/ request[b] = Idle THEN Idle
               ELSE [request[b] EXCEPT !.crossed = TRUE]]
    BY <1>4 DEF CommitActivate
  <2>3. rq.version \in VersionIds
    BY <2>1 DEF ReadsAreFresh
  <2>4. RequestsAreTyped'
    <3>1. ASSUME NEW b \in Admins
          PROVE  request'[b] \in {Idle} \cup Load \cup Flip
      BY <2>2 DEF RequestsAreTyped, Load, Flip
    <3> QED BY <3>1, <2>1, <2>2, <2>3, <1>3 DEF RequestsAreTyped, Flip
  <2>5. ReadsAreFresh'
    <3>1. ASSUME NEW b \in Admins, request'[b].job # "idle"
          PROVE  request'[b].version = request[b].version /\ request[b].job # "idle"
                 /\ request'[b].crossed = TRUE
      BY <3>1, <2>2 DEF RequestsAreTyped, Load, Flip, Idle
    <3> QED BY <3>1, <1>3 DEF ReadsAreFresh
  <2>6. OneActiveVersion'
    <3> SUFFICES ASSUME ~raced' PROVE ActiveIds' = {rq.version}
      BY <2>2 DEF OneActiveVersion
    <3>1. ~rq.crossed
      BY <2>2
    <3>2. /\ rq.loaded = versions[rq.version].active /\ rq.previous = ActiveId
          /\ ActiveIsReadable
      BY <2>1, <3>1 DEF ReadsAreFresh
    <3>3. VersionIds' = VersionIds
      BY <2>2 DEF VersionIds
    <3>4. \A v \in VersionIds : versions'[v].active = Flipped(rq, v)
      BY <2>2, <1>2 DEF Version
    <3>5. ASSUME NEW v \in VersionIds
          PROVE  Flipped(rq, v) <=> v = rq.version
      <4>1. versions[v].active \in BOOLEAN
        BY <1>2 DEF Version
      <4>2. CASE v = rq.version
        <5>1. Flipped(rq, v) = (versions[v].active \/ ~rq.loaded)
          BY <4>2 DEF Flipped
        <5>2. rq.loaded = versions[v].active
          BY <4>2, <3>2
        <5> HIDE DEF rq
        <5> QED BY <4>2, <5>1, <5>2
      <4>3. CASE v # rq.version /\ v \in ActiveIds
        <5>1. ActiveId = v
          BY <4>3, <3>2 DEF ActiveIsReadable, ActiveId
        <5> QED BY <4>3, <5>1, <3>2 DEF Flipped
      <4>4. CASE v # rq.version /\ v \notin ActiveIds
        BY <4>4 DEF Flipped, ActiveIds
      <4> QED BY <4>2, <4>3, <4>4
    <3> QED BY <3>3, <3>4, <3>5, <2>3 DEF ActiveIds
  <2> QED BY <1>1, <2>4, <2>5, <2>6
<1>5. CASE \A a \in Admins : ~CommitActivate(a)
  <2>1. /\ ActiveIds' = ActiveIds /\ ActiveId' = ActiveId
        /\ ActiveIsReadable' <=> ActiveIsReadable
        /\ \A v \in VersionIds :
               v \in VersionIds' /\ versions'[v].active = versions[v].active
    BY <1>5, OnlyCommitsActivate
  <2>2. UNCHANGED <<activated, raced>>
    BY <1>5 DEF Next, vars, Create, Preview, BeginActivate, ReadPrevious, Fail,
                BeginCalculate, CommitCalculate
  <2>3. OneActiveVersion'
    BY <2>1, <2>2 DEF OneActiveVersion
  <2>4. ASSUME NEW a \in Admins, NEW v \in VersionIds, BeginActivate(a, v)
        PROVE  RequestsAreTyped' /\ ReadsAreFresh'
    <3> DEFINE new == [job |-> "load", version |-> v, loaded |-> versions[v].active,
                       crossed |-> FALSE]
    <3>1. request' = [request EXCEPT ![a] = new]
      BY <2>4 DEF BeginActivate
    <3>2. new \in Load
      <4>1. v \in Nat /\ versions[v].active \in BOOLEAN
        BY <1>2 DEF Version
      <4> QED BY <4>1 DEF Load
    <3>3. RequestsAreTyped'
      BY <3>1, <3>2, <2>2, <1>3 DEF RequestsAreTyped
    <3>4. ReadsAreFresh'
      BY <3>1, <2>1, <2>4 DEF ReadsAreFresh, RequestsAreTyped, BeginActivate
    <3> QED BY <3>3, <3>4
  <2>5. ASSUME NEW a \in Admins, ReadPrevious(a)
        PROVE  RequestsAreTyped' /\ ReadsAreFresh'
    <3> DEFINE new == [job |-> "flip", version |-> request[a].version,
                       loaded |-> request[a].loaded, crossed |-> request[a].crossed,
                       previous |-> ActiveId]
    <3>1. request' = [request EXCEPT ![a] = new] /\ request[a].job = "load"
      BY <2>5 DEF ReadPrevious, RequestsAreTyped
    <3>2. new \in Flip
      BY <3>1, <1>2 DEF RequestsAreTyped, Load, Flip, Idle
    <3>3. RequestsAreTyped'
      BY <3>1, <3>2, <2>2, <1>3 DEF RequestsAreTyped
    <3>4. ReadsAreFresh'
      BY <3>1, <2>1 DEF ReadsAreFresh, RequestsAreTyped
    <3> QED BY <3>3, <3>4
  <2>6. ASSUME NEW a \in Admins, Fail(a)
        PROVE  RequestsAreTyped' /\ ReadsAreFresh'
    <3>1. request' = [request EXCEPT ![a] = Idle]
      BY <2>6 DEF Fail
    <3>2. RequestsAreTyped'
      BY <3>1, <2>2, <1>3 DEF RequestsAreTyped
    <3>3. ReadsAreFresh'
      BY <3>1, <2>1 DEF ReadsAreFresh, RequestsAreTyped, Idle
    <3> QED BY <3>2, <3>3
  <2>7. ASSUME UNCHANGED request
        PROVE  RequestsAreTyped' /\ ReadsAreFresh'
    <3>1. RequestsAreTyped'
      BY <2>7, <2>2, <1>3 DEF RequestsAreTyped
    <3>2. ReadsAreFresh'
      BY <2>7, <2>1 DEF ReadsAreFresh
    <3> QED BY <3>1, <3>2
  <2> QED
    BY <1>1, <1>5, <2>3, <2>4, <2>5, <2>6, <2>7
       DEF Next, vars, Create, Preview, BeginCalculate, CommitCalculate
<1> QED BY <1>4, <1>5

LEMMA FirstActivating == Init => Activating
<1> SUFFICES ASSUME Init PROVE Activating
  OBVIOUS
<1>1. VersionIds = {1} /\ versions[1].active
  BY DEF Init, VersionIds
<1>2. ActiveIds = {1}
  BY <1>1 DEF ActiveIds
<1>3. RequestsAreTyped /\ ReadsAreFresh
  BY <1>1 DEF Init, RequestsAreTyped, ReadsAreFresh, Idle
<1> QED BY <1>2, <1>3, FirstVersions DEF Activating, OneActiveVersion, Init

(* One version is active, the last one activated, unless another           *)
(* activation was committed while that one was in flight, for any number   *)
(* of versions and of requests (activate).                                 *)
THEOREM OneActiveHolds == Spec => []OneActiveVersion
<1>1. Init => Activating
  BY FirstActivating
<1>2. Activating /\ [Next]_vars => Activating'
  BY ActivatingHolds
<1>3. Activating => OneActiveVersion
  BY DEF Activating
<1> QED BY <1>1, <1>2, <1>3, PTL DEF Spec

-----------------------------------------------------------------------------
(* Calculation and preview.                                                *)

CalcIsTyped == calc # Idle => Computable(calc.version, calc.buffer)

(* The table as one run over all lines has left it. *)
ComputedUnder(v, buffer, averages) ==
    /\ Computable(v, buffer)
    /\ \A i \in Lines :
           /\ workings[i] = ComputedRow(i, [version |-> v, buffer |-> buffer])
           /\ issues[i] = Issues(Book[i], ConfigOf(versions[v].entries, buffer), Tables,
                                averages)

NothingComputed == \A i \in Lines : workings[i] = None /\ issues[i] = {}

OneRun ==
    \/ NothingComputed
    \/ \E v, buffer : \E averages \in Averages : ComputedUnder(v, buffer, averages)

PreviewsExist ==
    \A p \in previews :
        /\ p.version \in VersionIds
        /\ Computable(p.base, p.old)
        /\ p.new \in PreviewBuffers(versions[p.version].entries, p.old)

Calculating ==
    /\ VersionsAreTyped
    /\ CalcIsTyped
    /\ OneRun
    /\ PreviewsExist

LEMMA ComputableStays ==
    ASSUME EntriesStay, NEW v, NEW buffer, Computable(v, buffer)
    PROVE  Computable(v, buffer)'
BY DEF Computable, EntriesStay

LEMMA ReadIsComputable ==
    ASSUME NEW buffer \in ActiveBuffers
    PROVE  Computable(ActiveId, buffer)
BY DEF ActiveBuffers, Computable, ActiveId, ActiveIds

(* What was computed stays computed while versions come and go.            *)
LEMMA RunsStay ==
    ASSUME EntriesStay, OneRun, UNCHANGED <<workings, issues>>
    PROVE  OneRun'
<1>1. CASE NothingComputed
  BY <1>1 DEF OneRun, NothingComputed
<1>2. ASSUME NEW v, NEW buffer, NEW averages \in Averages, ComputedUnder(v, buffer, averages)
      PROVE  OneRun'
  <2>1. Computable(v, buffer)' /\ versions'[v].entries = versions[v].entries
    BY <1>2, ComputableStays DEF ComputedUnder, Computable, EntriesStay
  <2>2. \A i \in Lines : ComputedRow(i, [version |-> v, buffer |-> buffer])'
                        = ComputedRow(i, [version |-> v, buffer |-> buffer])
    BY <2>1 DEF ComputedRow, RunConfig
  <2>3. ComputedUnder(v, buffer, averages)'
    BY <1>2, <2>1, <2>2 DEF ComputedUnder
  <2> QED BY <2>3 DEF OneRun
<1> QED BY <1>1, <1>2 DEF OneRun

LEMMA CalculatingHolds ==
    ASSUME Calculating, [Next]_vars
    PROVE  Calculating'
<1> USE DEF Calculating
<1>1. VersionsAreTyped' /\ EntriesStay
  BY VersionsStay
<1>2. ASSUME NEW averages \in Averages, CommitCalculate(averages)
      PROVE  Calculating'
  <2> PICK v, buffer : v = calc.version /\ buffer = calc.buffer
    OBVIOUS
  <2>1. Computable(v, buffer)
    BY <1>2 DEF CommitCalculate, CalcIsTyped
  <2>2. /\ workings' = [i \in Lines |-> ComputedRow(i, calc)]
        /\ issues' = [i \in Lines |->
               Issues(Book[i], ConfigOf(versions[v].entries, buffer), Tables, averages)]
        /\ calc' = Idle
        /\ UNCHANGED <<versions, previews>>
    BY <1>2 DEF CommitCalculate, RunConfig
  <2>3. \A i \in Lines : ComputedRow(i, calc)
                        = ComputedRow(i, [version |-> v, buffer |-> buffer])
    BY DEF ComputedRow, RunConfig
  <2>4. \A i \in Lines : ComputedRow(i, [version |-> v, buffer |-> buffer])'
                        = ComputedRow(i, [version |-> v, buffer |-> buffer])
    BY <2>2 DEF ComputedRow, RunConfig
  <2>5. Computable(v, buffer)'
    BY <2>1, <2>2 DEF Computable, VersionIds
  <2>6. ComputedUnder(v, buffer, averages)'
    BY <2>2, <2>3, <2>4, <2>5 DEF ComputedUnder
  <2>7. OneRun'
    BY <2>6 DEF OneRun
  <2>8. PreviewsExist'
    BY <2>2 DEF PreviewsExist, Computable, VersionIds
  <2> QED BY <1>1, <2>2, <2>7, <2>8 DEF CalcIsTyped
<1>3. ASSUME \A averages \in Averages : ~CommitCalculate(averages)
      PROVE  Calculating'
  <2>1. UNCHANGED <<workings, issues>>
    BY <1>3 DEF Next, vars, Create, Preview, BeginActivate, ReadPrevious, CommitActivate,
                Fail, BeginCalculate
  <2>2. OneRun'
    BY <1>1, <2>1, RunsStay
  <2>3. CalcIsTyped'
    <3>1. CASE BeginCalculate
      <4>1. PICK buffer \in ActiveBuffers :
                calc' = [job |-> "calculate", version |-> ActiveId, buffer |-> buffer]
        BY <3>1 DEF BeginCalculate
      <4>2. Computable(ActiveId, buffer)
        BY ReadIsComputable
      <4>3. ASSUME NEW u, u = ActiveId
            PROVE  Computable(u, buffer)'
        BY <1>1, <4>2, <4>3, ComputableStays
      <4> QED BY <4>1, <4>3 DEF CalcIsTyped
    <3>2. ASSUME UNCHANGED calc
          PROVE  CalcIsTyped'
      <4>1. \A v, buffer : Computable(v, buffer) => Computable(v, buffer)'
        BY <1>1, ComputableStays
      <4> QED BY <3>2, <4>1 DEF CalcIsTyped
    <3> QED
      BY <1>3, <3>1, <3>2 DEF Next, vars, Create, Preview, BeginActivate, ReadPrevious,
                CommitActivate, Fail
  <2>4. PreviewsExist'
    <3> DEFINE Exists(p) == /\ p.version \in VersionIds
                            /\ Computable(p.base, p.old)
                            /\ p.new \in PreviewBuffers(versions[p.version].entries, p.old)
    <3>1. ASSUME NEW p, Exists(p)
          PROVE  Exists(p)'
      <4>1. Computable(p.base, p.old)'
        BY <3>1, <1>1, ComputableStays
      <4>2. p.version \in VersionIds' /\ versions'[p.version].entries = versions[p.version].entries
        BY <3>1, <1>1 DEF EntriesStay
      <4> QED BY <3>1, <4>1, <4>2
    <3>2. ASSUME NEW v \in VersionIds, Preview(v)
          PROVE  PreviewsExist'
      <4>1. PICK old \in ActiveBuffers : \E new \in PreviewBuffers(versions[v].entries, old) :
                \/ previews' = previews
                \/ previews' = previews \cup
                       {[version |-> v, base |-> ActiveId, old |-> old, new |-> new]}
        BY <3>2 DEF Preview
      <4> PICK new \in PreviewBuffers(versions[v].entries, old) :
                \/ previews' = previews
                \/ previews' = previews \cup
                       {[version |-> v, base |-> ActiveId, old |-> old, new |-> new]}
        BY <4>1
      <4> DEFINE note == [version |-> v, base |-> ActiveId, old |-> old, new |-> new]
      <4>2. Exists(note)
        BY ReadIsComputable
      <4> HIDE DEF note
      <4>3. ASSUME NEW p, p = note
            PROVE  Exists(p)'
        <5>1. Exists(p)
          BY <4>2, <4>3
        <5> HIDE DEF Exists
        <5> QED BY <3>1, <5>1
      <4>4. \A p \in previews : Exists(p)'
        BY <3>1 DEF PreviewsExist
      <4>5. \A p \in previews' : p \in previews \/ p = note
        BY <4>1 DEF note
      <4> QED BY <4>3, <4>4, <4>5 DEF PreviewsExist
    <3>3. ASSUME UNCHANGED previews
          PROVE  PreviewsExist'
      BY <3>1, <3>3 DEF PreviewsExist
    <3> HIDE DEF Exists
    <3> QED
      BY <1>3, <3>2, <3>3 DEF Next, vars, Create, BeginActivate, ReadPrevious,
                CommitActivate, Fail, BeginCalculate
  <2> QED BY <1>1, <2>2, <2>3, <2>4
<1> QED BY <1>2, <1>3

LEMMA FirstCalculating == Init => Calculating
<1> SUFFICES ASSUME Init PROVE Calculating
  OBVIOUS
<1> QED
  BY FirstVersions DEF Calculating, Init, CalcIsTyped, OneRun, NothingComputed, PreviewsExist

LEMMA PriceOfRow ==
    \A l, c : Workings(l, c).dnbp = BingDnbp(l, c)
BY DEF Workings

(* The configuration of a version that can be computed under is one, and   *)
(* what a run leaves of a line follows from the line and that.             *)
LEMMA RowOfRun ==
    ASSUME VersionsAreTyped, NEW v, NEW buffer, NEW averages,
           ComputedUnder(v, buffer, averages), NEW i \in Lines
    PROVE  /\ v \in VersionIds
           /\ IsConfig(ConfigOf(versions[v].entries, buffer))
           /\ Book[i] \in Line
           /\ Active(Book[i]) =>
                  workings[i] = [by |-> v,
                      row |-> Workings(Book[i], ConfigOf(versions[v].entries, buffer))]
           /\ ~Active(Book[i]) => workings[i] = None
<1>1. v \in VersionIds /\ versions[v].entries \in EntrySets
      /\ buffer \in Buffers(versions[v].entries)
  <2>1. v \in 1..Len(versions) /\ buffer \in Buffers(versions[v].entries)
    BY LenProperties DEF ComputedUnder, Computable, VersionIds, VersionsAreTyped
  <2>2. versions[v] \in Version
    BY <2>1, ElementOfSeq DEF VersionsAreTyped
  <2> QED BY <2>1, <2>2 DEF Version, ComputedUnder, Computable
<1>2. IsConfig(ConfigOf(versions[v].entries, buffer))
  BY <1>1, ConfigIsConfig
<1>3. Book[i] \in Line
  BY BookAssumption DEF Lines
<1>4. workings[i] = ComputedRow(i, [version |-> v, buffer |-> buffer])
  BY DEF ComputedUnder
<1> QED BY <1>1, <1>2, <1>3, <1>4 DEF ComputedRow, RunConfig

(* After a calculation each active line has a price or an issue that       *)
(* blocks, not both, and a loaded line has neither; and the price follows  *)
(* from the price received, the species and the version: for every book,   *)
(* configuration and history of versions (calculate_snapshot).             *)
THEOREM PricedOrBlockedHolds == Spec => []PricedOrBlocked
<1>1. Init => Calculating
  BY FirstCalculating
<1>2. Calculating /\ [Next]_vars => Calculating'
  BY CalculatingHolds
<1>3. Calculating => PricedOrBlocked
  <2> SUFFICES ASSUME Calculating PROVE PricedOrBlocked
    OBVIOUS
  <2>1. CASE NothingComputed
    BY <2>1 DEF NothingComputed, PricedOrBlocked
  <2>2. ASSUME NEW v, NEW buffer, NEW averages \in Averages,
               ComputedUnder(v, buffer, averages)
        PROVE  PricedOrBlocked
    <3> DEFINE c == ConfigOf(versions[v].entries, buffer)
    <3>1. ASSUME NEW i \in Lines
          PROVE  /\ IsConfig(c) /\ Book[i] \in Line
                 /\ Active(Book[i]) => workings[i].row.dnbp = BingDnbp(Book[i], c)
                 /\ ~Active(Book[i]) => workings[i] = None
                 /\ issues[i] = Issues(Book[i], c, Tables, averages)
      <4>1. /\ IsConfig(c) /\ Book[i] \in Line
            /\ Active(Book[i]) => workings[i] = [by |-> v, row |-> Workings(Book[i], c)]
            /\ ~Active(Book[i]) => workings[i] = None
        BY <2>2, RowOfRun DEF Calculating
      <4>2. issues[i] = Issues(Book[i], c, Tables, averages)
        BY <2>2 DEF ComputedUnder
      <4> HIDE DEF c
      <4> QED BY <4>1, <4>2, PriceOfRow
    <3> HIDE DEF c
    <3>2. ASSUME NEW i \in Lines, workings[i] # None
          PROVE  workings[i].row.dnbp = None <=> ~IsPublishable(issues[i])
      BY <3>1, <3>2, UnpricedIsBlocked
    <3>3. ASSUME NEW i \in Lines, ~Active(Book[i]), NEW x \in issues[i]
          PROVE  x[1] \notin ActiveOnlyCodes
      BY <3>1, <3>3, LoadedLinesAreLeftAlone
    <3>4. ASSUME NEW i \in Lines, NEW j \in Lines, workings[i] # None, workings[j] # None,
                 Book[j].price = Book[i].price, Book[j].species = Book[i].species
          PROVE  workings[j].row.dnbp = workings[i].row.dnbp
      <4>1. BingDnbp(Book[j], c) = BingDnbp(Book[i], c)
        BY <3>4 DEF BingDnbp, HasSellPrice, ComputeBingDnbp
      <4> QED BY <3>1, <3>4, <4>1
    <3> QED BY <3>2, <3>3, <3>4 DEF PricedOrBlocked
  <2> QED BY <2>1, <2>2 DEF Calculating, OneRun
<1> QED BY <1>1, <1>2, <1>3, PTL DEF Spec

(* What a preview says of a line with a sell price, or with none, is what  *)
(* a calculation under the same version gives, however much later          *)
(* (preview_impact, calculate_snapshot).                                   *)
THEOREM ImpactHolds == Spec => []ImpactIsWhatHappens
<1>1. Init => Calculating
  BY FirstCalculating
<1>2. Calculating /\ [Next]_vars => Calculating'
  BY CalculatingHolds
<1>3. Calculating => ImpactIsWhatHappens
  <2> SUFFICES ASSUME Calculating,
                      NEW p \in previews, NEW i \in DOMAIN Previewed,
                      workings[i] # None,
                      Book[i].price # None => HasSellPrice(Book[i])
               PROVE  /\ workings[i].by = p.version /\ OneBuffer(p.version)
                           => workings[i].row.dnbp = Answer(p).lines[i].after
                      /\ workings[i].by = p.base /\ OneBuffer(p.base)
                           => workings[i].row.dnbp = Answer(p).lines[i].before
    BY DEF ImpactIsWhatHappens
  <2>1. i \in Lines /\ Active(Book[i]) /\ Previewed[i] = Book[i]
    BY DEF Previewed
  <2>2. PICK v, buffer : \E averages \in Averages : ComputedUnder(v, buffer, averages)
    BY <2>1 DEF Calculating, OneRun, NothingComputed
  <2>3. /\ workings[i].by = v
        /\ workings[i].row.dnbp = BingDnbp(Book[i], ConfigOf(versions[v].entries, buffer))
    <3>1. workings[i] = [by |-> v,
              row |-> Workings(Book[i], ConfigOf(versions[v].entries, buffer))]
      BY <2>1, <2>2, RowOfRun DEF Calculating
    <3> QED BY <3>1, PriceOfRow
  <2>4. buffer \in Buffers(versions[v].entries)
    BY <2>2 DEF ComputedUnder, Computable
  <2>5. \A c : PriceOrNone(Book[i], c) = BingDnbp(Book[i], c)
    BY PreviewAgrees
  <2>6. /\ Answer(p).lines[i].after =
               PriceOrNone(Book[i], ConfigOf(versions[p.version].entries, p.new))
        /\ Answer(p).lines[i].before =
               PriceOrNone(Book[i], ConfigOf(versions[p.base].entries, p.old))
    BY <2>1 DEF Answer, ComputeImpact, ImpactOf
  <2>7. p.old \in Buffers(versions[p.base].entries)
        /\ p.new \in PreviewBuffers(versions[p.version].entries, p.old)
    BY DEF Calculating, PreviewsExist, Computable
  <2>8. p.version = v /\ OneBuffer(v) => p.new = buffer
    BY <2>4, <2>7 DEF PreviewBuffers, OneBuffer
  <2>9. p.base = v /\ OneBuffer(v) => p.old = buffer
    BY <2>4, <2>7 DEF OneBuffer
  <2> QED BY <2>3, <2>5, <2>6, <2>8, <2>9
<1> QED BY <1>1, <1>2, <1>3, PTL DEF Spec

(* Every version has whole entries, every calculated row numbers or nulls, *)
(* a loaded line no workings, and whoever calculates a configuration that  *)
(* has a buffer: for every book and sequence of changes (create_version,   *)
(* activate_version, calculate_snapshot).                                  *)
THEOREM TypesHold == Spec => []TypeOK
<1>1. Init => Activating
  BY FirstActivating
<1>2. Activating /\ [Next]_vars => Activating'
  BY ActivatingHolds
<1>3. Init => Calculating
  BY FirstCalculating
<1>4. Calculating /\ [Next]_vars => Calculating'
  BY CalculatingHolds
<1>5. Activating /\ Calculating => TypeOK
  <2> SUFFICES ASSUME Activating, Calculating PROVE TypeOK
    OBVIOUS
  <2>1. VersionIds \subseteq Nat /\ \A v \in VersionIds : versions[v] \in Version
    <3>1. /\ versions \in [1..Len(versions) -> Version] /\ Len(versions) \in Nat
          /\ VersionIds = 1..Len(versions)
      BY LenProperties DEF VersionIds, VersionsAreTyped, Activating
    <3> QED BY <3>1
  <2>2. \A v \in VersionIds :
            /\ AreEntries(versions[v].entries)
            /\ versions[v].previewed \in BOOLEAN
            /\ versions[v].active \in BOOLEAN
    BY <2>1, EntriesAreSets DEF Version
  <2>3. ASSUME NEW i \in Lines
        PROVE  /\ workings[i] \in IF Active(Book[i]) THEN Working \cup {None} ELSE {None}
               /\ IsFiniteSet(issues[i])
    <3>1. CASE NothingComputed
      BY <3>1, FS_EmptySet DEF NothingComputed
    <3>2. ASSUME NEW v, NEW buffer, NEW averages \in Averages,
                 ComputedUnder(v, buffer, averages)
          PROVE  /\ workings[i] \in IF Active(Book[i]) THEN Working \cup {None} ELSE {None}
                 /\ IsFiniteSet(issues[i])
      <4> DEFINE c == ConfigOf(versions[v].entries, buffer)
                 row == Workings(Book[i], c)
      <4>1. /\ IsConfig(c) /\ Book[i] \in Line /\ v \in VersionIds
            /\ Active(Book[i]) => workings[i] = [by |-> v, row |-> row]
            /\ ~Active(Book[i]) => workings[i] = None
        BY <3>2, RowOfRun DEF Activating
      <4>2. row \in Row
        BY <4>1, WorkingsAreTyped
      <4>3. issues[i] = Issues(Book[i], c, Tables, averages)
        BY <3>2 DEF ComputedUnder
      <4>4. IsFiniteSet(issues[i])
        BY <4>1, <4>3, IssuesAreFinite
      <4> HIDE DEF row, c
      <4>5. [by |-> v, row |-> row] \in Working
        BY <2>1, <4>1, <4>2 DEF Working, Row
      <4> QED BY <4>1, <4>4, <4>5
    <3> QED BY <3>1, <3>2 DEF Calculating, OneRun
  <2>4. \A a \in Admins : request[a].job \in {"idle", "load", "flip"}
    BY DEF Activating, RequestsAreTyped, Idle, Load, Flip
  <2>5. calc = Idle \/ IsConfig(RunConfig(calc))
    <3>1. ASSUME calc # Idle
          PROVE  calc.version \in VersionIds
                 /\ calc.buffer \in Buffers(versions[calc.version].entries)
      BY <3>1 DEF Calculating, CalcIsTyped, Computable
    <3>2. ASSUME NEW v \in VersionIds, NEW buffer \in Buffers(versions[v].entries)
          PROVE  IsConfig(ConfigOf(versions[v].entries, buffer))
      <4>1. versions[v].entries \in EntrySets
        BY <2>1 DEF Version
      <4> QED BY <4>1, ConfigIsConfig
    <3> QED BY <3>1, <3>2 DEF RunConfig
  <2>6. activated \in VersionIds /\ raced \in BOOLEAN
    BY DEF Activating, RequestsAreTyped
  <2> QED BY <2>2, <2>3, <2>4, <2>5, <2>6 DEF TypeOK
<1> QED BY <1>1, <1>2, <1>3, <1>4, <1>5, PTL DEF Spec
=============================================================================
