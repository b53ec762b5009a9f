-------------------------- MODULE OrderBook_proofs ---------------------------
(***************************************************************************)
(* Facts about quotes, species prices and their minimum, for every order   *)
(* book and every engine.                                                  *)
(***************************************************************************)
EXTENDS OrderBook, WellFoundedInduction, TLAPS

(* Any set of naturals has a least one. *)
LEMMA HasLeast ==
    ASSUME NEW T, T \subseteq Nat, T # {}
    PROVE  \E x \in T : \A y \in T : x <= y
<1> DEFINE R == {ss \in Nat \X Nat : ss[1] < ss[2]}
<1>1. IsWellFoundedOn(R, Nat)
    BY NatLessThanWellFounded DEF OpToRel
<1>2. PICK x \in T : \A y \in T : ~(<<y, x>> \in R)
    <2> HIDE DEF R
    <2> QED
        BY <1>1, WFMin
<1>3. ASSUME NEW y \in T
      PROVE  x <= y
    <2>1. <<y, x>> \in Nat \X Nat /\ ~(<<y, x>> \in R)
        BY <1>2
    <2>2. ~(y < x)
        BY <2>1
    <2> QED
        BY <2>2
<1> QED
    BY <1>3

(* An engine's quote of a content the book can have is a price. *)
LEMMA QuoteIsPrice ==
    ASSUME NEW c \in Contents, NEW r \in Refs
    PROVE  /\ Quote[c, r] \in Price
           /\ Raises[c, r] \in SUBSET (Codes \ {OutlierCode})
BY EngineAssumption DEF Price, Quotes

(* A price is an integer or None. *)
LEMMA PricesAreNumbers == Quotes \subseteq Int /\ None \notin Quotes
BY EngineAssumption, NoneAssumption DEF Quotes

(* A set of offers has a least one, which is one of them. *)
LEMMA LeastIsAnOffer ==
    ASSUME NEW S \in SUBSET Quotes, S # {}
    PROVE  Least(S) \in S /\ \A q \in S : Least(S) <= q
BY LeastAssumption DEF Least

(* Prices per species are prices. *)
LEMMA SpeciesPricesType ==
    ASSUME NEW q \in [Orders -> Price]
    PROVE  SpeciesPrices(q) \in [Species -> Price]
<1> SUFFICES ASSUME NEW sp \in Species
             PROVE  SpeciesPrices(q)[sp] \in Price
    BY DEF SpeciesPrices
<1> DEFINE offers == {q[o] : o \in {x \in Orders : SpeciesOf[x] = sp}} \ {None}
<1>1. offers \in SUBSET Quotes
    BY DEF Price
<1>2. SpeciesPrices(q)[sp] = IF offers = {} THEN None ELSE Least(offers)
    BY DEF SpeciesPrices
<1> HIDE DEF offers
<1>3. CASE offers = {}
    BY <1>2, <1>3 DEF Price
<1>4. CASE offers # {}
    BY <1>1, <1>2, <1>4, LeastIsAnOffer DEF Price
<1> QED
    BY <1>3, <1>4

(* A book in which no order has a price puts no price on the board. *)
LEMMA NoPricesNothingPriced ==
    ASSUME NEW q, \A o \in Orders : q[o] = None
    PROVE  SpeciesPrices(q) = NothingPriced
BY DEF SpeciesPrices, NothingPriced
=============================================================================
