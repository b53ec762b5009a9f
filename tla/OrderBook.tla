------------------------------ MODULE OrderBook ------------------------------
(***************************************************************************)
(* The order book a trading desk works on, and the pricing engine as the   *)
(* services see it: a pure function of one order line and one version of   *)
(* the Everhealth reference data.                                          *)
(*                                                                         *)
(* An Order is an identity (contract, species, product type, incoterm):    *)
(* what find_by_identity and the acknowledgement store match lines of      *)
(* different submissions by.  A Content stands for everything calculation  *)
(* reads of one line: its cells, its lifecycle, its provenance marks and   *)
(* the abattoir tables submitted with it.  Two contents may share a        *)
(* fingerprint: line_content_fingerprint hashes the business columns only, *)
(* not the provenance, the benchmark method or the abattoir tables.        *)
(*                                                                         *)
(* A Code is an issue code together with the column it is about.           *)
(***************************************************************************)
EXTENDS Integers

CONSTANTS
    Orders,          \* order identities
    Species,         \* species the orders are for
    SpeciesOf,       \* the species of each order
    Contents,        \* the contents a line can have
    ActiveContents,  \* those with lifecycle ACTIVE; the others are LOADED
    Fingerprint,     \* line_content_fingerprint of each content
    SuppliesValue,   \* contents whose correctable column is not null
    Workbooks,       \* the order books the abattoir submits
    Refs,            \* versions of the Everhealth reference data
    Codes,           \* issue codes (with their column)
    OutlierCode,     \* DNBP_OUTLIER, the one code that depends on history
    Severity,        \* the severity of each code
    Quote,           \* bing_dnbp of a content under a version, or None
    Raises,          \* the codes raised for a content under a version
    None             \* null

Fingerprints == {Fingerprint[c] : c \in Contents}

Severities == {"BLOCK", "CORRECTION", "WARN", "INFO"}

(* A null is neither a number, a content nor a fingerprint. *)
ASSUME NoneAssumption ==
    None \notin Int \cup Contents \cup Fingerprints

ASSUME BookAssumption ==
    /\ SpeciesOf \in [Orders -> Species]
    /\ ActiveContents \subseteq Contents
    /\ SuppliesValue \subseteq Contents
    /\ Workbooks \subseteq [Orders -> Contents \cup {None}]

ASSUME EngineAssumption ==
    /\ Severity \in [Codes -> Severities]
    /\ OutlierCode \in Codes /\ Severity[OutlierCode] = "WARN"
    /\ Quote \in [Contents \X Refs -> Int \cup {None}]
    /\ Raises \in [Contents \X Refs -> SUBSET (Codes \ {OutlierCode})]

(* The engine never leaves an active line without a price silently: no     *)
(* factor and no sell price each raise a BLOCK issue.                      *)
ASSUME UnpricedIsBlocked ==
    \A c \in ActiveContents, r \in Refs :
        Quote[c, r] = None => \E k \in Raises[c, r] : Severity[k] = "BLOCK"

(* Everything the engine can quote. *)
Quotes == {Quote[x] : x \in Contents \X Refs} \ {None}

Price == Quotes \cup {None}

(* Any collection of quotes has a least one (they are finitely many).      *)
ASSUME LeastAssumption ==
    \A S \in SUBSET Quotes : S # {} => \E p \in S : \A q \in S : p <= q

-----------------------------------------------------------------------------

Reviewable(k) == Severity[k] \in {"WARN", "CORRECTION"}

(* A mutant of Least: the dearest order decides.                           *)
Greatest(S) == CHOOSE p \in S : \A q \in S : q <= p

Least(S) == CHOOSE p \in S : \A q \in S : p <= q

(* The active orders of a book. *)
ActiveOrders(b) == {o \in Orders : b[o] \in ActiveContents}

(***************************************************************************)
(* Species-level prices from per-order prices q (None where an order has   *)
(* no price): the minimum over the orders of the species, None for a       *)
(* species nobody has a priced order for.                                  *)
(***************************************************************************)
SpeciesPrices(q) ==
    [sp \in Species |->
        LET offers == {q[o] : o \in {x \in Orders : SpeciesOf[x] = sp}} \ {None}
        IN  IF offers = {} THEN None ELSE Least(offers)]

NothingPriced == [sp \in Species |-> None]

(* Per-order prices of a whole book under one version of the reference     *)
(* data, as one run of the engine computes them.                           *)
QuotesOf(b, r) ==
    [o \in Orders |-> IF o \in ActiveOrders(b) THEN Quote[b[o], r] ELSE None]

(* More than 15% off a past price: check_dnbp_outlier compares with the    *)
(* 30-day average of the species, which can be that far off only if one of *)
(* the averaged prices is.                                                 *)
OffBy15Percent(q, p) == 100 * (q - p) > 15 * p \/ 100 * (p - q) > 15 * p
=============================================================================
