------------------------------ MODULE BackOffice ------------------------------
(***************************************************************************)
(* The console between a submission and a price: submissions arrive        *)
(* (Ingestion), purchases and observations come in from the phones, fills  *)
(* are noted against the lines of issued instructions, and figures are     *)
(* computed from all of it whenever somebody looks.                        *)
(*                                                                         *)
(* What happens to a purchase on its way is BuyerSync's subject; here it   *)
(* is stored, or deleted, at once.                                         *)
(***************************************************************************)
EXTENDS Ingestion, Figures

CONSTANTS
    Buyers,
    Today,
    Purchases,      \* the purchases there can be
    Instructions,   \* the instructions there are
    FillsThereAre,  \* the fills that can be noted
    Published,      \* lines of the publications there are
    Sightings,      \* client_uuids of observations
    SightingOf,     \* what is observed under each
    PatchesOf,      \* what each can be corrected by
    MaxActivity     \* bound: uploads, attempts to commit and, twice, deeds

(* A row of buy_entries as it is first stored, and a line of an            *)
(* instruction.  No line is of two instructions.                           *)
IsPurchase(e) ==
    /\ DOMAIN e = {"lot", "buyer", "species", "saleyard", "day", "heads", "price", "weight",
                   "dnbp", "deleted"}
    /\ e.buyer \in Buyers /\ [e EXCEPT !.deleted = FALSE] = e
    /\ {e.day, e.heads, e.price, e.weight, e.dnbp} \subseteq Int

IsOrderLine(l) ==
    DOMAIN l = {"seq", "schw", "heads", "cost"} /\ {l.schw, l.heads, l.cost} \subseteq Int

ASSUME OfficeAssumption ==
    /\ Today \in Int /\ IsFiniteSet(Buyers) /\ IsFiniteSet(Instructions) /\ IsFiniteSet(Sightings)
    /\ \A e \in Purchases : IsPurchase(e)
    /\ \A i \in Instructions : /\ IsFiniteSet(i.lines) /\ "day" \in DOMAIN i
                               /\ \A l \in i.lines : IsOrderLine(l)
    /\ \A i, j \in Instructions : \A l \in i.lines, m \in j.lines :
           l.seq = m.seq => i = j /\ l = m
    /\ \A x \in FillsThereAre : x.kg \in Int
    /\ \A u \in Sightings : /\ {SightingOf[u].heads, SightingOf[u].price} \subseteq Int
                           /\ SightingOf[u].weight \in Nat \cup {None}
    /\ \A u \in Sightings : \A p \in PatchesOf[u] :
           {p.heads, p.price} \subseteq Int \cup {None} /\ p.weight \in Nat \cup {None}

(* The lines of a snapshot, each with its place there.                     *)
Book == [lines : SUBSET [no : Nat, row : Row, lifecycle : {"ACTIVE", "LOADED"}]]

(* A row of market_observations.                                           *)
Observation ==
    [client_uuid : Sightings, competitor : {SightingOf[u].competitor : u \in Sightings},
     species : {SightingOf[u].species : u \in Sightings}, price : Int, weight : Nat \cup {None},
     heads : Int, implied : Int \cup {None}, deleted : BOOLEAN]

ASSUME RowsAreNotNull == None \notin Book /\ None \notin Observation

VARIABLES
    purchases,      \* buy_entries
    fills,          \* buy_instruction_line_fills
    observations,   \* market_observations, by client_uuid
    corrections,    \* PATCHes under way: what is corrected, what was loaded and how
    crossed         \* history: observations whose price or weight was corrected last
                    \* by a PATCH that had loaded other figures than the row's

patchVars == <<corrections, crossed>>
officeVars == <<purchases, fills, observations, patchVars>>
vars == <<intakeVars, officeVars>>

TypeOK ==
    /\ IntakeTypeOK
    /\ {[e EXCEPT !.deleted = FALSE] : e \in purchases} \subseteq Purchases
    /\ \A e, f \in purchases : e.lot = f.lot => e = f
    /\ fills \subseteq FillsThereAre
    /\ \A u \in Sightings : observations[u] \in Observation \cup {None}
    /\ \A c \in corrections : /\ c.of \in Sightings /\ observations[c.of] # None
                             /\ c.patch \in PatchesOf[c.of]
    /\ crossed \subseteq Sightings

Init ==
    /\ IntakeInit
    /\ purchases = {} /\ fills = {}
    /\ observations = [u \in Sightings |-> None]
    /\ corrections = {} /\ crossed = {}

-----------------------------------------------------------------------------

Stored == {u \in Sightings : observations[u] # None}

(* Purchases, fills, observations, deletions, and PATCHes under way.       *)
Deeds ==
    Cardinality(purchases) + Cardinality({e \in purchases : e.deleted})
    + Cardinality(fills) + Cardinality(Stored)
    + Cardinality({u \in Stored : observations[u].deleted}) + Cardinality(corrections)

(* A mutant of CreateEntry: a purchase that was deleted is stored again.   *)
CreateEntryAgain(e) ==
    /\ purchases' = purchases \cup {e}
    /\ UNCHANGED <<fills, observations, patchVars>>

CreateEntry(e) ==
    /\ e.lot \notin {f.lot : f \in purchases}
    /\ purchases' = purchases \cup {e}
    /\ UNCHANGED <<fills, observations, patchVars>>

DeleteEntry(e) ==
    /\ purchases' = (purchases \ {e}) \cup {[e EXCEPT !.deleted = TRUE]}
    /\ UNCHANGED <<fills, observations, patchVars>>

FillsAllowed(x) ==
    \E i \in Instructions : /\ i.status \in {"ISSUED", "ACKNOWLEDGED"}
                            /\ \E l \in i.lines : l.seq = x.line

AddFill(x) ==
    /\ FillsAllowed(x)
    /\ x \notin fills
    /\ fills' = fills \cup {x}
    /\ UNCHANGED <<purchases, observations, patchVars>>

RemoveFill(x) ==
    /\ FillsAllowed(x)
    /\ fills' = fills \ {x}
    /\ UNCHANGED <<purchases, observations, patchVars>>

(* A row for an observation nobody stored before; a replay changes nothing,*)
(* even of a row that was deleted.                                         *)
CreateOrSyncObservation(u) ==
    IF observations[u] # None THEN observations[u]
    ELSE [client_uuid |-> u, competitor |-> SightingOf[u].competitor,
          species |-> SightingOf[u].species, price |-> SightingOf[u].price,
          weight |-> SightingOf[u].weight, heads |-> SightingOf[u].heads, deleted |-> FALSE,
          implied |-> PricePerKg(SightingOf[u].price, SightingOf[u].weight, None)]

(* One observation, or the queue of a phone.                               *)
BulkSync(batch) ==
    /\ observations' = [u \in Sightings |->
           IF u \in batch THEN CreateOrSyncObservation(u) ELSE observations[u]]
    /\ UNCHANGED <<purchases, fills, patchVars>>

(* A mutant of Patched: the implied price is kept.                         *)
PatchedAsWas(o, p) ==
    [o EXCEPT !.price = OrElse(p.price, @), !.weight = OrElse(p.weight, @),
              !.heads = OrElse(p.heads, @)]

Patched(o, p) ==
    LET price == OrElse(p.price, o.price)
        weight == OrElse(p.weight, o.weight)
    IN  [o EXCEPT !.price = price, !.weight = weight, !.heads = OrElse(p.heads, @),
                  !.implied = IF p.price = None /\ p.weight = None THEN @
                              ELSE PricePerKg(price, weight, None)]

(* A PATCH computes from the row it loads ...                              *)
BeginPatch(u, p) ==
    /\ observations[u] # None /\ ~observations[u].deleted
    /\ corrections' = corrections \cup {[of |-> u, loaded |-> observations[u], patch |-> p]}
    /\ UNCHANGED <<purchases, fills, observations, crossed>>

(* ... and writes the columns that differ from it, whatever others wrote   *)
(* in between.                                                             *)
MergedRow(row, loaded, new) ==
    [f \in DOMAIN row |-> IF new[f] # loaded[f] THEN new[f] ELSE row[f]]

FiguresOf(o) == <<o.price, o.weight, o.implied>>

CommitPatch(c) ==
    LET row == observations[c.of]
    IN  /\ observations' = [observations EXCEPT ![c.of] =
               MergedRow(row, c.loaded, Patched(c.loaded, c.patch))]
        /\ crossed' = IF c.patch.price = None /\ c.patch.weight = None THEN crossed
                      ELSE IF FiguresOf(row) = FiguresOf(c.loaded) THEN crossed \ {c.of}
                      ELSE crossed \cup {c.of}
        /\ corrections' = corrections \ {c}
        /\ UNCHANGED <<purchases, fills>>

DeleteObservation(u) ==
    /\ observations[u] # None
    /\ observations' = [observations EXCEPT ![u].deleted = TRUE]
    /\ UNCHANGED <<purchases, fills, patchVars>>

OfficeNext ==
    \/ \E e \in Purchases : CreateEntry(e)
    \/ \E e \in purchases : DeleteEntry(e)
    \/ \E x \in FillsThereAre : AddFill(x)
    \/ \E x \in fills : RemoveFill(x)
    \/ \E batch \in SUBSET Sightings : BulkSync(batch)
    \/ \E u \in Sightings : \E p \in PatchesOf[u] : BeginPatch(u, p)
    \/ \E c \in corrections : CommitPatch(c)
    \/ \E u \in Sightings : DeleteObservation(u)

Next ==
    /\ \/ IntakeNext /\ UNCHANGED officeVars
       \/ OfficeNext /\ UNCHANGED intakeVars
    /\ (uploads + attempts + 2 * Deeds)' <= MaxActivity

Spec == Init /\ [][Next]_vars

-----------------------------------------------------------------------------
(* Properties.                                                             *)

(* Nothing that was uploaded, and nothing that was in the book or in a     *)
(* workbook, disappears without a record.  Reading a workbook depends on   *)
(* no variable, so that it is looked at once.                              *)
NothingDisappears ==
    /\ UploadsBecomeSnapshots
    /\ RecordsExplainTheBook
    /\ Init => SheetsAreRead

Week == [since |-> Today - (Today % 7), until |-> Today - (Today % 7) + 6]

(* What was bought this week is the same for everybody who looks at it:    *)
(* the owner sees of a buyer what the buyer sees on his scorecard; the     *)
(* reconciliation of an instruction of that week, with a query and a week  *)
(* of its own, counts what fulfilment and the scorecards count; and a      *)
(* saleyard is on the dashboard if it is on a scorecard.                   *)
PurchasesAgree ==
    LET all == BuyerPerformance(purchases, Week)
        card == [b \in Buyers |->
                    BuildScorecard(purchases, Published, b, Week.since, Week.until, None)]
        days == Fulfilment(Instructions, purchases, Week)
        yards == UNION {DOMAIN card[b].spend : b \in Buyers}
    IN  /\ \A b \in DOMAIN all.byBuyer :
               /\ all.byBuyer[b].headroom = card[b].headroom
               /\ all.byBuyer[b].breaches = card[b].breaches
        /\ DOMAIN all.bySaleyard = yards
        /\ \A i \in {j \in Instructions : TradingWeek(j.day) = TradingWeek(Today)} :
               LET r == ComputeReconciliation(i, purchases)
               IN  /\ DOMAIN r.rows = yards
                   /\ r.boughtSchw = SumFunction([d \in DOMAIN days |-> days[d].bought])
                   /\ r.actualHeads = SumFunction([b \in Buyers |-> card[b].heads])
                   /\ r.actualCost = SumFunction([b \in Buyers |-> SumFunction(card[b].spend)])

(* The lines of the latest snapshot, which may repeat themselves.          *)
LatestBook ==
    LET lines == LinesOf(Latest)
    IN  [lines |-> {[no |-> i, row |-> lines[i].row, lifecycle |-> lines[i].lifecycle] :
                       i \in 1..Len(lines)}]

(* The heads the order book takes off what is required, of whatever day    *)
(* and species, are those on the buyers' scorecards, if these go back and  *)
(* forth far enough.                                                       *)
BookAgrees ==
    Latest # 0 =>
    LET top == Overview(OrderBookPanel(LatestBook, purchases, Today, None), purchases, Week)
        days == Values(purchases, "day")
        headsOf(b, first, last) ==
            BuildScorecard(purchases, Published, b, first, last, None).heads
    IN  \A first, last \in days :
            (\A d \in days : first <= d /\ d <= last) =>
                top.bought = SumFunction([b \in Buyers |-> headsOf(b, first, last)])

(* Balances and fills make up what was ordered; nothing is noted against   *)
(* an instruction that was not issued.                                     *)
FillsAgree ==
    \A i \in Instructions :
        LET data == BuildExportData(i, fills, purchases)
            filled == UNION {l.fills : l \in data.lines}
        IN  /\ data.summary.orderedSchw = Total(data.lines, "balance") + Total(filled, "kg")
            /\ i.status = "DRAFT" => filled = {}

(* After any corrections, overlapping or not, in whatever order they are   *)
(* committed: an implied price is that of the row's price and weight,      *)
(* unless the PATCH that corrected either of them last had loaded figures  *)
(* another one changed meanwhile (then columns of two PATCHes are mixed,   *)
(* until the next correction of price or weight).  Even so nothing is said *)
(* per kilogram of what nobody weighed.  And what a competitor pays on     *)
(* average is what follows from prices and weights.                        *)
MarketAgrees ==
    LET left == {u \in Stored : ~observations[u].deleted}
        implied(o) == PricePerKg(o.price, o.weight, None)
        keyOf(u) == <<observations[u].competitor, observations[u].species>>
        summary == Summarize({observations[u] : u \in left}, << >>, None)
    IN  /\ \A u \in Stored \ crossed : observations[u].implied = implied(observations[u])
        /\ \A u \in Stored : observations[u].weight = None => observations[u].implied = None
        /\ DOMAIN summary = {keyOf(u) : u \in left}
        /\ \A k \in DOMAIN summary :
               LET group == {u \in left : keyOf(u) = k}
                   priced == {o \in {observations[u] : u \in group} : implied(o) # None}
               IN  group \cap crossed = {} =>
                       summary[k].price = Average([o \in priced |-> implied(o)], None)

(* What is shown in different places of the same facts agrees: purchases,  *)
(* whichever query and window they are found by, deleted ones in none of   *)
(* them; balances and fills; and implied prices, which are kept beside the *)
(* price and the weight they follow from (analytics_service,               *)
(* scorecard_service, buy_instruction_service, market_observation_service  *)
(* and the PATCH of market_intel).                                         *)
FiguresAgree == PurchasesAgree /\ BookAgrees /\ FillsAgree /\ MarketAgrees
=============================================================================
