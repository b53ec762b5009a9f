------------------------------- MODULE Figures -------------------------------
(***************************************************************************)
(* The figures of the dashboard, of a buyer's scorecard, of the            *)
(* reconciliation of an instruction and of market intelligence.  Pure      *)
(* definitions over sets of rows; nothing here is stored.                  *)
(*                                                                         *)
(* Money, weights and days are whole numbers, Monday being a multiple of   *)
(* seven.  An average is kept as the sum and the count it is made of.      *)
(***************************************************************************)
EXTENDS Integers, FiniteSets, Functions

(* What the rows have in a field, together.                                *)
Total(rows, field) == SumFunction([r \in rows |-> r[field]])

(* The quotient of a sum and a count, or null if there is nothing; values  *)
(* is a function of the rows that have one.                                *)
Average(values, null) ==
    IF DOMAIN values = {} THEN null
    ELSE [sum |-> SumFunction(values), count |-> Cardinality(DOMAIN values)]

-----------------------------------------------------------------------------
(* Purchases: records of the table buy_entries.                            *)

(* Without a weight there is no price per kilogram, and any is too much.   *)
ImpliedPrice(e) == IF e.weight <= 0 THEN 0 ELSE e.price \div e.weight
Variance(e) == e.dnbp - ImpliedPrice(e)
IsBreach(e) == e.weight <= 0 \/ e.price > e.dnbp * e.weight

(* filter gives a bound, or a value, to some fields.                       *)
Matches(e, filter) ==
    \A f \in DOMAIN filter :
        CASE f = "since" -> e.day >= filter.since
          [] f = "until" -> e.day <= filter.until
          [] OTHER -> e[f] = filter[f]

(* A mutant of ListOrgBuyEntries: deleted purchases are counted.           *)
ListAllBuyEntries(entries, filter) == {e \in entries : Matches(e, filter)}

ListOrgBuyEntries(entries, filter) ==
    {e \in entries : ~e.deleted /\ Matches(e, filter)}

Group(entries, field, value) == {e \in entries : e[field] = value}
Values(entries, field) == {e[field] : e \in entries}

HeadroomCaptured(entries) ==
    SumFunction([e \in entries |-> Variance(e) * e.weight * e.heads])

SchwKg(entries) == SumFunction([e \in entries |-> e.weight * e.heads])
Cost(entries) == SumFunction([e \in entries |-> e.price * e.heads])

BreachCount(entries) == Cardinality({e \in entries : IsBreach(e)})

BuyerPerformance(entries, filter) ==
    LET found == ListOrgBuyEntries(entries, filter)
    IN  [byBuyer |->
            [b \in Values(found, "buyer") |->
                LET es == Group(found, "buyer", b)
                IN  [count |-> Cardinality(es), headroom |-> HeadroomCaptured(es),
                     breaches |-> BreachCount(es)]],
         bySaleyard |->
            [y \in Values(found, "saleyard") |->
                HeadroomCaptured(Group(found, "saleyard", y))]]

(* published: the lines published, with the day they were.                 *)
BuildScorecard(entries, published, buyer, since, until, null) ==
    LET found == ListOrgBuyEntries(entries,
                     [buyer |-> buyer, since |-> since, until |-> until])
        aimed == {p \in published : /\ p.species \in Values(found, "species")
                                    /\ p.day >= since /\ p.day <= until
                                    /\ p.target # null}
    IN  [heads |-> Total(found, "heads"),
         target |-> IF found = {} THEN null ELSE Total(aimed, "target"),
         paid |-> Average([e \in found |-> ImpliedPrice(e)], null),
         dnbp |-> Average([e \in found |-> e.dnbp], null),
         headroom |-> HeadroomCaptured(found),
         breaches |-> BreachCount(found),
         spend |-> [y \in Values(found, "saleyard") |->
                       Cost(Group(found, "saleyard", y))]]

Breaches(entries, filter) == {e \in ListOrgBuyEntries(entries, filter) : IsBreach(e)}

-----------------------------------------------------------------------------
(* Instructions, their lines, and the manual fills of a line.              *)

(* A mutant of TradingWeek: Sunday is left out.                            *)
WorkingWeek(day) ==
    LET monday == day - (day % 7) IN [since |-> monday, until |-> monday + 5]

TradingWeek(day) ==
    LET monday == day - (day % 7) IN [since |-> monday, until |-> monday + 6]

ListEntriesInWindow(entries, week) ==
    {e \in entries : e.day >= week.since /\ e.day <= week.until /\ ~e.deleted}

ComputeReconciliation(instruction, entries) ==
    LET found == ListEntriesInWindow(entries, TradingWeek(instruction.day))
        rows == [y \in Values(found, "saleyard") |->
                    LET es == Group(found, "saleyard", y)
                    IN  [schw |-> SchwKg(es), heads |-> Total(es, "heads"), cost |-> Cost(es)]]
        yards(field) == SumFunction([y \in DOMAIN rows |-> rows[y][field]])
    IN  [rows |-> rows,
         orderedSchw |-> Total(instruction.lines, "schw"),
         boughtSchw |-> yards("schw"),
         actualHeads |-> yards("heads"),
         expectedHeads |-> Total(instruction.lines, "heads"),
         expectedCost |-> Total(instruction.lines, "cost"),
         actualCost |-> yards("cost")]

LineBalance(line, fills) == line.schw - Total(fills, "kg")

BuildExportData(instruction, fills, entries) ==
    [lines |-> {LET mine == {f \in fills : f.line = l.seq}
                IN  [seq |-> l.seq, fills |-> mine, balance |-> LineBalance(l, mine)] :
                    l \in instruction.lines},
     summary |-> ComputeReconciliation(instruction, entries)]

(* Instructed and bought, by trade date.  Drafts count as instructed.      *)
Fulfilment(instructions, entries, filter) ==
    LET found == ListOrgBuyEntries(entries, filter)
        instructed == {i \in instructions : Matches(i, filter)}
        onDay(d) == UNION {i.lines : i \in Group(instructed, "day", d)}
    IN  [d \in Values(found, "day") \cup Values(instructed, "day") |->
            [instructed |-> Total(onDay(d), "schw"),
             bought |-> SchwKg(Group(found, "day", d))]]

-----------------------------------------------------------------------------
(* The order book: book has the order lines of the latest snapshot, or is  *)
(* null if there is none, and then the panel is empty whatever was bought. *)

OrZero(number, null) == IF number = null THEN 0 ELSE number

(* Exposure, and the days the purchases of the last week would need for    *)
(* what remains.                                                           *)
OrderBookPanel(book, entries, today, null) ==
    LET active == IF book = null THEN {} ELSE {l \in book.lines : l.lifecycle = "ACTIVE"}
        speciesOf(l) == IF l.row.species = null THEN "UNKNOWN" ELSE l.row.species
        amount(ls) == SumFunction([l \in ls |-> OrZero(l.row.amount, null)])
        required(ls) == SumFunction([l \in ls |-> OrZero(l.row.heads, null)])
        bought == IF book = null THEN {} ELSE ListOrgBuyEntries(entries, << >>)
        trailing == ListOrgBuyEntries(entries, [since |-> today - 7])
        rowOf(s) ==
            LET ofSpecies == {l \in active : speciesOf(l) = s}
                need == required(ofSpecies)
                have == Total(Group(bought, "species", s), "heads")
                week == Total(Group(trailing, "species", s), "heads")
            IN  [exposure |-> amount(ofSpecies), required |-> need, bought |-> have,
                 cover |-> IF week = 0 THEN null
                           ELSE [sum |-> 7 * (IF need > have THEN need - have ELSE 0),
                                 count |-> week]]
        bySpecies == [s \in {speciesOf(l) : l \in active} \cup Values(bought, "species") |->
                         rowOf(s)]
    IN  [total |-> SumFunction([s \in DOMAIN bySpecies |-> bySpecies[s].exposure]),
         bySpecies |-> bySpecies,
         byCustomer |->
            [k \in {<<speciesOf(l), l.row.customer>> : l \in active} |->
                amount({l \in active : <<speciesOf(l), l.row.customer>> = k})]]

(* panel is that of the order book.                                        *)
Overview(panel, entries, filter) ==
    LET sum(field) == SumFunction([s \in DOMAIN panel.bySpecies |-> panel.bySpecies[s][field]])
    IN  [exposure |-> panel.total,
         required |-> sum("required"),
         bought |-> sum("bought"),
         breaches |-> Cardinality(Breaches(entries, filter))]

-----------------------------------------------------------------------------
(* Market intelligence: what competitors paid.                             *)

ListObservations(observations, filter) ==
    {o \in observations : ~o.deleted /\ Matches(o, filter)}

(* The implied price, where the weight was seen.                           *)
PricePerKg(price, weight, null) ==
    IF weight \in {null, 0} THEN null ELSE price \div weight

Summarize(observations, filter, null) ==
    LET found == ListObservations(observations, filter)
    IN  [k \in {<<o.competitor, o.species>> : o \in found} |->
            LET group == {o \in found : <<o.competitor, o.species>> = k}
            IN  [count |-> Cardinality(group), heads |-> Total(group, "heads"),
                 price |-> Average([o \in {x \in group : x.implied # null} |-> o.implied],
                                  null)]]
=============================================================================
