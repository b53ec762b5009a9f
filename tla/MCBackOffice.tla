---------------------------- MODULE MCBackOffice ----------------------------
(***************************************************************************)
(* Two workbooks of two contracts.  The first has a contract that is split *)
(* by incoterm and a lookup sheet.  The second has one half of it loaded   *)
(* and the other gone, no lookup sheet, and twice a contract with an       *)
(* incoterm nobody knows and more decimals than are stored.                *)
(***************************************************************************)
EXTENDS BackOffice, TLC

CONSTANTS r1, r2

MCRequests == {r1, r2}
MCSymmetry == Permutations(MCRequests)

MCRow(contract, species, incoterm, customer, amount) ==
    [contract |-> contract, species |-> species, incoterm |-> incoterm,
     customer |-> customer, amount |-> amount, heads |-> IF amount = None THEN None ELSE 20]

MCSheep(incoterm, amount) == MCRow("c1", "SHEEP", incoterm, "Acme", amount)
MCGoat(amount) == MCRow("c2", "GOAT", "FOB", None, amount)

MCLine(id, other, matches, order) ==
    [id |-> id, other |-> other, matches |-> matches, named |-> matches > 0, order |-> order]
MCText == MCRow("c1", None, None, None, None)
MCTitle == MCLine("ACTIVE", None, 0, MCText)
MCHeading(n) == MCLine("TEXT", None, n, MCText)
MCOrder(row) == MCLine("TEXT", None, 0, row)
MCTotal == MCLine("TOTAL", None, 0, None)
MCMarker == MCLine("LOADED", None, 0, MCText)

\* the second workbook has an older copy of the book on another sheet
MCFiles == {"first", "second", "other"}
MCContentOf ==
    [f \in MCFiles |->
        CASE f = "first" ->
                 [sheets |-> <<<<MCTitle, MCHeading(2), MCOrder(MCSheep("CIF", 500)),
                                 MCOrder(MCSheep("FAS", 300)), MCTotal,
                                 MCOrder(MCRow("c2", None, None, "Acme", None))>>>>,
                  tables |-> [k \in {"pack", "skin"} |-> 5]]
          [] f = "second" ->
                 [sheets |-> <<<<MCTitle, MCHeading(2), MCOrder(MCGoat(504))>>,
                               <<MCTitle, MCHeading(1), MCOrder(MCGoat(77)),
                                 MCOrder(MCGoat(504)), MCMarker, MCHeading(1), MCTotal,
                                 MCOrder(MCSheep("CIF", 500))>>>>,
                  tables |-> None]
          [] f = "other" ->
                 [sheets |-> <<<<MCHeading(1), MCOrder(MCGoat(77))>>>>, tables |-> None]]

\* every sheet with a title and a few rows, and every pair of two shorter ones
MCSmallRows ==
    {[id |-> "LOADED", other |-> None, matches |-> 0, named |-> FALSE],
     [id |-> "TOTAL", other |-> None, matches |-> 0, named |-> FALSE]}
    \cup {[id |-> "TEXT", other |-> other, matches |-> 0, named |-> FALSE] :
              other \in {None, "LOADED"}}
    \cup {[id |-> "TEXT", other |-> None, matches |-> n, named |-> TRUE] : n \in 1..2}
MCTitles ==
    {[id |-> "ACTIVE", other |-> None, matches |-> 0, named |-> FALSE],
     [id |-> None, other |-> "LOADED", matches |-> 0, named |-> FALSE]}
MCSheets(n) ==
    UNION {{<<title>> \o rows : title \in MCTitles, rows \in [1..k -> MCSmallRows]} : k \in 0..n}
MCSmallBooks ==
    {<<sheet>> : sheet \in MCSheets(4)}
    \cup {<<sheet, other>> : sheet \in MCSheets(2), other \in MCSheets(2)}

MCPurchase(lot, buyer, species, saleyard, day, price) ==
    [lot |-> lot, buyer |-> buyer, species |-> species, saleyard |-> saleyard, day |-> day,
     heads |-> 3, price |-> price, weight |-> 2, dnbp |-> 7, deleted |-> FALSE]

\* today is a Thursday, day 10; Sunday is day 13 and the week before ends on day 6
MCPurchases ==
    {MCPurchase("l1", "ann", "SHEEP", "Wagga", 8, 12),
     MCPurchase("l2", "ann", "GOAT", "Bendigo", 13, 16),
     MCPurchase("l3", "bob", "SHEEP", "Bendigo", 8, 14),
     MCPurchase("l4", "bob", "SHEEP", "Wagga", 6, 18)}

MCOrderLine(seq) == [seq |-> seq, schw |-> 10 * seq, heads |-> 5, cost |-> 100]
MCInstructions ==
    {[day |-> 10, status |-> "ISSUED", lines |-> {MCOrderLine(1), MCOrderLine(2)}],
     [day |-> 13, status |-> "DRAFT", lines |-> {MCOrderLine(3)}]}
MCFills == {[line |-> l, kg |-> 4] : l \in {1, 3}}

MCPublished == {[species |-> "SHEEP", day |-> 7, target |-> 20],
                [species |-> "GOAT", day |-> 9, target |-> None]}

MCSightings == {"s1", "s2"}
MCSightingOf ==
    [u \in MCSightings |->
        [competitor |-> "Rival", species |-> "SHEEP", price |-> 12,
         weight |-> IF u = "s1" THEN 2 ELSE None, heads |-> 4]]
MCPatchesOf ==
    [u \in MCSightings |->
        {[price |-> 16, weight |-> None, heads |-> None],
         [price |-> None, weight |-> 3, heads |-> 5]}]
=============================================================================
