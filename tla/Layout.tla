------------------------------- MODULE Layout --------------------------------
(***************************************************************************)
(* Where in a workbook the abattoir's orders are.  People keep it by hand, *)
(* so nothing has a fixed place: a title somewhere on top of a sheet says  *)
(* that it has the active orders, a row of known column names is a heading,*)
(* a marker below it begins the loaded orders, often under a heading of    *)
(* their own; or those are on another sheet.                               *)
(***************************************************************************)
EXTENDS Integers, Sequences, FiniteSets

CONSTANTS
    None,
    TitleScanRows,     \* how far down a title is looked for
    MaxHeaderScanRows, \* how far down a heading is looked for
    LoadedScanRows,    \* how far below its marker the loaded heading is
    MinHeaderMatches   \* columns that must be recognised in a heading

ASSUME LayoutAssumption ==
    /\ {TitleScanRows, MaxHeaderScanRows, LoadedScanRows} \subseteq Nat
    /\ MinHeaderMatches \in Nat \ {0}

(* Of a row: what is in the column of contract numbers and, of the words   *)
(* that matter, in another one; how many cells are column names, and       *)
(* whether that of the contract number is among them.  A workbook is a     *)
(* sequence of sheets, a sheet a sequence of rows.                         *)
Words == {"ACTIVE", "LOADED"}
Line == [id : {None, "TOTAL", "TEXT"} \cup Words, other : {None} \cup Words,
         matches : Nat, named : BOOLEAN]

Says(row, word) == word \in {row.id, row.other}

TitleMatches(sheet, word) ==
    \E i \in 1..Len(sheet) : i <= TitleScanRows /\ Says(sheet[i], word)

(* The first of some rows or sheets, or None.                              *)
First(places) ==
    IF places = {} THEN None ELSE CHOOSE i \in places : \A j \in places : i <= j

OrElse(value, default) == IF value = None THEN default ELSE value

(* The first of the best headings in a window, or None.                    *)
HeaderRow(sheet, start, scan) ==
    LET window == {i \in start..Len(sheet) : /\ i < start + scan
                                             /\ sheet[i].matches >= MinHeaderMatches}
    IN  First({i \in window : \A j \in window : sheet[i].matches >= sheet[j].matches})

FindHeader(sheet) == HeaderRow(sheet, 1, MaxHeaderScanRows)

(* The first marker of loaded orders below a heading, or None.             *)
MarkerRow(sheet, header) ==
    First({i \in header + 1..Len(sheet) :
              IF sheet[header].named THEN sheet[i].id = "LOADED"
              ELSE Says(sheet[i], "LOADED")})

(* A row without a contract number is blank or a subtotal.                 *)
IsOrder(row, header) == header.named /\ row.id \notin {None, "TOTAL"}

End(sheet, header) == OrElse(MarkerRow(sheet, header), Len(sheet) + 1)

RealRows(sheet, header, end) ==
    {i \in header + 1..end - 1 : IsOrder(sheet[i], sheet[header])}

Candidates(book) ==
    {s \in 1..Len(book) : TitleMatches(book[s], "ACTIVE") /\ FindHeader(book[s]) # None}

(* What the sheet s is judged by.                                          *)
Score(book, s, header) ==
    [orders |-> Cardinality(RealRows(book[s], header, End(book[s], header))),
     matches |-> book[s][header].matches, sheet |-> s]

(* A mutant of Outscores: columns count before orders.                     *)
OutscoresByColumns(a, b) ==
    \/ a.matches > b.matches
    \/ a.matches = b.matches /\ a.orders > b.orders
    \/ a.matches = b.matches /\ a.orders = b.orders /\ a.sheet <= b.sheet

(* More orders win, then more columns that are recognised, then the sheet  *)
(* that comes first.                                                       *)
Outscores(a, b) ==
    \/ a.orders > b.orders
    \/ a.orders = b.orders /\ a.matches > b.matches
    \/ a.orders = b.orders /\ a.matches = b.matches /\ a.sheet <= b.sheet

Winner(book) ==
    LET scores == {Score(book, s, FindHeader(book[s])) : s \in Candidates(book)}
    IN  (CHOOSE a \in scores : \A b \in scores : Outscores(a, b)).sheet

Section(s, header, end) ==
    [sheet |-> s, header |-> header, start |-> header + 1, end |-> end]

Sections == [sheet : Nat, header : Nat, start : Nat, end : Nat]

ASSUME NullAssumption == None \notin Nat \cup {"TOTAL", "TEXT"} \cup Words \cup Sections

ActiveOn(book, s, header) == Section(s, header, End(book[s], header))

(* Below the marker, or else on the first other sheet with such a title.   *)
LoadedBeside(book, s, marker) ==
    LET own == HeaderRow(book[s], marker + 1, LoadedScanRows)
        apart == First({t \in 1..Len(book) \ {s} : /\ TitleMatches(book[t], "LOADED")
                                                   /\ FindHeader(book[t]) # None})
    IN  CASE marker # None -> Section(s, OrElse(own, marker), Len(book[s]) + 1)
          [] marker = None /\ apart # None ->
                 Section(apart, FindHeader(book[apart]), Len(book[apart]) + 1)
          [] OTHER -> None

ActiveIn(book, s) == ActiveOn(book, s, FindHeader(book[s]))
LoadedIn(book, s) == LoadedBeside(book, s, MarkerRow(book[s], FindHeader(book[s])))

ActiveSection(book) == ActiveIn(book, Winner(book))
LoadedSection(book) == LoadedIn(book, Winner(book))

(* The rows of a section that are read as orders.                          *)
Rows(book, section) ==
    IF section = None THEN {}
    ELSE LET sheet == book[section.sheet]
             header == OrElse(HeaderRow(sheet, section.header, 1), FindHeader(sheet))
         IN  {i \in section.start..section.end - 1 : IsOrder(sheet[i], sheet[header])}

-----------------------------------------------------------------------------
(* Properties.                                                             *)

(* What a reader would take for the headings of a sheet, the markers below *)
(* the first of them, and the orders.                                      *)
Headings(sheet) == {i \in 1..Len(sheet) : sheet[i].matches >= MinHeaderMatches}
Top(sheet) == First(Headings(sheet))
Marks(sheet) == {i \in Top(sheet) + 1..Len(sheet) : sheet[i].id = "LOADED"}
Orders(sheet) ==
    {i \in Top(sheet) + 1..Len(sheet) : sheet[i].id = "TEXT" /\ sheet[i].matches = 0}
LoadedOrders(sheet) == {i \in Orders(sheet) : \E j \in Marks(sheet) : j < i}

(* A sheet as people keep it: titles, and a heading a search reaches, come *)
(* first; below it there may be one marker, under which, before any order, *)
(* a second heading may be repeated.  Headings name the contract number.   *)
WellKept(sheet) ==
    /\ Headings(sheet) # {} /\ Top(sheet) <= MaxHeaderScanRows
    /\ \A i \in Headings(sheet) : sheet[i].named
    /\ \A i \in Top(sheet) + 1..Len(sheet) :
           sheet[i].matches < MinHeaderMatches => sheet[i].matches = 0 /\ sheet[i].id # "ACTIVE"
    /\ Cardinality(Marks(sheet)) <= 1
    /\ Cardinality(Headings(sheet)) <= 2
    /\ \A i \in Headings(sheet) \ {Top(sheet)} :
           \E j \in Marks(sheet) : /\ j < i /\ i - j <= LoadedScanRows
                                  /\ \A k \in Orders(sheet) : k \notin j..i

(* The heading of the loaded orders is within reach of a search from the   *)
(* top, and has more columns.                                              *)
RicherBelow(sheet) ==
    \E i, j \in Headings(sheet) :
        i < j /\ j <= MaxHeaderScanRows /\ sheet[j].matches > sheet[i].matches

(* No sheet has a richer heading below its marker, which detect_layout     *)
(* would take for that of the active orders, and no sheet with a marker    *)
(* also has the title of loaded orders.                                    *)
Unambiguous(book) ==
    \A s \in 1..Len(book) :
        /\ WellKept(book[s])
        /\ ~RicherBelow(book[s])
        /\ Marks(book[s]) # {} =>
               /\ TitleMatches(book[s], "ACTIVE")
               /\ Len(book) > 1 => ~TitleMatches(book[s], "LOADED")

(* Every order under a heading of the sheet s that was picked is read, as  *)
(* loaded if and only if it is below the marker; no sheet with the title   *)
(* of active orders has more of them; and nothing is read twice.           *)
AreRead(book, s, loaded) ==
    LET active(t) == Orders(book[t]) \ LoadedOrders(book[t])
    IN  /\ Rows(book, ActiveIn(book, s)) = active(s)
        /\ \A t \in 1..Len(book) : TitleMatches(book[t], "ACTIVE") =>
               Cardinality(active(t)) <= Cardinality(active(s))
        /\ IF loaded # None /\ loaded.sheet # s
           THEN Marks(book[s]) = {} /\ Rows(book, loaded) = Orders(book[loaded.sheet])
           ELSE Rows(book, loaded) = LoadedOrders(book[s])

(* A workbook that is well kept and unambiguous is read as it is meant.    *)
ReadsEveryOrder(book) ==
    Candidates(book) # {} /\ Unambiguous(book)
        => AreRead(book, Winner(book), LoadedSection(book))
=============================================================================
