----------------------------- MODULE TradingDesk -----------------------------
(***************************************************************************)
(* The trading console's pipeline, one request at a time: a committed      *)
(* submission is calculated, its issues are acknowledged, a buy            *)
(* instruction is drafted and approved, and a DNBP publication replaces    *)
(* the live one.  Every action is one whole request, from its first read   *)
(* to its commit; DeskRaces takes the publishing requests apart into their *)
(* database statements.                                                    *)
(*                                                                         *)
(* The tables are functions over row numbers in order of creation.         *)
(***************************************************************************)
EXTENDS OrderBook

CONSTANTS
    InitialRef,        \* the version active at the start
    QueriedOrders,     \* the orders corrections are asked for
    MaxSnapshots,      \* bounds of the tables
    MaxPublications,
    MaxInstructions,
    MaxRequests

ASSUME DeskAssumption ==
    /\ InitialRef \in Refs
    /\ QueriedOrders \subseteq Orders
    /\ {MaxSnapshots, MaxPublications, MaxInstructions, MaxRequests} \subseteq Nat

SnapshotIds    == 1..MaxSnapshots
PublicationIds == 1..MaxPublications
InstructionIds == 1..MaxInstructions
RequestIds     == 1..MaxRequests

VARIABLES
    active,        \* the active version of the reference data
    uploads,       \* submissions committed so far
    book,          \* order_lines of each snapshot (immutable rows)
    snapStatus,    \* status of each snapshot
    workings,      \* order_workings of each line, None before calculation
    issues,        \* validation_issues of each line
    acks,          \* order_issue_acknowledgments: fingerprint reviewed last
    publications,  \* dnbp_publications with their lines
    published,     \* how many there are
    instructions,  \* buy_instructions with their lines
    drafted,       \* how many there are
    requests,      \* correction_requests
    raised,        \* how many there are
    reviews        \* history: every acknowledgement a person has made

snapshotVars == <<uploads, book, snapStatus, workings, issues>>
pubVars      == <<publications, published>>
instrVars    == <<instructions, drafted>>
requestVars  == <<requests, raised>>
reviewVars   == <<acks, reviews>>
vars == <<active, snapshotVars, reviewVars, pubVars, instrVars, requestVars>>

-----------------------------------------------------------------------------
(* Rows *)

Content == Contents \cup {None}
Book    == [Orders -> Content]

SnapStatuses == {"NONE", "PARSED", "CALCULATED", "PUBLISHED", "SUPERSEDED"}
InstrStatuses == {"DRAFT", "ISSUED", "ACKNOWLEDGED", "RECONCILED"}
IssueStates == {"absent", "open", "acknowledged"}

Working == [price : Price, ref : Refs] \cup {None}

(* A null is no row. *)
ASSUME RowAssumption == None \notin [price : Price, ref : Refs]

Publication ==
    [snap : SnapshotIds, prices : [Species -> Price],
     supersededBy : 0..MaxPublications, notified : BOOLEAN,
     instruction : 0..MaxInstructions]   \* history: 0 for POST /publications

Instruction ==
    [snap : SnapshotIds, prices : [Orders -> Price], approved : BOOLEAN,
     status : InstrStatuses, publication : 0..MaxPublications]

Request ==
    [snap : SnapshotIds, order : Orders,
     status : {"OPEN", "RESOLVED", "WITHDRAWN"}, resolvedBy : 0..MaxSnapshots]

Review(o, k, f) == [order |-> o, code |-> k, fingerprint |-> f]

AllReviews ==
    [order : Orders, code : {k \in Codes : Severity[k] # "BLOCK"},
     fingerprint : Fingerprints]

TypeOK ==
    /\ active \in Refs
    /\ uploads \in 0..MaxSnapshots
    /\ book \in [SnapshotIds -> Book]
    /\ snapStatus \in [SnapshotIds -> SnapStatuses]
    /\ workings \in [SnapshotIds -> [Orders -> Working]]
    /\ issues \in [SnapshotIds -> [Orders -> [Codes -> IssueStates]]]
    /\ acks \in [Orders -> [Codes -> Fingerprints \cup {None}]]
    /\ published \in 0..MaxPublications
    /\ publications \in [PublicationIds -> Publication \cup {None}]
    /\ drafted \in 0..MaxInstructions
    /\ instructions \in [InstructionIds -> Instruction \cup {None}]
    /\ raised \in 0..MaxRequests
    /\ requests \in [RequestIds -> Request \cup {None}]
    /\ reviews \in SUBSET AllReviews

Init ==
    /\ active = InitialRef
    /\ uploads = 0
    /\ book = [s \in SnapshotIds |-> [o \in Orders |-> None]]
    /\ snapStatus = [s \in SnapshotIds |-> "NONE"]
    /\ workings = [s \in SnapshotIds |-> [o \in Orders |-> None]]
    /\ issues = [s \in SnapshotIds |->
                    [o \in Orders |-> [k \in Codes |-> "absent"]]]
    /\ acks = [o \in Orders |-> [k \in Codes |-> None]]
    /\ publications = [n \in PublicationIds |-> None] /\ published = 0
    /\ instructions = [i \in InstructionIds |-> None] /\ drafted = 0
    /\ requests = [q \in RequestIds |-> None] /\ raised = 0
    /\ reviews = {}

-----------------------------------------------------------------------------
(* Reference data and submissions *)

(* POST /reference-data/versions/{id}/activate; ReferenceData.tla models   *)
(* how a version comes to be activated.                                    *)
ActivateRef(r) ==
    /\ r # active
    /\ active' = r
    /\ UNCHANGED <<snapshotVars, reviewVars, pubVars, instrVars, requestVars>>

(* POST /snapshots: the new snapshot's lines are the previewed workbook.   *)
CommitSnapshot(b) ==
    /\ uploads < MaxSnapshots
    /\ uploads' = uploads + 1
    /\ book' = [book EXCEPT ![uploads + 1] = b]
    /\ snapStatus' = [snapStatus EXCEPT ![uploads + 1] = "PARSED"]
    /\ UNCHANGED <<active, workings, issues, reviewVars, pubVars, instrVars,
                   requestVars>>

-----------------------------------------------------------------------------
(* Calculation *)

Uploaded == 1..uploads

(* The codes found for a line: the engine's, and DNBP_OUTLIER for the      *)
(* orders in the set outliers.                                             *)
Found(s, o, outliers) ==
    IF book[s][o] = None THEN {}
    ELSE Raises[book[s][o], active]
             \cup (IF o \in outliers THEN {OutlierCode} ELSE {})

(* The orders DNBP_OUTLIER can be raised for; which ones are depends on    *)
(* the dates of the publications, and is left open.                        *)
MayBeOutlier(s) ==
    {o \in ActiveOrders(book[s]) :
        /\ Quote[book[s][o], active] # None
        /\ \E n \in 1..published :
               LET past == publications[n].prices[SpeciesOf[o]]
               IN  past # None /\ OffBy15Percent(Quote[book[s][o], active], past)}

(* A mutant of CarriedForward: an acknowledgement of the same order and     *)
(* code is carried forward whatever the line said when it was made.        *)
CarriedForwardUnread(s, o, k) == Reviewable(k) /\ acks[o][k] # None

(* find_matching: the last review of this order and code was made against  *)
(* the content the line has now.                                           *)
CarriedForward(s, o, k) ==
    Reviewable(k) /\ acks[o][k] = Fingerprint[book[s][o]]

IssueStateOf(s, o, k, outliers) ==
    IF k \notin Found(s, o, outliers) THEN "absent"
    ELSE IF CarriedForward(s, o, k) THEN "acknowledged" ELSE "open"

(* _auto_resolve_correction_requests: an open request of another snapshot  *)
(* is resolved when this one has the order with a value in the column.     *)
ResolvedHere(s, q) ==
    /\ q \in 1..raised
    /\ requests[q].status = "OPEN"
    /\ requests[q].snap # s
    /\ book[s][requests[q].order] \in SuppliesValue

(* POST /snapshots/{id}/calculate *)
Calculate(s) ==
    /\ s \in Uploaded
    /\ workings' = [workings EXCEPT ![s] =
           [o \in Orders |->
               IF o \in ActiveOrders(book[s])
               THEN [price |-> Quote[book[s][o], active], ref |-> active]
               ELSE workings[s][o]]]
    /\ \E outliers \in SUBSET MayBeOutlier(s) :
           issues' = [issues EXCEPT ![s] =
               [o \in Orders |->
                   [k \in Codes |-> IssueStateOf(s, o, k, outliers)]]]
    /\ requests' = [q \in RequestIds |->
           IF ResolvedHere(s, q)
           THEN [requests[q] EXCEPT !.status = "RESOLVED", !.resolvedBy = s]
           ELSE requests[q]]
    /\ snapStatus' = [snapStatus EXCEPT ![s] = "CALCULATED"]
    /\ UNCHANGED <<active, uploads, book, reviewVars, pubVars, instrVars,
                   raised>>

(* A mutant of AcknowledgeIssue: a BLOCK can be acknowledged away.         *)
AcknowledgeAnyIssue(s, o, k) ==
    /\ s \in Uploaded
    /\ issues[s][o][k] # "absent"
    /\ issues' = [issues EXCEPT ![s][o][k] = "acknowledged"]
    /\ acks' = [acks EXCEPT ![o][k] = Fingerprint[book[s][o]]]
    /\ reviews' = reviews \cup {Review(o, k, Fingerprint[book[s][o]])}
    /\ UNCHANGED <<active, uploads, book, snapStatus, workings, pubVars,
                   instrVars, requestVars>>

(* POST /snapshots/{id}/issues/{id}/acknowledge, for any issue row but a   *)
(* BLOCK; the durable record is overwritten, so it keeps the last review.  *)
AcknowledgeIssue(s, o, k) ==
    /\ s \in Uploaded
    /\ issues[s][o][k] # "absent"
    /\ Severity[k] # "BLOCK"
    /\ issues' = [issues EXCEPT ![s][o][k] = "acknowledged"]
    /\ acks' = [acks EXCEPT ![o][k] = Fingerprint[book[s][o]]]
    /\ reviews' = reviews \cup {Review(o, k, Fingerprint[book[s][o]])}
    /\ UNCHANGED <<active, uploads, book, snapStatus, workings, pubVars,
                   instrVars, requestVars>>

-----------------------------------------------------------------------------
(* Correction requests *)

(* POST /order-lines/{id}/correction-requests *)
RaiseRequest(s, o) ==
    /\ raised < MaxRequests
    /\ s \in Uploaded /\ book[s][o] # None
    /\ raised' = raised + 1
    /\ requests' = [requests EXCEPT ![raised + 1] =
           [snap |-> s, order |-> o, status |-> "OPEN", resolvedBy |-> 0]]
    /\ UNCHANGED <<active, snapshotVars, reviewVars, pubVars, instrVars>>

(* POST /correction-requests/{id}/withdraw *)
WithdrawRequest(q) ==
    /\ q \in 1..raised
    /\ requests[q].status = "OPEN"
    /\ requests' = [requests EXCEPT ![q].status = "WITHDRAWN"]
    /\ UNCHANGED <<active, snapshotVars, reviewVars, pubVars, instrVars, raised>>

-----------------------------------------------------------------------------
(* Publishing *)

(* list_active_with_bing_dnbp: the price of every active line that has one *)
PricedLines(s) ==
    [o \in Orders |->
        IF o \in ActiveOrders(book[s]) /\ workings[s][o] # None
        THEN workings[s][o].price ELSE None]

(* _assert_publishable *)
Publishable(s) ==
    \A o \in ActiveOrders(book[s]), k \in Codes :
        issues[s][o][k] # "absent" =>
            /\ Severity[k] # "BLOCK"
            /\ Reviewable(k) => issues[s][o][k] = "acknowledged"

(* A mutant of Unsuperseded: only those whose snapshot says PUBLISHED.     *)
UnsupersededPublished ==
    {n \in 1..published : /\ publications[n].supersededBy = 0
                          /\ snapStatus[publications[n].snap] = "PUBLISHED"}

Unsuperseded == {n \in 1..published : publications[n].supersededBy = 0}

(* get_current_for_org: the newest publication nothing has superseded, 0   *)
(* before the first.                                                       *)
Current ==
    IF Unsuperseded = {} THEN 0
    ELSE CHOOSE n \in Unsuperseded : \A m \in Unsuperseded : m <= n

CurrentPrices ==
    IF Current = 0 THEN NothingPriced ELSE publications[Current].prices

(* A mutant of PricesChanged: looks only at the species published now.     *)
PricesMoved(previous, drafts) ==
    \E sp \in Species : drafts[sp] # None /\ drafts[sp] # previous[sp]

(* _prices_changed: the whole species list with its prices *)
PricesChanged(previous, drafts) == previous # drafts

(* A mutant of StatusAfterPublishing: superseding the previous snapshot    *)
(* after marking this one, which a republished snapshot does not survive.  *)
StatusAfterSuperseding(s, x) ==
    IF /\ Current # 0 /\ x = publications[Current].snap
       /\ snapStatus[x] = "PUBLISHED" \/ x = s
    THEN "SUPERSEDED"
    ELSE IF x = s THEN "PUBLISHED" ELSE snapStatus[x]

(* The status of snapshot x once s is published: the snapshot of the       *)
(* publication that is replaced becomes SUPERSEDED if it still is          *)
(* PUBLISHED, then s becomes PUBLISHED.                                    *)
StatusAfterPublishing(s, x) ==
    IF x = s THEN "PUBLISHED"
    ELSE IF /\ Current # 0 /\ x = publications[Current].snap
            /\ snapStatus[x] = "PUBLISHED"
         THEN "SUPERSEDED" ELSE snapStatus[x]

(* publication_service.publish, for instruction i (0: none) *)
PublishSnapshot(s, i) ==
    LET prices == SpeciesPrices(PricedLines(s))
        row == [snap |-> s, prices |-> prices, supersededBy |-> 0,
                notified |-> PricesChanged(CurrentPrices, prices),
                instruction |-> i]
        new == published + 1
    IN  /\ published < MaxPublications
        /\ Publishable(s)
        /\ prices # NothingPriced
        /\ published' = new
        /\ publications' = [n \in PublicationIds |->
               IF n = new THEN row
               ELSE IF n = Current
                    THEN [publications[n] EXCEPT !.supersededBy = new]
                    ELSE publications[n]]
        /\ snapStatus' = [x \in SnapshotIds |-> StatusAfterPublishing(s, x)]

(* POST /publications *)
PublishDirectly(s) ==
    /\ s \in Uploaded
    /\ PublishSnapshot(s, 0)
    /\ UNCHANGED <<active, uploads, book, workings, issues, reviewVars,
                   instrVars, requestVars>>

-----------------------------------------------------------------------------
(* Buy instructions *)

(* POST /buy-instructions *)
GenerateInstruction(s) ==
    /\ drafted < MaxInstructions
    /\ s \in Uploaded
    /\ \E o \in Orders : PricedLines(s)[o] # None
    /\ drafted' = drafted + 1
    /\ instructions' = [instructions EXCEPT ![drafted + 1] =
           [snap |-> s, prices |-> PricedLines(s), approved |-> FALSE,
            status |-> "DRAFT", publication |-> 0]]
    /\ UNCHANGED <<active, snapshotVars, reviewVars, pubVars, requestVars>>

InStatus(i, statuses) == i \in 1..drafted /\ instructions[i].status \in statuses

OnlyInstructions ==
    UNCHANGED <<active, snapshotVars, reviewVars, pubVars, drafted, requestVars>>

ApproveInstruction(i) ==
    /\ InStatus(i, {"DRAFT"})
    /\ instructions' = [instructions EXCEPT ![i].approved = TRUE]
    /\ OnlyInstructions

(* A mutant of PublishInstruction: the instruction is issued but not       *)
(* linked to its publication, and can be published again.                  *)
PublishInstructionUnlinked(i) ==
    /\ InStatus(i, {"DRAFT"})
    /\ instructions[i].approved
    /\ PublishSnapshot(instructions[i].snap, i)
    /\ UNCHANGED <<active, uploads, book, workings, issues, reviewVars,
                   instrVars, requestVars>>

(* POST /buy-instructions/{id}/publish *)
PublishInstruction(i) ==
    /\ InStatus(i, {"DRAFT"})
    /\ instructions[i].approved
    /\ PublishSnapshot(instructions[i].snap, i)
    /\ instructions' = [instructions EXCEPT ![i].status = "ISSUED",
                                            ![i].publication = published + 1]
    /\ UNCHANGED <<active, uploads, book, workings, issues, reviewVars,
                   drafted, requestVars>>

(* The buyer confirms the instruction on the phone. *)
AcknowledgeInstruction(i) ==
    /\ InStatus(i, {"ISSUED"})
    /\ instructions' = [instructions EXCEPT ![i].status = "ACKNOWLEDGED"]
    /\ OnlyInstructions

ReconcileClose(i) ==
    /\ InStatus(i, {"ACKNOWLEDGED"})
    /\ instructions' = [instructions EXCEPT ![i].status = "RECONCILED"]
    /\ OnlyInstructions

-----------------------------------------------------------------------------

SnapshotStep ==
    \/ \E b \in Workbooks : CommitSnapshot(b)
    \/ \E s \in SnapshotIds : Calculate(s)
    \/ \E s \in SnapshotIds, o \in Orders, k \in Codes : AcknowledgeIssue(s, o, k)
    \/ \E s \in SnapshotIds : PublishDirectly(s)

RequestStep ==
    \/ \E s \in SnapshotIds, o \in QueriedOrders : RaiseRequest(s, o)
    \/ \E q \in RequestIds : WithdrawRequest(q)

InstructionStep ==
    \/ \E s \in SnapshotIds : GenerateInstruction(s)
    \/ \E i \in InstructionIds :
        \/ ApproveInstruction(i)
        \/ PublishInstruction(i)
        \/ AcknowledgeInstruction(i)
        \/ ReconcileClose(i)

Next ==
    \/ \E r \in Refs : ActivateRef(r)
    \/ SnapshotStep
    \/ RequestStep
    \/ InstructionStep

Spec == Init /\ [][Next]_vars

-----------------------------------------------------------------------------
(* Properties *)

(***************************************************************************)
(* What a buyer sees is one run of the engine over one submission: there   *)
(* is a single version of the reference data under which every active line *)
(* of the published snapshot has a quote, a species' price is one of its   *)
(* orders' quotes and exceeds none of them, and a species nobody orders    *)
(* has no price.  About calculate_snapshot, compute_publication_lines and  *)
(* the BLOCK gate together, over recalculations and version changes.       *)
(***************************************************************************)
OffersIn(b, r, sp) ==
    {Quote[b[o], r] : o \in {x \in ActiveOrders(b) : SpeciesOf[x] = sp}}

PublishedPricesAreOneRun ==
    \A n \in 1..published :
        LET b == book[publications[n].snap]
            prices == publications[n].prices
        IN  \E r \in Refs : \A sp \in Species :
                IF OffersIn(b, r, sp) = {} THEN prices[sp] = None
                ELSE /\ None \notin OffersIn(b, r, sp)
                     /\ prices[sp] \in OffersIn(b, r, sp)
                     /\ \A q \in OffersIn(b, r, sp) : prices[sp] <= q

(***************************************************************************)
(* No issue is ever acknowledged that nobody acknowledged: however often   *)
(* a line is resubmitted and recalculated, an acknowledged row goes back   *)
(* to a person's review of that order and code against the same business   *)
(* columns.  About the carry-forward of calculate_snapshot.                *)
(***************************************************************************)
AcknowledgementsAreEarned ==
    \A s \in 1..uploads, o \in Orders, k \in Codes :
        issues[s][o][k] = "acknowledged" =>
            Review(o, k, Fingerprint[book[s][o]]) \in reviews

(***************************************************************************)
(* Publications supersede each other one by one: each is superseded by the *)
(* next and by no other, and exactly the last one is live.  About the      *)
(* supersession bookkeeping of publish and get_current_for_org.            *)
(***************************************************************************)
SupersessionIsAChain ==
    \A n \in 1..published :
        publications[n].supersededBy = IF n = published THEN 0 ELSE n + 1

(***************************************************************************)
(* A snapshot says PUBLISHED only while its prices are the live ones, and  *)
(* SUPERSEDED only after its prices were live and other ones replaced      *)
(* them.  About the status updates of publish and calculate.               *)
(***************************************************************************)
SnapshotStatusTruth ==
    \A s \in SnapshotIds :
        /\ snapStatus[s] = "PUBLISHED" =>
               Current # 0 /\ publications[Current].snap = s
        /\ snapStatus[s] = "SUPERSEDED" =>
               /\ \E n \in 1..published : publications[n].snap = s
               /\ publications[Current].snap # s

(***************************************************************************)
(* An instruction has left DRAFT exactly when it has a publication, which  *)
(* is of the snapshot it was approved for and was made for it alone.       *)
(* About buy_instruction_service.publish and the transitions after it.     *)
(***************************************************************************)
InstructionsOwnTheirPublication ==
    /\ \A i \in 1..drafted :
        LET p == instructions[i].publication
        IN  /\ instructions[i].status = "DRAFT" <=> p = 0
            /\ p # 0 => /\ p \in 1..published
                        /\ instructions[i].approved
                        /\ publications[p].snap = instructions[i].snap
                        /\ publications[p].instruction = i
    /\ \A n \in 1..published :
        publications[n].instruction # 0 =>
            instructions[publications[n].instruction].publication = n

(***************************************************************************)
(* The desk keeps the promise of PriceBoard: the live publication is the   *)
(* board, the last publication that alerted the buyer holds the same       *)
(* prices, and nothing goes up that was not cleared by review.             *)
(***************************************************************************)
Alerts == {n \in 1..published : publications[n].notified}

LastAlert == CHOOSE n \in Alerts : \A m \in Alerts : m <= n

AlertedPrices ==
    IF Alerts = {} THEN NothingPriced ELSE publications[LastAlert].prices

Board == INSTANCE PriceBoard
         WITH board <- CurrentPrices, alerted <- AlertedPrices

KeepsPriceBoard == Board!Spec

(***************************************************************************)
(* What buy_instruction_service says of every publication: it is the       *)
(* result of publishing an approved instruction.                           *)
(***************************************************************************)
OnlyApprovedInstructionsPublish ==
    \A n \in 1..published : publications[n].instruction # 0

(***************************************************************************)
(* What the same module says approval is for: the buyer acts on the        *)
(* order-level prices that were reviewed, so no published price is above   *)
(* an approved one for an order of the species.                            *)
(***************************************************************************)
PublishesApprovedPrices ==
    \A n \in 1..published :
        publications[n].instruction # 0 =>
            \A o \in Orders :
                LET approved == instructions[publications[n].instruction].prices[o]
                    price == publications[n].prices[SpeciesOf[o]]
                IN  approved # None /\ price # None => price <= approved

(***************************************************************************)
(* What calculate_service says of a resolved correction request: a later   *)
(* submission supplied the value.                                          *)
(***************************************************************************)
ResolvedByALaterSubmission ==
    \A q \in 1..raised :
        requests[q].status = "RESOLVED" => requests[q].resolvedBy > requests[q].snap
=============================================================================
