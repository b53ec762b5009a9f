-------------------------- MODULE TradingDesk_proofs --------------------------
(***************************************************************************)
(* The properties of TradingDesk, for every order book, every engine and   *)
(* every bound of the tables.                                              *)
(***************************************************************************)
EXTENDS TradingDesk, OrderBook_proofs

-----------------------------------------------------------------------------
(* The inductive invariant *)

(* Rows below the counters exist and refer to rows that exist; nothing is  *)
(* recorded about a snapshot that is not there yet, and no issue is raised *)
(* for an order the snapshot does not have.                                *)
RowsExist ==
    /\ \A n \in 1..published :
        /\ publications[n] \in Publication
        /\ publications[n].snap \in 1..uploads
        /\ publications[n].instruction \in 0..drafted
    /\ \A i \in 1..drafted :
        /\ instructions[i] \in Instruction
        /\ instructions[i].snap \in 1..uploads
        /\ instructions[i].publication \in 0..published
    /\ \A q \in 1..raised : requests[q] \in Request
    /\ \A s \in SnapshotIds, o \in Orders, k \in Codes :
        /\ s \notin 1..uploads => book[s][o] = None
        /\ book[s][o] = None => issues[s][o][k] = "absent"

Typing == TypeOK /\ RowsExist /\ SupersessionIsAChain

(* Submissions are workbooks, and what is recorded for a snapshot is one   *)
(* run of the engine over it.                                              *)
BooksAreSubmitted ==
    \A s \in 1..uploads : book[s] \in Workbooks

RunOf(s, r) ==
    \A o \in ActiveOrders(book[s]) :
        /\ workings[s][o] = [price |-> Quote[book[s][o], r], ref |-> r]
        /\ \A k \in Raises[book[s][o], r] : issues[s][o][k] # "absent"

WorkingsAreOneRun ==
    \A s \in SnapshotIds :
        \/ \A o \in Orders : workings[s][o] = None
        \/ s \in 1..uploads /\ \E r \in Refs : RunOf(s, r)

(* What is acknowledged, and what would be carried forward, was reviewed.  *)
AcksAreReviews ==
    \A o \in Orders, k \in Codes :
        acks[o][k] # None => Review(o, k, acks[o][k]) \in reviews

(* Every publication was computed from one run without a gap.              *)
Priced(b, r) == \A o \in ActiveOrders(b) : Quote[b[o], r] # None

PublicationsAreRuns ==
    \A n \in 1..published : \E r \in Refs :
        LET b == book[publications[n].snap]
        IN  Priced(b, r) /\ publications[n].prices = SpeciesPrices(QuotesOf(b, r))

(* The last alert shows the live prices. *)
BuyerHeard ==
    \/ Alerts = {} /\ CurrentPrices = NothingPriced
    \/ \E a \in Alerts :
        /\ \A m \in Alerts : m <= a
        /\ publications[a].prices = CurrentPrices

IInv ==
    /\ Typing
    /\ BooksAreSubmitted
    /\ WorkingsAreOneRun
    /\ AcksAreReviews
    /\ AcknowledgementsAreEarned
    /\ PublicationsAreRuns
    /\ BuyerHeard
    /\ SnapshotStatusTruth
    /\ InstructionsOwnTheirPublication

-----------------------------------------------------------------------------
(* Facts about rows *)

LEMMA PricedLinesType ==
    ASSUME TypeOK, NEW s \in SnapshotIds
    PROVE  PricedLines(s) \in [Orders -> Price]
<1> SUFFICES ASSUME NEW o \in Orders
             PROVE  PricedLines(s)[o] \in Price
    BY DEF PricedLines
<1>1. workings[s][o] \in Working
    BY DEF TypeOK
<1> QED
    BY <1>1 DEF PricedLines, Working, Price

(* Along a chain the last publication is the current one, and the only one *)
(* not superseded.                                                         *)
LEMMA CurrentIsLast ==
    ASSUME Typing
    PROVE  Current = published
<1>1. published \in Nat
    BY DEF Typing, TypeOK
<1>2. CASE published = 0
    <2>1. Unsuperseded = {}
        BY <1>2 DEF Unsuperseded
    <2> QED
        BY <1>2, <2>1 DEF Current
<1>3. CASE published # 0
    <2>1. Unsuperseded = {published}
        BY <1>1, <1>3 DEF Unsuperseded, Typing, SupersessionIsAChain
    <2> QED
        BY <1>1, <2>1 DEF Current
<1> QED
    BY <1>2, <1>3

LEMMA CurrentIsLastNext ==
    ASSUME Typing'
    PROVE  Current' = published'
<1>1. published' \in Nat
    BY DEF Typing, TypeOK
<1>2. CASE published' = 0
    <2>1. Unsuperseded' = {}
        BY <1>2 DEF Unsuperseded
    <2> QED
        BY <1>2, <2>1 DEF Current
<1>3. CASE published' # 0
    <2>1. Unsuperseded' = {published'}
        BY <1>1, <1>3 DEF Unsuperseded, Typing, SupersessionIsAChain
    <2> QED
        BY <1>1, <2>1 DEF Current
<1> QED
    BY <1>2, <1>3

-----------------------------------------------------------------------------
(* The initial state *)

LEMMA InitInvariant == Init => IInv
<1> SUFFICES ASSUME Init
             PROVE  IInv
    OBVIOUS
<1> USE DeskAssumption
<1>1. TypeOK
    BY DEF Init, TypeOK, SnapStatuses, IssueStates, Book, Content, Working,
           SnapshotIds, PublicationIds, InstructionIds, RequestIds, AllReviews
<1>2. RowsExist /\ SupersessionIsAChain
    BY DEF Init, RowsExist, SupersessionIsAChain
<1>3. BooksAreSubmitted /\ WorkingsAreOneRun /\ PublicationsAreRuns
    BY DEF Init, BooksAreSubmitted, WorkingsAreOneRun, PublicationsAreRuns
<1>4. AcksAreReviews /\ AcknowledgementsAreEarned
    BY DEF Init, AcksAreReviews, AcknowledgementsAreEarned
<1>5. BuyerHeard
    <2>1. Unsuperseded = {} /\ Alerts = {}
        BY DEF Init, Unsuperseded, Alerts
    <2> QED
        BY <2>1 DEF BuyerHeard, CurrentPrices, Current
<1>6. SnapshotStatusTruth /\ InstructionsOwnTheirPublication
    BY DEF Init, SnapshotStatusTruth, InstructionsOwnTheirPublication
<1> QED
    BY <1>1, <1>2, <1>3, <1>4, <1>5, <1>6 DEF IInv, Typing

-----------------------------------------------------------------------------
(* Types and rows *)

LEMMA ActivateTypes ==
    ASSUME Typing, NEW r \in Refs, ActivateRef(r)
    PROVE  Typing'
BY DEF ActivateRef, Typing, TypeOK, RowsExist, SupersessionIsAChain,
       snapshotVars, reviewVars, pubVars, instrVars, requestVars

LEMMA CommitTypes ==
    ASSUME Typing, NEW b \in Workbooks, CommitSnapshot(b)
    PROVE  Typing'
<1>1. b \in Book
    BY BookAssumption DEF Book, Content
<1>2. uploads + 1 \in SnapshotIds /\ uploads' = uploads + 1
    BY DeskAssumption DEF CommitSnapshot, Typing, TypeOK, SnapshotIds
<1>3. TypeOK'
    BY <1>1, <1>2, DeskAssumption
    DEF CommitSnapshot, Typing, TypeOK, SnapshotIds, SnapStatuses, reviewVars,
        pubVars, instrVars, requestVars
<1>4. RowsExist'
    BY <1>1, <1>2, DeskAssumption
    DEF CommitSnapshot, Typing, TypeOK, RowsExist, SnapshotIds, reviewVars,
        pubVars, instrVars, requestVars
<1>5. SupersessionIsAChain'
    BY DEF CommitSnapshot, Typing, SupersessionIsAChain, pubVars
<1> QED
    BY <1>3, <1>4, <1>5 DEF Typing

LEMMA CalculateTypes ==
    ASSUME Typing, NEW s \in SnapshotIds, Calculate(s)
    PROVE  Typing'
<1> USE DEF Typing
<1>1. PICK outliers \in SUBSET MayBeOutlier(s) :
          issues' = [issues EXCEPT ![s] =
              [o \in Orders |->
                  [k \in Codes |-> IssueStateOf(s, o, k, outliers)]]]
    BY DEF Calculate
<1>2. \A o \in Orders, k \in Codes :
          /\ IssueStateOf(s, o, k, outliers) \in IssueStates
          /\ book[s][o] = None => IssueStateOf(s, o, k, outliers) = "absent"
    BY DEF IssueStateOf, IssueStates, Found
<1>3. issues' \in [SnapshotIds -> [Orders -> [Codes -> IssueStates]]]
    BY <1>1, <1>2 DEF TypeOK
<1>4. ASSUME NEW o \in ActiveOrders(book[s])
      PROVE  [price |-> Quote[book[s][o], active], ref |-> active] \in Working
    <2>1. book[s][o] \in Contents
        BY <1>4, BookAssumption DEF ActiveOrders
    <2> QED
        BY <2>1, QuoteIsPrice DEF Working, TypeOK
<1>5. workings' \in [SnapshotIds -> [Orders -> Working]]
    BY <1>4 DEF Calculate, TypeOK
<1>6. ASSUME NEW q \in 1..raised
      PROVE  requests'[q] \in Request
    <2>1. q \in RequestIds /\ s \in 0..MaxSnapshots
        BY DeskAssumption DEF TypeOK, RequestIds, SnapshotIds
    <2>2. requests'[q] = IF ResolvedHere(s, q)
                         THEN [requests[q] EXCEPT !.status = "RESOLVED",
                                                  !.resolvedBy = s]
                         ELSE requests[q]
        BY <2>1 DEF Calculate
    <2>3. requests[q] \in Request
        BY DEF RowsExist
    <2>4. [requests[q] EXCEPT !.status = "RESOLVED", !.resolvedBy = s] \in Request
        BY <2>1, <2>3 DEF Request
    <2> QED
        BY <2>2, <2>3, <2>4
<1>7. requests' \in [RequestIds -> Request \cup {None}]
    <2>1. ASSUME NEW q \in RequestIds
          PROVE  requests'[q] \in Request \cup {None}
        <3>1. CASE q \in 1..raised
            BY <1>6, <3>1 DEF RowsExist
        <3>2. CASE q \notin 1..raised
            BY <3>2 DEF Calculate, TypeOK, ResolvedHere
        <3> QED
            BY <3>1, <3>2
    <2> QED
        BY <2>1 DEF Calculate
<1>8. TypeOK'
    BY <1>3, <1>5, <1>7
    DEF Calculate, TypeOK, SnapStatuses, reviewVars, pubVars, instrVars
<1>9. RowsExist'
    <2>1. \A q \in 1..raised' : requests'[q] \in Request
        BY <1>6 DEF Calculate, RowsExist
    <2>2. \A x \in SnapshotIds, o \in Orders, k \in Codes :
              book[x][o] = None => issues'[x][o][k] = "absent"
        BY <1>1, <1>2 DEF TypeOK, RowsExist
    <2> QED
        BY <2>1, <2>2 DEF Calculate, RowsExist, pubVars, instrVars
<1>10. SupersessionIsAChain'
    BY DEF Calculate, SupersessionIsAChain, pubVars
<1> QED
    BY <1>8, <1>9, <1>10

(* A line with an issue has a content. *)
LEMMA IssueHasContent ==
    ASSUME Typing, NEW s \in SnapshotIds, NEW o \in Orders, NEW k \in Codes,
           issues[s][o][k] # "absent"
    PROVE  book[s][o] \in Contents /\ Fingerprint[book[s][o]] \in Fingerprints
BY DEF Typing, TypeOK, RowsExist, Book, Content, Fingerprints

LEMMA AcknowledgeTypes ==
    ASSUME Typing, NEW s \in SnapshotIds, NEW o \in Orders, NEW k \in Codes,
           AcknowledgeIssue(s, o, k)
    PROVE  Typing'
<1> USE DEF Typing
<1>1. Fingerprint[book[s][o]] \in Fingerprints
    BY IssueHasContent DEF AcknowledgeIssue
<1>2. Review(o, k, Fingerprint[book[s][o]]) \in AllReviews
    BY <1>1 DEF AcknowledgeIssue, Review, AllReviews
<1>3. TypeOK'
    BY <1>1, <1>2
    DEF AcknowledgeIssue, TypeOK, IssueStates, pubVars, instrVars, requestVars
<1>4. RowsExist' /\ SupersessionIsAChain'
    BY DEF AcknowledgeIssue, TypeOK, RowsExist, SupersessionIsAChain, pubVars,
           instrVars, requestVars
<1> QED
    BY <1>3, <1>4

LEMMA RequestTypes ==
    ASSUME Typing, RequestStep
    PROVE  Typing'
<1> USE DEF Typing
<1>1. ASSUME NEW s \in SnapshotIds, NEW o \in QueriedOrders, RaiseRequest(s, o)
      PROVE  Typing'
    <2>1. o \in Orders /\ raised + 1 \in RequestIds
        BY <1>1, DeskAssumption DEF RaiseRequest, TypeOK, RequestIds
    <2>2. TypeOK'
        BY <1>1, <2>1, DeskAssumption
        DEF RaiseRequest, TypeOK, Request, RequestIds, snapshotVars, reviewVars,
            pubVars, instrVars
    <2>3. RowsExist' /\ SupersessionIsAChain'
        BY <1>1, <2>1, DeskAssumption
        DEF RaiseRequest, TypeOK, RowsExist, SupersessionIsAChain, Request,
            RequestIds, snapshotVars, pubVars, instrVars
    <2> QED
        BY <2>2, <2>3
<1>2. ASSUME NEW q \in RequestIds, WithdrawRequest(q)
      PROVE  Typing'
    <2> DEFINE row == [requests[q] EXCEPT !.status = "WITHDRAWN"]
    <2>1. requests' = [requests EXCEPT ![q] = row]
        BY <1>2 DEF WithdrawRequest
    <2>2. row \in Request
        BY <1>2 DEF WithdrawRequest, RowsExist, Request
    <2> HIDE DEF row
    <2>3. TypeOK'
        BY <1>2, <2>1, <2>2
        DEF WithdrawRequest, TypeOK, snapshotVars, reviewVars, pubVars, instrVars
    <2>4. ASSUME NEW x \in 1..raised'
          PROVE  requests'[x] \in Request
        <3>1. x \in 1..raised /\ x \in RequestIds
            BY <1>2, DeskAssumption DEF WithdrawRequest, TypeOK, RequestIds
        <3>2. requests'[x] = IF x = q THEN row ELSE requests[x]
            BY <2>1, <3>1 DEF TypeOK
        <3> QED
            BY <2>2, <3>1, <3>2 DEF RowsExist
    <2>5. RowsExist' /\ SupersessionIsAChain'
        BY <1>2, <2>4
        DEF WithdrawRequest, RowsExist, SupersessionIsAChain, snapshotVars,
            pubVars, instrVars
    <2> QED
        BY <2>3, <2>5
<1> QED
    BY <1>1, <1>2 DEF RequestStep

(* What publishing does to the table of publications: one row is added,    *)
(* and the last one before it, if any, points to it.                       *)
NewRow(s, i) ==
    [snap |-> s, prices |-> SpeciesPrices(PricedLines(s)), supersededBy |-> 0,
     notified |-> PricesChanged(CurrentPrices, SpeciesPrices(PricedLines(s))),
     instruction |-> i]

LEMMA PublishRows ==
    ASSUME Typing, NEW s \in Uploaded, NEW i \in 0..drafted,
           PublishSnapshot(s, i)
    PROVE  /\ published \in Nat /\ published' = published + 1
           /\ published' \in PublicationIds
           /\ publications'[published'] = NewRow(s, i)
           /\ \A n \in 1..published :
                publications'[n] =
                    IF n = published
                    THEN [publications[n] EXCEPT !.supersededBy = published']
                    ELSE publications[n]
           /\ \A n \in PublicationIds \ 1..published' :
                publications'[n] = publications[n]
           /\ publications' = [n \in PublicationIds |-> publications'[n]]
<1>1. Current = published
    BY CurrentIsLast
<1>2. published \in Nat /\ published + 1 \in PublicationIds
    BY DeskAssumption DEF PublishSnapshot, Typing, TypeOK, PublicationIds
<1> QED
    BY <1>1, <1>2, DeskAssumption
    DEF PublishSnapshot, NewRow, PublicationIds, Typing, TypeOK

LEMMA NewRowIsPublication ==
    ASSUME Typing, NEW s \in Uploaded, NEW i \in 0..drafted
    PROVE  NewRow(s, i) \in Publication
<1>1. s \in SnapshotIds /\ i \in 0..MaxInstructions
    BY DeskAssumption DEF Typing, TypeOK, Uploaded, SnapshotIds
<1>2. SpeciesPrices(PricedLines(s)) \in [Species -> Price]
    BY <1>1, PricedLinesType, SpeciesPricesType DEF Typing
<1>3. PricesChanged(CurrentPrices, SpeciesPrices(PricedLines(s))) \in BOOLEAN
    BY DEF PricesChanged
<1>4. 0 \in 0..MaxPublications
    BY DeskAssumption
<1> QED
    BY <1>1, <1>2, <1>3, <1>4 DEF NewRow, Publication

LEMMA PublishTypes ==
    ASSUME Typing, NEW s \in Uploaded, NEW i \in 0..drafted,
           PublishSnapshot(s, i)
    PROVE  /\ published' \in 0..MaxPublications
           /\ publications' \in [PublicationIds -> Publication \cup {None}]
           /\ \A n \in 1..published' :
                /\ publications'[n] \in Publication
                /\ publications'[n].snap \in 1..uploads
                /\ publications'[n].instruction \in 0..drafted
           /\ SupersessionIsAChain'
           /\ snapStatus' \in [SnapshotIds -> SnapStatuses]
<1> DEFINE new == published'
<1>1. published \in Nat /\ new = published + 1 /\ new \in PublicationIds
    BY PublishRows
<1>2. publications'[new] = NewRow(s, i)
    BY PublishRows
<1>3. \A n \in 1..published :
          publications'[n] = IF n = published
                             THEN [publications[n] EXCEPT !.supersededBy = new]
                             ELSE publications[n]
    BY PublishRows
<1>4. new \in 0..MaxPublications
    BY <1>1, DeskAssumption DEF PublicationIds
<1> HIDE DEF new
<1>5. ASSUME NEW n \in 1..new
      PROVE  /\ publications'[n] \in Publication
             /\ publications'[n].snap \in 1..uploads
             /\ publications'[n].instruction \in 0..drafted
             /\ publications'[n].supersededBy = IF n = new THEN 0 ELSE n + 1
    <2>1. CASE n = new
        <3>1. NewRow(s, i).snap = s /\ NewRow(s, i).instruction = i
              /\ NewRow(s, i).supersededBy = 0
            BY DEF NewRow
        <3> QED
            BY <1>2, <2>1, <3>1, NewRowIsPublication DEF Uploaded
    <2>2. CASE n # new
        <3>1. n \in 1..published
            BY <1>1, <2>2
        <3>2. /\ publications[n] \in Publication
              /\ publications[n].snap \in 1..uploads
              /\ publications[n].instruction \in 0..drafted
              /\ publications[n].supersededBy =
                     IF n = published THEN 0 ELSE n + 1
            BY <3>1 DEF Typing, RowsExist, SupersessionIsAChain
        <3>3. CASE n = published
            BY <1>1, <1>3, <1>4, <2>2, <3>1, <3>2, <3>3 DEF Publication
        <3>4. CASE n # published
            BY <1>3, <2>2, <3>1, <3>2, <3>4
        <3> QED
            BY <3>3, <3>4
    <2> QED
        BY <2>1, <2>2
<1>6. publications' \in [PublicationIds -> Publication \cup {None}]
    <2>1. ASSUME NEW n \in PublicationIds
          PROVE  publications'[n] \in Publication \cup {None}
        <3>1. CASE n \in 1..new
            BY <1>5, <3>1
        <3>2. CASE n \notin 1..new
            BY <3>2, PublishRows DEF new, Typing, TypeOK
        <3> QED
            BY <3>1, <3>2
    <2>2. publications' = [n \in PublicationIds |-> publications'[n]]
        BY PublishRows
    <2> QED
        BY <2>1, <2>2
<1>7. SupersessionIsAChain'
    BY <1>5 DEF new, SupersessionIsAChain
<1>8. snapStatus' \in [SnapshotIds -> SnapStatuses]
    BY DEF PublishSnapshot, StatusAfterPublishing, SnapStatuses, Typing, TypeOK
<1> QED
    BY <1>4, <1>5, <1>6, <1>7, <1>8 DEF new

LEMMA PublishDirectlyTypes ==
    ASSUME Typing, NEW s \in SnapshotIds, PublishDirectly(s)
    PROVE  Typing'
<1>1. s \in Uploaded /\ 0 \in 0..drafted /\ PublishSnapshot(s, 0)
    BY DEF PublishDirectly, Typing, TypeOK
<1>2. TypeOK'
    BY <1>1, PublishTypes
    DEF PublishDirectly, Typing, TypeOK, reviewVars, instrVars, requestVars
<1>3. RowsExist'
    <2>1. \A i \in 1..drafted : instructions[i].publication \in 0..published'
        BY <1>1, PublishRows DEF Typing, RowsExist
    <2> QED
        BY <1>1, <2>1, PublishTypes
        DEF PublishDirectly, Typing, RowsExist, instrVars, requestVars
<1> QED
    BY <1>1, <1>2, <1>3, PublishTypes DEF Typing

LEMMA GenerateTypes ==
    ASSUME Typing, NEW s \in SnapshotIds, GenerateInstruction(s)
    PROVE  Typing'
<1> DEFINE row == [snap |-> s, prices |-> PricedLines(s), approved |-> FALSE,
                   status |-> "DRAFT", publication |-> 0]
<1>1. drafted \in Nat /\ drafted' = drafted + 1 /\ drafted + 1 \in InstructionIds
    BY DeskAssumption DEF GenerateInstruction, Typing, TypeOK, InstructionIds
<1>2. row \in Instruction
    BY PricedLinesType, DeskAssumption
    DEF GenerateInstruction, Typing, TypeOK, Instruction, InstrStatuses
<1>3. row.snap \in 1..uploads /\ row.publication = 0
    BY DEF GenerateInstruction, Uploaded
<1>4. instructions' = [instructions EXCEPT ![drafted + 1] = row]
    BY DEF GenerateInstruction
<1> HIDE DEF row
<1>5. TypeOK'
    BY <1>1, <1>2, <1>4, DeskAssumption
    DEF GenerateInstruction, Typing, TypeOK, InstructionIds, snapshotVars,
        reviewVars, pubVars, requestVars
<1>6. ASSUME NEW i \in 1..drafted'
      PROVE  /\ instructions'[i] \in Instruction
             /\ instructions'[i].snap \in 1..uploads
             /\ instructions'[i].publication \in 0..published
    <2>1. i \in InstructionIds
        BY <1>1, DeskAssumption DEF InstructionIds
    <2>2. CASE i = drafted + 1
        BY <1>2, <1>3, <1>4, <2>1, <2>2 DEF Typing, TypeOK
    <2>3. CASE i # drafted + 1
        <3>1. i \in 1..drafted /\ instructions'[i] = instructions[i]
            BY <1>1, <1>4, <2>1, <2>3 DEF Typing, TypeOK
        <3> QED
            BY <3>1 DEF Typing, RowsExist
    <2> QED
        BY <2>2, <2>3
<1>7. \A n \in 1..published : publications[n].instruction \in 0..drafted'
    BY <1>1 DEF Typing, RowsExist
<1>8. RowsExist' /\ SupersessionIsAChain'
    BY <1>6, <1>7
    DEF GenerateInstruction, Typing, RowsExist, SupersessionIsAChain,
        snapshotVars, pubVars, requestVars
<1> QED
    BY <1>5, <1>8 DEF Typing

(* The transitions of an instruction other than its publication. *)
InstructionUpdate(i, row) ==
    /\ i \in 1..drafted
    /\ row \in Instruction
    /\ row.snap = instructions[i].snap
    /\ row.publication = instructions[i].publication
    /\ instructions' = [instructions EXCEPT ![i] = row]
    /\ OnlyInstructions

LEMMA UpdateTypes ==
    ASSUME Typing, NEW i, NEW row, InstructionUpdate(i, row)
    PROVE  Typing'
<1>1. i \in InstructionIds
    BY DeskAssumption DEF InstructionUpdate, Typing, TypeOK, InstructionIds
<1>2. TypeOK'
    BY <1>1 DEF InstructionUpdate, OnlyInstructions, Typing, TypeOK,
                snapshotVars, reviewVars, pubVars, requestVars
<1>3. ASSUME NEW j \in 1..drafted
      PROVE  /\ instructions'[j] \in Instruction
             /\ instructions'[j].snap \in 1..uploads
             /\ instructions'[j].publication \in 0..published
    <2>1. instructions'[j] = IF j = i THEN row ELSE instructions[j]
        BY <1>1, DeskAssumption
        DEF InstructionUpdate, Typing, TypeOK, InstructionIds
    <2> QED
        BY <2>1 DEF InstructionUpdate, Typing, RowsExist
<1>4. RowsExist' /\ SupersessionIsAChain'
    BY <1>3 DEF InstructionUpdate, OnlyInstructions, Typing, RowsExist,
                SupersessionIsAChain, snapshotVars, pubVars, requestVars
<1> QED
    BY <1>2, <1>4 DEF Typing

Approved(i)     == [instructions[i] EXCEPT !.approved = TRUE]
Acknowledged(i) == [instructions[i] EXCEPT !.status = "ACKNOWLEDGED"]
Reconciled(i)   == [instructions[i] EXCEPT !.status = "RECONCILED"]

LEMMA TransitionsAreUpdates ==
    ASSUME Typing, NEW i \in InstructionIds
    PROVE  /\ ApproveInstruction(i) => InstructionUpdate(i, Approved(i))
           /\ AcknowledgeInstruction(i) => InstructionUpdate(i, Acknowledged(i))
           /\ ReconcileClose(i) => InstructionUpdate(i, Reconciled(i))
<1> SUFFICES ASSUME i \in 1..drafted
             PROVE  /\ ApproveInstruction(i) => InstructionUpdate(i, Approved(i))
                    /\ AcknowledgeInstruction(i) =>
                           InstructionUpdate(i, Acknowledged(i))
                    /\ ReconcileClose(i) => InstructionUpdate(i, Reconciled(i))
    BY DEF ApproveInstruction, AcknowledgeInstruction, ReconcileClose, InStatus
<1>1. instructions[i] \in Instruction
    BY DEF Typing, RowsExist
<1>2. ApproveInstruction(i) => InstructionUpdate(i, Approved(i))
    BY <1>1 DEF ApproveInstruction, InstructionUpdate, Approved, Instruction
<1>3. AcknowledgeInstruction(i) => InstructionUpdate(i, Acknowledged(i))
    BY <1>1 DEF AcknowledgeInstruction, InstructionUpdate, Acknowledged,
                Instruction, InstrStatuses
<1>4. ReconcileClose(i) => InstructionUpdate(i, Reconciled(i))
    BY <1>1 DEF ReconcileClose, InstructionUpdate, Reconciled, Instruction,
                InstrStatuses
<1> QED
    BY <1>2, <1>3, <1>4

(* The instruction after its publication. *)
Issued(i) ==
    [instructions[i] EXCEPT !.status = "ISSUED", !.publication = published + 1]

LEMMA IssuedRow ==
    ASSUME Typing, NEW i \in InstructionIds, PublishInstruction(i)
    PROVE  /\ i \in 1..drafted /\ instructions[i] \in Instruction
           /\ instructions[i].snap \in Uploaded
           /\ PublishSnapshot(instructions[i].snap, i)
           /\ instructions' = [instructions EXCEPT ![i] = Issued(i)]
           /\ Issued(i) \in Instruction
           /\ Issued(i).snap = instructions[i].snap
           /\ Issued(i).approved = TRUE
           /\ Issued(i).status = "ISSUED"
           /\ Issued(i).publication = published'
<1>1. i \in 1..drafted /\ instructions[i].approved
      /\ PublishSnapshot(instructions[i].snap, i)
    BY DEF PublishInstruction, InStatus
<1>2. instructions[i] \in Instruction /\ instructions[i].snap \in Uploaded
    BY <1>1 DEF Typing, RowsExist, Uploaded
<1>3. published' = published + 1 /\ published' \in 0..MaxPublications
    BY <1>1, <1>2, PublishRows, PublishTypes
<1>4. instructions' = [instructions EXCEPT ![i] = Issued(i)]
    BY DEF PublishInstruction, Issued
<1> QED
    BY <1>1, <1>2, <1>3, <1>4 DEF Issued, Instruction, InstrStatuses

LEMMA PublishInstructionTypes ==
    ASSUME Typing, NEW i \in InstructionIds, PublishInstruction(i)
    PROVE  Typing'
<1> DEFINE s == instructions[i].snap
<1>1. i \in 1..drafted /\ s \in Uploaded /\ PublishSnapshot(s, i)
    BY IssuedRow
<1>2. /\ instructions' = [instructions EXCEPT ![i] = Issued(i)]
      /\ Issued(i) \in Instruction /\ Issued(i).snap = s
      /\ Issued(i).publication = published'
    BY IssuedRow
<1> HIDE DEF s
<1>3. i \in 0..drafted
    BY <1>1 DEF Typing, TypeOK
<1>4. published \in Nat /\ published' = published + 1
    BY <1>1, <1>3, PublishRows
<1>5. TypeOK'
    BY <1>1, <1>2, <1>3, PublishTypes
    DEF PublishInstruction, Typing, TypeOK, reviewVars, requestVars
<1>6. ASSUME NEW j \in 1..drafted
      PROVE  /\ instructions'[j] \in Instruction
             /\ instructions'[j].snap \in 1..uploads
             /\ instructions'[j].publication \in 0..published'
    <2>1. j \in InstructionIds
        BY DeskAssumption DEF Typing, TypeOK, InstructionIds
    <2>2. instructions'[j] = IF j = i THEN Issued(i) ELSE instructions[j]
        BY <1>2, <2>1 DEF Typing, TypeOK
    <2>3. CASE j = i
        BY <1>1, <1>2, <1>4, <2>2, <2>3 DEF Uploaded
    <2>4. CASE j # i
        BY <1>4, <2>2, <2>4 DEF Typing, RowsExist
    <2> QED
        BY <2>3, <2>4
<1>7. \A n \in 1..published' :
          /\ publications'[n] \in Publication
          /\ publications'[n].snap \in 1..uploads
          /\ publications'[n].instruction \in 0..drafted
    BY <1>1, <1>3, PublishTypes
<1>8. RowsExist'
    <2>1. UNCHANGED <<uploads, book, issues, drafted, requests, raised>>
        BY DEF PublishInstruction, requestVars
    <2> QED
        BY <1>6, <1>7, <2>1 DEF Typing, RowsExist
<1> QED
    BY <1>1, <1>3, <1>5, <1>8, PublishTypes DEF Typing

LEMMA TypingStep ==
    ASSUME Typing, [Next]_vars
    PROVE  Typing'
<1>1. CASE UNCHANGED vars
    BY <1>1 DEF vars, snapshotVars, reviewVars, pubVars, instrVars, requestVars,
                Typing, TypeOK, RowsExist, SupersessionIsAChain
<1>2. CASE \E r \in Refs : ActivateRef(r)
    BY <1>2, ActivateTypes
<1>3. CASE SnapshotStep
    BY <1>3, CommitTypes, CalculateTypes, AcknowledgeTypes, PublishDirectlyTypes
    DEF SnapshotStep
<1>4. CASE RequestStep
    BY <1>4, RequestTypes
<1>5. CASE InstructionStep
    <2>1. ASSUME NEW i \in InstructionIds,
                 \/ ApproveInstruction(i)
                 \/ AcknowledgeInstruction(i)
                 \/ ReconcileClose(i)
          PROVE  Typing'
        BY <2>1, TransitionsAreUpdates, UpdateTypes
    <2> QED
        BY <1>5, <2>1, GenerateTypes, PublishInstructionTypes DEF InstructionStep
<1> QED
    BY <1>1, <1>2, <1>3, <1>4, <1>5 DEF Next

(* TypeOK holds in every state, for every bound of the tables: about the   *)
(* shape of every row the requests write.                                  *)
THEOREM TypesHold == Spec => []TypeOK
<1>1. Init => Typing
    BY InitInvariant DEF IInv
<1>2. Typing /\ [Next]_vars => Typing'
    BY TypingStep
<1>3. Typing => TypeOK
    BY DEF Typing
<1> QED
    BY <1>1, <1>2, <1>3, PTL DEF Spec

(* Publications supersede each other in a chain, whatever is recalculated, *)
(* republished or issued in between: about publish and get_current_for_org *)
(* when requests do not overlap.                                           *)
THEOREM ChainHolds == Spec => []SupersessionIsAChain
<1>1. Init => Typing
    BY InitInvariant DEF IInv
<1>2. Typing /\ [Next]_vars => Typing'
    BY TypingStep
<1>3. Typing => SupersessionIsAChain
    BY DEF Typing
<1> QED
    BY <1>1, <1>2, <1>3, PTL DEF Spec

-----------------------------------------------------------------------------
(* What a step can do to snapshots, reviews and publications *)

Publishing ==
    /\ \E s \in Uploaded, i \in 0..drafted : PublishSnapshot(s, i)
    /\ UNCHANGED <<uploads, book, workings, issues, acks, reviews>>

Quiet ==
    UNCHANGED <<uploads, book, snapStatus, workings, issues, acks, reviews,
                publications, published>>

LEMMA StepKinds ==
    ASSUME Typing, [Next]_vars
    PROVE  \/ Quiet
           \/ \E b \in Workbooks : CommitSnapshot(b)
           \/ \E s \in SnapshotIds : Calculate(s)
           \/ \E s \in SnapshotIds, o \in Orders, k \in Codes :
                  AcknowledgeIssue(s, o, k)
           \/ Publishing
<1>1. CASE UNCHANGED vars
    BY <1>1 DEF Quiet, vars, snapshotVars, reviewVars, pubVars
<1>2. CASE \E r \in Refs : ActivateRef(r)
    BY <1>2 DEF Quiet, ActivateRef, snapshotVars, reviewVars, pubVars
<1>3. ASSUME NEW s \in SnapshotIds, PublishDirectly(s)
      PROVE  Publishing
    <2>1. 0 \in 0..drafted
        BY DEF Typing, TypeOK
    <2> QED
        BY <1>3, <2>1 DEF PublishDirectly, Publishing, reviewVars
<1>4. CASE SnapshotStep
    BY <1>3, <1>4 DEF SnapshotStep
<1>5. CASE RequestStep
    BY <1>5 DEF RequestStep, RaiseRequest, WithdrawRequest, Quiet, snapshotVars,
                reviewVars, pubVars
<1>6. ASSUME NEW i \in InstructionIds, PublishInstruction(i)
      PROVE  Publishing
    <2>1. /\ i \in 1..drafted /\ instructions[i].snap \in Uploaded
          /\ PublishSnapshot(instructions[i].snap, i)
        BY <1>6, IssuedRow
    <2>2. i \in 0..drafted
        BY <2>1 DEF Typing, TypeOK
    <2>3. UNCHANGED <<uploads, book, workings, issues, acks, reviews>>
        BY <1>6 DEF PublishInstruction, reviewVars
    <2> QED
        BY <2>1, <2>2, <2>3 DEF Publishing
<1>7. ASSUME NEW i \in InstructionIds,
             \/ ApproveInstruction(i)
             \/ AcknowledgeInstruction(i)
             \/ ReconcileClose(i)
      PROVE  Quiet
    BY <1>7 DEF ApproveInstruction, AcknowledgeInstruction, ReconcileClose,
                OnlyInstructions, Quiet, snapshotVars, reviewVars, pubVars
<1>8. ASSUME NEW s \in SnapshotIds, GenerateInstruction(s)
      PROVE  Quiet
    BY <1>8 DEF GenerateInstruction, Quiet, snapshotVars, reviewVars, pubVars
<1>9. CASE InstructionStep
    BY <1>6, <1>7, <1>8, <1>9 DEF InstructionStep
<1> QED
    BY <1>1, <1>2, <1>4, <1>5, <1>9 DEF Next

-----------------------------------------------------------------------------
(* One run of the engine *)

LEMMA BooksStep ==
    ASSUME Typing, BooksAreSubmitted, [Next]_vars
    PROVE  BooksAreSubmitted'
<1>1. CASE UNCHANGED <<uploads, book>>
    BY <1>1 DEF BooksAreSubmitted
<1>2. ASSUME NEW b \in Workbooks, CommitSnapshot(b)
      PROVE  BooksAreSubmitted'
    <2>1. uploads' = uploads + 1 /\ book' = [book EXCEPT ![uploads + 1] = b]
        BY <1>2 DEF CommitSnapshot
    <2>2. uploads \in Nat /\ 1..(uploads + 1) \subseteq SnapshotIds
        BY <1>2, DeskAssumption DEF CommitSnapshot, Typing, TypeOK, SnapshotIds
    <2> QED
        BY <2>1, <2>2 DEF BooksAreSubmitted, Typing, TypeOK
<1> QED
    BY <1>1, <1>2, StepKinds
    DEF Quiet, Calculate, AcknowledgeIssue, Publishing

LEMMA CalculateIsARun ==
    ASSUME Typing, NEW s \in SnapshotIds, Calculate(s)
    PROVE  s \in 1..uploads' /\ \E r \in Refs : RunOf(s, r)'
<1>1. PICK outliers \in SUBSET MayBeOutlier(s) :
          issues' = [issues EXCEPT ![s] =
              [o \in Orders |->
                  [k \in Codes |-> IssueStateOf(s, o, k, outliers)]]]
    BY DEF Calculate
<1>2. workings' = [workings EXCEPT ![s] =
           [o \in Orders |->
               IF o \in ActiveOrders(book[s])
               THEN [price |-> Quote[book[s][o], active], ref |-> active]
               ELSE workings[s][o]]]
      /\ book' = book /\ uploads' = uploads /\ s \in 1..uploads
    BY DEF Calculate, Uploaded
<1>3. ASSUME NEW o \in ActiveOrders(book[s])
      PROVE  /\ workings'[s][o] =
                    [price |-> Quote[book[s][o], active], ref |-> active]
             /\ \A k \in Raises[book[s][o], active] : issues'[s][o][k] # "absent"
    <2>1. o \in Orders /\ book[s][o] \in Contents
        BY BookAssumption DEF ActiveOrders
    <2>2. book[s][o] # None /\ active \in Refs
        BY <2>1, NoneAssumption DEF Typing, TypeOK
    <2>3. ASSUME NEW k \in Raises[book[s][o], active]
          PROVE  issues'[s][o][k] # "absent"
        <3>1. k \in Codes
            BY <2>1, <2>2, QuoteIsPrice
        <3>2. k \in Found(s, o, outliers)
            BY <2>2 DEF Found
        <3>3. IssueStateOf(s, o, k, outliers) # "absent"
            BY <3>2 DEF IssueStateOf
        <3> QED
            BY <1>1, <2>1, <3>1, <3>3 DEF Typing, TypeOK
    <2>4. workings'[s][o] = [price |-> Quote[book[s][o], active], ref |-> active]
        BY <1>2, <2>1 DEF Typing, TypeOK
    <2> QED
        BY <2>3, <2>4
<1>4. active \in Refs
    BY DEF Typing, TypeOK
<1> QED
    BY <1>2, <1>3, <1>4 DEF RunOf

LEMMA WorkingsStep ==
    ASSUME Typing, WorkingsAreOneRun, [Next]_vars
    PROVE  WorkingsAreOneRun'
<1>1. CASE UNCHANGED <<uploads, book, workings, issues>>
    BY <1>1 DEF WorkingsAreOneRun, RunOf
<1>2. ASSUME NEW b \in Workbooks, CommitSnapshot(b)
      PROVE  WorkingsAreOneRun'
    <2>1. /\ uploads' = uploads + 1 /\ uploads \in Nat
          /\ book' = [book EXCEPT ![uploads + 1] = b]
          /\ workings' = workings /\ issues' = issues
        BY <1>2 DEF CommitSnapshot, Typing, TypeOK
    <2>2. ASSUME NEW x \in SnapshotIds, x \in 1..uploads, NEW r \in Refs, RunOf(x, r)
          PROVE  x \in 1..uploads' /\ RunOf(x, r)'
        <3>1. book'[x] = book[x] /\ x \in 1..uploads'
            BY <2>1, <2>2 DEF Typing, TypeOK
        <3> QED
            BY <2>1, <2>2, <3>1 DEF RunOf
    <2> QED
        BY <2>1, <2>2 DEF WorkingsAreOneRun
<1>3. ASSUME NEW s \in SnapshotIds, Calculate(s)
      PROVE  WorkingsAreOneRun'
    <2>1. s \in 1..uploads' /\ \E r \in Refs : RunOf(s, r)'
        BY <1>3, CalculateIsARun
    <2>2. ASSUME NEW x \in SnapshotIds, x # s
          PROVE  /\ workings'[x] = workings[x] /\ issues'[x] = issues[x]
                 /\ book'[x] = book[x] /\ uploads' = uploads
        BY <1>3, <2>2 DEF Calculate, Typing, TypeOK
    <2>3. ASSUME NEW x \in SnapshotIds, x # s, NEW r \in Refs, RunOf(x, r)
          PROVE  RunOf(x, r)'
        BY <2>2, <2>3 DEF RunOf
    <2> QED
        BY <2>1, <2>2, <2>3 DEF WorkingsAreOneRun
<1>4. ASSUME NEW s \in SnapshotIds, NEW o \in Orders, NEW k \in Codes,
             AcknowledgeIssue(s, o, k)
      PROVE  WorkingsAreOneRun'
    <2>1. workings' = workings /\ book' = book /\ uploads' = uploads
        BY <1>4 DEF AcknowledgeIssue
    <2>2. ASSUME NEW x \in SnapshotIds, NEW y \in Orders, NEW j,
                 issues[x][y][j] # "absent"
          PROVE  issues'[x][y][j] # "absent"
        BY <1>4, <2>2 DEF AcknowledgeIssue, Typing, TypeOK
    <2>3. ASSUME NEW x \in SnapshotIds, NEW r \in Refs, RunOf(x, r)
          PROVE  RunOf(x, r)'
        BY <2>1, <2>2, <2>3 DEF RunOf, ActiveOrders
    <2> QED
        BY <2>1, <2>3 DEF WorkingsAreOneRun
<1> QED
    BY <1>1, <1>2, <1>3, <1>4, StepKinds DEF Quiet, Publishing

-----------------------------------------------------------------------------
(* Reviews *)

ReviewsKept == AcksAreReviews /\ AcknowledgementsAreEarned

LEMMA ReviewsStep ==
    ASSUME Typing, ReviewsKept, [Next]_vars
    PROVE  ReviewsKept'
<1> USE DEF ReviewsKept
<1>1. CASE UNCHANGED <<uploads, book, issues, acks, reviews>>
    BY <1>1 DEF AcksAreReviews, AcknowledgementsAreEarned
<1>2. ASSUME NEW b \in Workbooks, CommitSnapshot(b)
      PROVE  ReviewsKept'
    <2>1. /\ uploads' = uploads + 1 /\ uploads \in Nat
          /\ uploads + 1 \in SnapshotIds
          /\ book' = [book EXCEPT ![uploads + 1] = b]
          /\ issues' = issues /\ acks' = acks /\ reviews' = reviews
        BY <1>2, DeskAssumption
        DEF CommitSnapshot, Typing, TypeOK, SnapshotIds, reviewVars
    <2>2. ASSUME NEW s \in 1..uploads', NEW o \in Orders, NEW k \in Codes,
                 issues[s][o][k] = "acknowledged"
          PROVE  Review(o, k, Fingerprint[book'[s][o]]) \in reviews
        <3>1. s \in 1..uploads
            BY <2>1, <2>2 DEF Typing, RowsExist
        <3>2. book'[s] = book[s]
            BY <2>1, <3>1 DEF Typing, TypeOK
        <3> QED
            BY <2>2, <3>1, <3>2 DEF AcknowledgementsAreEarned
    <2> QED
        BY <2>1, <2>2 DEF AcksAreReviews, AcknowledgementsAreEarned
<1>3. ASSUME NEW s \in SnapshotIds, Calculate(s)
      PROVE  ReviewsKept'
    <2>1. PICK outliers \in SUBSET MayBeOutlier(s) :
              issues' = [issues EXCEPT ![s] =
                  [o \in Orders |->
                      [k \in Codes |-> IssueStateOf(s, o, k, outliers)]]]
        BY <1>3 DEF Calculate
    <2>2. /\ uploads' = uploads /\ book' = book /\ acks' = acks
          /\ reviews' = reviews
        BY <1>3 DEF Calculate, reviewVars
    <2>3. ASSUME NEW o \in Orders, NEW k \in Codes,
                 IssueStateOf(s, o, k, outliers) = "acknowledged"
          PROVE  Review(o, k, Fingerprint[book[s][o]]) \in reviews
        <3>1. book[s][o] # None /\ acks[o][k] = Fingerprint[book[s][o]]
            BY <2>3 DEF IssueStateOf, Found, CarriedForward
        <3>2. Fingerprint[book[s][o]] \in Fingerprints
            BY <3>1 DEF Typing, TypeOK, Book, Content, Fingerprints
        <3>3. acks[o][k] # None
            BY <3>1, <3>2, NoneAssumption
        <3> QED
            BY <3>1, <3>3 DEF AcksAreReviews
    <2>4. ASSUME NEW x \in 1..uploads, NEW o \in Orders, NEW k \in Codes,
                 issues'[x][o][k] = "acknowledged"
          PROVE  Review(o, k, Fingerprint[book[x][o]]) \in reviews
        <3>1. x \in SnapshotIds
            BY DeskAssumption DEF Typing, TypeOK, SnapshotIds
        <3>2. CASE x = s
            BY <2>1, <2>3, <2>4, <3>1, <3>2 DEF Typing, TypeOK
        <3>3. CASE x # s
            BY <2>1, <2>4, <3>1, <3>3 DEF Typing, TypeOK, AcknowledgementsAreEarned
        <3> QED
            BY <3>2, <3>3
    <2> QED
        BY <2>2, <2>4 DEF AcksAreReviews, AcknowledgementsAreEarned
<1>4. ASSUME NEW s \in SnapshotIds, NEW o \in Orders, NEW k \in Codes,
             AcknowledgeIssue(s, o, k)
      PROVE  ReviewsKept'
    <2> DEFINE f == Fingerprint[book[s][o]]
    <2>1. /\ issues' = [issues EXCEPT ![s][o][k] = "acknowledged"]
          /\ acks' = [acks EXCEPT ![o][k] = f]
          /\ reviews' = reviews \cup {Review(o, k, f)}
          /\ uploads' = uploads /\ book' = book
        BY <1>4 DEF AcknowledgeIssue
    <2>2. AcksAreReviews'
        BY <2>1 DEF AcksAreReviews, Typing, TypeOK
    <2>3. ASSUME NEW x \in 1..uploads, NEW y \in Orders, NEW j \in Codes,
                 issues'[x][y][j] = "acknowledged"
          PROVE  Review(y, j, Fingerprint[book[x][y]]) \in reviews'
        <3>1. x \in SnapshotIds
            BY DeskAssumption DEF Typing, TypeOK, SnapshotIds
        <3>2. CASE x = s /\ y = o /\ j = k
            BY <2>1, <3>2
        <3>3. CASE ~(x = s /\ y = o /\ j = k)
            <4>1. issues[x][y][j] = "acknowledged"
                BY <2>1, <2>3, <3>1, <3>3 DEF Typing, TypeOK
            <4> QED
                BY <2>1, <4>1 DEF AcknowledgementsAreEarned
        <3> QED
            BY <3>2, <3>3
    <2> QED
        BY <2>1, <2>2, <2>3 DEF AcknowledgementsAreEarned
<1> QED
    BY <1>1, <1>2, <1>3, <1>4, StepKinds DEF Quiet, Publishing

(* Nobody's review is invented: about the acknowledgements carried forward *)
(* by calculate_snapshot, over any number of submissions and reviews.      *)
THEOREM AcknowledgementsHold == Spec => []AcknowledgementsAreEarned
<1>1. Init => Typing /\ ReviewsKept
    BY InitInvariant DEF IInv, ReviewsKept
<1>2. Typing /\ ReviewsKept /\ [Next]_vars => (Typing /\ ReviewsKept)'
    BY TypingStep, ReviewsStep
<1>3. Typing /\ ReviewsKept => AcknowledgementsAreEarned
    BY DEF ReviewsKept
<1> QED
    BY <1>1, <1>2, <1>3, PTL DEF Spec

-----------------------------------------------------------------------------
(* Publications *)

(* Rows that exist keep everything but the pointer to their successor. *)
LEMMA OldRowsKept ==
    ASSUME Typing, NEW s \in Uploaded, NEW i \in 0..drafted,
           PublishSnapshot(s, i), NEW n \in 1..published
    PROVE  /\ publications'[n].snap = publications[n].snap
           /\ publications'[n].prices = publications[n].prices
           /\ publications'[n].notified = publications[n].notified
           /\ publications'[n].instruction = publications[n].instruction
<1>1. publications'[n] = IF n = published
                         THEN [publications[n] EXCEPT !.supersededBy = published']
                         ELSE publications[n]
    BY PublishRows
<1>2. publications[n] \in Publication
    BY DEF Typing, RowsExist
<1> QED
    BY <1>1, <1>2 DEF Publication

(* The row a calculation writes is no null, and holds its price. *)
LEMMA WorkingRow ==
    ASSUME NEW q \in Price, NEW r \in Refs
    PROVE  /\ [price |-> q, ref |-> r] # None
           /\ [price |-> q, ref |-> r].price = q
<1>1. [price |-> q, ref |-> r] \in [price : Price, ref : Refs]
    OBVIOUS
<1> QED
    BY <1>1, RowAssumption

(* What passes the gate is one run of the engine without a gap, and every  *)
(* concern of that run was reviewed.                                       *)
LEMMA GatePassesARun ==
    ASSUME Typing, WorkingsAreOneRun, AcknowledgementsAreEarned,
           NEW s \in Uploaded, Publishable(s),
           SpeciesPrices(PricedLines(s)) # NothingPriced
    PROVE  \E r \in Refs :
               /\ PricedLines(s) = QuotesOf(book[s], r)
               /\ Priced(book[s], r)
               /\ ActiveOrders(book[s]) # {}
               /\ \A o \in ActiveOrders(book[s]) : \A k \in Raises[book[s][o], r] :
                    /\ Severity[k] # "BLOCK"
                    /\ Reviewable(k) =>
                           Review(o, k, Fingerprint[book[s][o]]) \in reviews
<1>1. s \in SnapshotIds
    BY DeskAssumption DEF Uploaded, Typing, TypeOK, SnapshotIds
<1>2. PICK x \in Orders : PricedLines(s)[x] # None
    BY NoPricesNothingPriced
<1>3. x \in ActiveOrders(book[s]) /\ workings[s][x] # None
    BY <1>2 DEF PricedLines
<1>4. PICK r \in Refs : RunOf(s, r)
    BY <1>1, <1>3 DEF WorkingsAreOneRun
<1>5. ASSUME NEW o \in ActiveOrders(book[s])
      PROVE  /\ o \in Orders /\ book[s][o] \in Contents
             /\ workings[s][o] = [price |-> Quote[book[s][o], r], ref |-> r]
             /\ workings[s][o] # None
             /\ workings[s][o].price = Quote[book[s][o], r]
    <2> DEFINE q == Quote[book[s][o], r]
    <2>1. o \in Orders /\ book[s][o] \in Contents
        BY BookAssumption DEF ActiveOrders
    <2>2. workings[s][o] = [price |-> q, ref |-> r]
        BY <1>4 DEF RunOf
    <2>3. q \in Price
        BY <2>1, QuoteIsPrice
    <2> HIDE DEF q
    <2>4. workings[s][o] # None /\ workings[s][o].price = q
        BY <2>2, <2>3, WorkingRow
    <2> QED
        BY <2>1, <2>2, <2>4 DEF q
<1>6. PricedLines(s) = QuotesOf(book[s], r)
    <2>1. ASSUME NEW o \in Orders
          PROVE  PricedLines(s)[o] = QuotesOf(book[s], r)[o]
        <3>1. CASE o \in ActiveOrders(book[s])
            BY <1>5, <3>1 DEF PricedLines, QuotesOf
        <3>2. CASE o \notin ActiveOrders(book[s])
            BY <3>2 DEF PricedLines, QuotesOf
        <3> QED
            BY <3>1, <3>2
    <2> QED
        BY <2>1 DEF PricedLines, QuotesOf
<1>7. ASSUME NEW o \in ActiveOrders(book[s]), NEW k \in Raises[book[s][o], r]
      PROVE  /\ Severity[k] # "BLOCK"
             /\ Reviewable(k) => Review(o, k, Fingerprint[book[s][o]]) \in reviews
    <2>1. k \in Codes
        BY <1>5, QuoteIsPrice
    <2>2. issues[s][o][k] # "absent"
        BY <1>4 DEF RunOf
    <2>3. /\ Severity[k] # "BLOCK"
          /\ Reviewable(k) => issues[s][o][k] = "acknowledged"
        BY <2>1, <2>2 DEF Publishable
    <2> QED
        BY <1>5, <2>1, <2>3 DEF AcknowledgementsAreEarned, Uploaded
<1>8. Priced(book[s], r)
    <2>1. ASSUME NEW o \in ActiveOrders(book[s]), Quote[book[s][o], r] = None
          PROVE  FALSE
        <3>1. book[s][o] \in ActiveContents
            BY DEF ActiveOrders
        <3> QED
            BY <1>7, <2>1, <3>1, UnpricedIsBlocked
    <2> QED
        BY <2>1 DEF Priced
<1> QED
    BY <1>3, <1>6, <1>7, <1>8

LEMMA RunsStep ==
    ASSUME Typing, WorkingsAreOneRun, AcknowledgementsAreEarned,
           PublicationsAreRuns, [Next]_vars
    PROVE  PublicationsAreRuns'
<1>1. CASE UNCHANGED <<book, publications, published>>
    BY <1>1 DEF PublicationsAreRuns
<1>2. ASSUME NEW b \in Workbooks, CommitSnapshot(b)
      PROVE  PublicationsAreRuns'
    <2>1. /\ book' = [book EXCEPT ![uploads + 1] = b] /\ uploads \in Nat
          /\ publications' = publications /\ published' = published
        BY <1>2 DEF CommitSnapshot, Typing, TypeOK, pubVars
    <2>2. ASSUME NEW n \in 1..published
          PROVE  book'[publications[n].snap] = book[publications[n].snap]
        <3>1. publications[n].snap \in 1..uploads
            BY DEF Typing, RowsExist
        <3>2. publications[n].snap # uploads + 1
            BY <2>1, <3>1
        <3> QED
            BY <2>1, <3>2 DEF Typing, TypeOK
    <2> QED
        BY <2>1, <2>2 DEF PublicationsAreRuns
<1>3. ASSUME NEW s \in Uploaded, NEW i \in 0..drafted, PublishSnapshot(s, i),
             book' = book
      PROVE  PublicationsAreRuns'
    <2>1. published \in Nat /\ published' = published + 1
        BY <1>3, PublishRows
    <2>2. ASSUME NEW n \in 1..published
          PROVE  \E r \in Refs :
                    LET b == book[publications'[n].snap]
                    IN  /\ Priced(b, r)
                        /\ publications'[n].prices = SpeciesPrices(QuotesOf(b, r))
        BY <1>3, OldRowsKept DEF PublicationsAreRuns
    <2>3. /\ publications'[published'].snap = s
          /\ publications'[published'].prices = SpeciesPrices(PricedLines(s))
        <3>1. publications'[published'] = NewRow(s, i)
            BY <1>3, PublishRows
        <3> QED
            BY <3>1 DEF NewRow
    <2>4. Publishable(s) /\ SpeciesPrices(PricedLines(s)) # NothingPriced
        BY <1>3 DEF PublishSnapshot
    <2>5. \E r \in Refs : /\ PricedLines(s) = QuotesOf(book[s], r)
                          /\ Priced(book[s], r)
        BY <2>4, GatePassesARun
    <2>6. ASSUME NEW n \in 1..published'
          PROVE  \E r \in Refs :
                    LET b == book[publications'[n].snap]
                    IN  /\ Priced(b, r)
                        /\ publications'[n].prices = SpeciesPrices(QuotesOf(b, r))
        <3>1. CASE n = published'
            BY <2>3, <2>5, <3>1
        <3>2. CASE n # published'
            <4>1. n \in 1..published
                BY <2>1, <3>2
            <4> QED
                BY <2>2, <4>1
        <3> QED
            BY <3>1, <3>2
    <2>7. PublicationsAreRuns' =
              \A n \in 1..published' : \E r \in Refs :
                    LET b == book'[publications'[n].snap]
                    IN  /\ Priced(b, r)
                        /\ publications'[n].prices = SpeciesPrices(QuotesOf(b, r))
        BY DEF PublicationsAreRuns, Priced, QuotesOf, SpeciesPrices, ActiveOrders
    <2> QED
        BY <1>3, <2>6, <2>7
<1> QED
    BY <1>1, <1>2, <1>3, StepKinds
    DEF Quiet, Calculate, AcknowledgeIssue, Publishing, pubVars

(* A price computed from one run without a gap is the least quote of its   *)
(* species, and there is none only if nobody has an order for it.          *)
LEMMA RunPrices ==
    ASSUME NEW b \in Workbooks, NEW r \in Refs, Priced(b, r), NEW sp \in Species
    PROVE  LET price == SpeciesPrices(QuotesOf(b, r))[sp]
           IN  IF OffersIn(b, r, sp) = {} THEN price = None
               ELSE /\ None \notin OffersIn(b, r, sp)
                    /\ price \in OffersIn(b, r, sp)
                    /\ \A q \in OffersIn(b, r, sp) : price <= q
<1> DEFINE price == SpeciesPrices(QuotesOf(b, r))[sp]
           quotes == QuotesOf(b, r)
           offers == {quotes[o] : o \in {x \in Orders : SpeciesOf[x] = sp}} \ {None}
           given == OffersIn(b, r, sp)
<1>1. price = IF offers = {} THEN None ELSE Least(offers)
    BY DEF SpeciesPrices
<1>2. \A o \in Orders : quotes[o] = IF o \in ActiveOrders(b) THEN Quote[b[o], r]
                                    ELSE None
    BY DEF QuotesOf
<1>3. \A o \in ActiveOrders(b) : o \in Orders /\ Quote[b[o], r] # None
    BY DEF ActiveOrders, Priced
<1>4. given = {Quote[b[o], r] : o \in {x \in ActiveOrders(b) : SpeciesOf[x] = sp}}
    BY DEF OffersIn
<1> HIDE DEF quotes, price
<1>5. offers = given
    BY <1>2, <1>3, <1>4
<1>6. given \in SUBSET Quotes
    <2>1. ASSUME NEW o \in ActiveOrders(b)
          PROVE  Quote[b[o], r] \in Quotes
        <3>1. b[o] \in Contents
            BY BookAssumption DEF ActiveOrders
        <3> QED
            BY <1>3, <3>1, QuoteIsPrice DEF Price
    <2> QED
        BY <1>4, <2>1
<1> HIDE DEF offers, given
<1>7. CASE given = {}
    BY <1>1, <1>5, <1>7 DEF given, price
<1>8. CASE given # {}
    <2>1. price = Least(given)
        BY <1>1, <1>5, <1>8
    <2>2. price \in given /\ \A q \in given : price <= q
        BY <1>6, <1>8, <2>1, LeastIsAnOffer
    <2>3. None \notin given
        BY <1>6, PricesAreNumbers
    <2> QED
        BY <1>8, <2>2, <2>3 DEF given, price
<1> QED
    BY <1>7, <1>8

LEMMA RunsArePublished ==
    ASSUME Typing, BooksAreSubmitted, PublicationsAreRuns
    PROVE  PublishedPricesAreOneRun
<1> SUFFICES ASSUME NEW n \in 1..published
             PROVE  \E r \in Refs : \A sp \in Species :
                        LET b == book[publications[n].snap]
                            prices == publications[n].prices
                        IN  IF OffersIn(b, r, sp) = {} THEN prices[sp] = None
                            ELSE /\ None \notin OffersIn(b, r, sp)
                                 /\ prices[sp] \in OffersIn(b, r, sp)
                                 /\ \A q \in OffersIn(b, r, sp) : prices[sp] <= q
    BY DEF PublishedPricesAreOneRun
<1> DEFINE b == book[publications[n].snap]
<1>1. b \in Workbooks
    BY DEF Typing, RowsExist, BooksAreSubmitted
<1>2. PICK r \in Refs : /\ Priced(b, r)
                        /\ publications[n].prices = SpeciesPrices(QuotesOf(b, r))
    BY DEF PublicationsAreRuns
<1> HIDE DEF b
<1>3. \A sp \in Species :
          LET prices == publications[n].prices
          IN  IF OffersIn(b, r, sp) = {} THEN prices[sp] = None
              ELSE /\ None \notin OffersIn(b, r, sp)
                   /\ prices[sp] \in OffersIn(b, r, sp)
                   /\ \A q \in OffersIn(b, r, sp) : prices[sp] <= q
    BY <1>1, <1>2, RunPrices
<1> QED
    BY <1>3 DEF b

-----------------------------------------------------------------------------
(* What the buyer heard *)

(* Publishing puts up the new row's prices, and alerts unless they are the *)
(* ones that were up.                                                      *)
LEMMA PublishShows ==
    ASSUME Typing, NEW s \in Uploaded, NEW i \in 0..drafted,
           PublishSnapshot(s, i), Typing'
    PROVE  LET prices == SpeciesPrices(PricedLines(s))
           IN  /\ prices # NothingPriced
               /\ CurrentPrices' = prices
               /\ publications'[published'].prices = prices
               /\ CurrentPrices # prices =>
                      publications'[published'].notified = TRUE
               /\ CurrentPrices = prices =>
                      publications'[published'].notified = FALSE
               /\ publications'[published'].snap = s
               /\ publications'[published'].instruction = i
               /\ Current' = published' /\ Current' # 0
<1> DEFINE prices == SpeciesPrices(PricedLines(s))
<1>1. prices # NothingPriced
    BY DEF PublishSnapshot
<1>2. published \in Nat /\ published' = published + 1
    BY PublishRows
<1>3. publications'[published'] = NewRow(s, i)
    BY PublishRows
<1>4. Current' = published'
    BY CurrentIsLastNext
<1>5. /\ NewRow(s, i).prices = prices /\ NewRow(s, i).snap = s
      /\ NewRow(s, i).instruction = i
      /\ CurrentPrices # prices => NewRow(s, i).notified = TRUE
      /\ CurrentPrices = prices => NewRow(s, i).notified = FALSE
    BY DEF NewRow, PricesChanged
<1>6. Current' # 0
    BY <1>2, <1>4
<1>7. CurrentPrices' = publications'[published'].prices
    BY <1>4, <1>6 DEF CurrentPrices
<1> HIDE DEF prices
<1> QED
    BY <1>1, <1>3, <1>4, <1>5, <1>6, <1>7 DEF prices

LEMMA UnchangedPrices ==
    ASSUME Typing, Typing', UNCHANGED <<publications, published>>
    PROVE  Current' = Current /\ CurrentPrices' = CurrentPrices
<1>1. Current' = Current
    BY CurrentIsLast, CurrentIsLastNext
<1> QED
    BY <1>1 DEF CurrentPrices

LEMMA HeardStep ==
    ASSUME Typing, BuyerHeard, [Next]_vars
    PROVE  BuyerHeard'
<1>1. CASE UNCHANGED <<publications, published>>
    <2>1. CurrentPrices' = CurrentPrices
        BY <1>1, TypingStep, UnchangedPrices
    <2>2. Alerts' = Alerts
        BY <1>1 DEF Alerts
    <2> QED
        BY <1>1, <2>1, <2>2 DEF BuyerHeard
<1>2. ASSUME NEW s \in Uploaded, NEW i \in 0..drafted, PublishSnapshot(s, i)
      PROVE  BuyerHeard'
    <2> DEFINE prices == SpeciesPrices(PricedLines(s))
               new == published'
    <2>1. /\ prices # NothingPriced /\ CurrentPrices' = prices
          /\ publications'[new].prices = prices
          /\ CurrentPrices # prices => publications'[new].notified = TRUE
          /\ CurrentPrices = prices => publications'[new].notified = FALSE
        BY <1>2, TypingStep, PublishShows
    <2>2. published \in Nat /\ new = published + 1
        BY <1>2, PublishRows
    <2>3. \A n \in 1..published :
              /\ publications'[n].prices = publications[n].prices
              /\ publications'[n].notified = publications[n].notified
        BY <1>2, OldRowsKept
    <2> HIDE DEF prices, new
    <2>4. Alerts' = {n \in 1..new : publications'[n].notified}
        BY DEF Alerts, new
    <2>5. CASE CurrentPrices # prices
        <3>1. new \in Alerts' /\ \A m \in Alerts' : m <= new
            BY <2>1, <2>2, <2>4, <2>5
        <3> QED
            BY <2>1, <3>1 DEF BuyerHeard
    <2>6. CASE CurrentPrices = prices
        <3>1. Alerts' = Alerts
            BY <2>1, <2>2, <2>3, <2>4, <2>6 DEF Alerts
        <3>2. PICK a \in Alerts : /\ \A m \in Alerts : m <= a
                                  /\ publications[a].prices = CurrentPrices
            BY <2>1, <2>6 DEF BuyerHeard
        <3>3. publications'[a].prices = CurrentPrices'
            BY <2>1, <2>3, <2>6, <3>2 DEF Alerts
        <3> QED
            BY <3>1, <3>2, <3>3 DEF BuyerHeard
    <2> QED
        BY <2>5, <2>6
<1> QED
    BY <1>1, <1>2, StepKinds
    DEF Quiet, CommitSnapshot, Calculate, AcknowledgeIssue, Publishing, pubVars

-----------------------------------------------------------------------------
(* Statuses of snapshots *)

LEMMA StatusStep ==
    ASSUME Typing, SnapshotStatusTruth, [Next]_vars
    PROVE  SnapshotStatusTruth'
<1>1. Typing'
    BY TypingStep
<1>2. ASSUME UNCHANGED <<publications, published>>,
             \A x \in SnapshotIds :
                \/ snapStatus'[x] = snapStatus[x]
                \/ snapStatus'[x] \in {"PARSED", "CALCULATED"}
      PROVE  SnapshotStatusTruth'
    <2>1. Current' = Current
        BY <1>1, <1>2, UnchangedPrices
    <2> QED
        BY <1>2, <2>1 DEF SnapshotStatusTruth
<1>3. CASE UNCHANGED <<publications, published, snapStatus>>
    BY <1>2, <1>3
<1>4. ASSUME NEW b \in Workbooks, CommitSnapshot(b)
      PROVE  SnapshotStatusTruth'
    BY <1>2, <1>4 DEF CommitSnapshot, pubVars, Typing, TypeOK
<1>5. ASSUME NEW s \in SnapshotIds, Calculate(s)
      PROVE  SnapshotStatusTruth'
    BY <1>2, <1>5 DEF Calculate, pubVars, Typing, TypeOK
<1>6. ASSUME NEW s \in Uploaded, NEW i \in 0..drafted, PublishSnapshot(s, i)
      PROVE  SnapshotStatusTruth'
    <2>1. /\ publications'[published'].snap = s
          /\ Current' = published' /\ Current' # 0
        BY <1>1, <1>6, PublishShows
    <2>2. published \in Nat /\ published' = published + 1
        BY <1>6, PublishRows
    <2>3. Current = published
        BY CurrentIsLast
    <2>4. \A n \in 1..published : publications'[n].snap = publications[n].snap
        BY <1>6, OldRowsKept
    <2>5. \A x \in SnapshotIds : snapStatus'[x] = StatusAfterPublishing(s, x)
        BY <1>6 DEF PublishSnapshot
    <2>6. ASSUME NEW x \in SnapshotIds
          PROVE  /\ snapStatus'[x] = "PUBLISHED" => x = s
                 /\ snapStatus'[x] = "SUPERSEDED" =>
                        /\ \E n \in 1..published' : publications'[n].snap = x
                        /\ x # s
        <3>1. CASE x = s
            BY <2>5, <3>1 DEF StatusAfterPublishing
        <3>2. CASE x # s
            <4>1. snapStatus'[x] # "PUBLISHED"
                BY <2>5, <3>2 DEF StatusAfterPublishing, SnapshotStatusTruth
            <4>2. ASSUME snapStatus'[x] = "SUPERSEDED"
                  PROVE  \E n \in 1..published : publications[n].snap = x
                <5>1. CASE snapStatus[x] = "SUPERSEDED"
                    BY <5>1 DEF SnapshotStatusTruth
                <5>2. CASE snapStatus[x] # "SUPERSEDED"
                    <6>1. Current # 0 /\ publications[Current].snap = x
                        BY <2>5, <3>2, <4>2, <5>2 DEF StatusAfterPublishing
                    <6> QED
                        BY <2>2, <2>3, <6>1
                <5> QED
                    BY <5>1, <5>2
            <4> QED
                BY <2>2, <2>4, <3>2, <4>1, <4>2
        <3> QED
            BY <3>1, <3>2
    <2> QED
        BY <2>1, <2>6 DEF SnapshotStatusTruth
<1> QED
    BY <1>3, <1>4, <1>5, <1>6, StepKinds
    DEF Quiet, AcknowledgeIssue, Publishing, pubVars

-----------------------------------------------------------------------------
(* Instructions and their publications *)

(* The two halves of InstructionsOwnTheirPublication, row by row. *)
OwnsPublication(i) ==
    LET p == instructions[i].publication
    IN  /\ instructions[i].status = "DRAFT" <=> p = 0
        /\ p # 0 => /\ p \in 1..published
                    /\ instructions[i].approved
                    /\ publications[p].snap = instructions[i].snap
                    /\ publications[p].instruction = i

IsOwned(n) ==
    publications[n].instruction # 0 =>
        instructions[publications[n].instruction].publication = n

LEMMA OwnershipByRow ==
    /\ InstructionsOwnTheirPublication <=>
           /\ \A i \in 1..drafted : OwnsPublication(i)
           /\ \A n \in 1..published : IsOwned(n)
    /\ InstructionsOwnTheirPublication' <=>
           /\ \A i \in 1..drafted' : OwnsPublication(i)'
           /\ \A n \in 1..published' : IsOwned(n)'
BY DEF InstructionsOwnTheirPublication, OwnsPublication, IsOwned

LEMMA GenerateOwnership ==
    ASSUME Typing, InstructionsOwnTheirPublication,
           NEW s \in SnapshotIds, GenerateInstruction(s)
    PROVE  InstructionsOwnTheirPublication'
<1> DEFINE row == [snap |-> s, prices |-> PricedLines(s), approved |-> FALSE,
                   status |-> "DRAFT", publication |-> 0]
<1>1. /\ drafted \in Nat /\ drafted' = drafted + 1
      /\ drafted + 1 \in InstructionIds
      /\ publications' = publications /\ published' = published
    BY DeskAssumption DEF GenerateInstruction, Typing, TypeOK, InstructionIds, pubVars
<1>2. row.status = "DRAFT" /\ row.publication = 0
    OBVIOUS
<1>3. instructions' = [instructions EXCEPT ![drafted + 1] = row]
    BY DEF GenerateInstruction
<1> HIDE DEF row
<1>4. instructions'[drafted + 1] = row
    BY <1>1, <1>3 DEF Typing, TypeOK
<1>5. \A i \in 1..drafted : instructions'[i] = instructions[i]
    BY <1>1, <1>3, DeskAssumption DEF Typing, TypeOK, InstructionIds
<1>6. ASSUME NEW i \in 1..drafted'
      PROVE  OwnsPublication(i)'
    <2>1. CASE i = drafted + 1
        BY <1>1, <1>2, <1>4, <2>1 DEF OwnsPublication
    <2>2. CASE i # drafted + 1
        BY <1>1, <1>5, <2>2, OwnershipByRow DEF OwnsPublication
    <2> QED
        BY <2>1, <2>2
<1>7. ASSUME NEW n \in 1..published'
      PROVE  IsOwned(n)'
    <2>1. publications[n].instruction \in 0..drafted
        BY <1>1 DEF Typing, RowsExist
    <2> QED
        BY <1>1, <1>5, <2>1, OwnershipByRow DEF IsOwned
<1> QED
    BY <1>6, <1>7, OwnershipByRow

LEMMA UpdateOwnership ==
    ASSUME Typing, InstructionsOwnTheirPublication, NEW i, NEW row,
           InstructionUpdate(i, row),
           row.status = "DRAFT" <=> instructions[i].status = "DRAFT",
           instructions[i].approved => row.approved
    PROVE  InstructionsOwnTheirPublication'
<1>1. /\ drafted' = drafted /\ publications' = publications
      /\ published' = published
    BY DEF InstructionUpdate, OnlyInstructions, pubVars
<1>2. \A j \in 1..drafted :
          instructions'[j] = IF j = i THEN row ELSE instructions[j]
    BY DeskAssumption DEF InstructionUpdate, Typing, TypeOK, InstructionIds
<1>3. /\ i \in 1..drafted /\ row.snap = instructions[i].snap
      /\ row.publication = instructions[i].publication
    BY DEF InstructionUpdate
<1>4. ASSUME NEW j \in 1..drafted'
      PROVE  OwnsPublication(j)'
    BY <1>1, <1>2, <1>3, OwnershipByRow DEF OwnsPublication
<1>5. ASSUME NEW n \in 1..published'
      PROVE  IsOwned(n)'
    <2>1. publications[n].instruction \in 0..drafted
        BY <1>1 DEF Typing, RowsExist
    <2>2. publications[n].instruction # 0 =>
              publications[n].instruction \in 1..drafted
        BY <2>1 DEF Typing, TypeOK
    <2> QED
        BY <1>1, <1>2, <1>3, <2>2, OwnershipByRow DEF IsOwned
<1> QED
    BY <1>4, <1>5, OwnershipByRow

LEMMA PublishInstructionOwnership ==
    ASSUME Typing, InstructionsOwnTheirPublication,
           NEW i \in InstructionIds, PublishInstruction(i)
    PROVE  InstructionsOwnTheirPublication'
<1> DEFINE s == instructions[i].snap
<1>1. /\ i \in 1..drafted /\ s \in Uploaded /\ PublishSnapshot(s, i)
      /\ instructions' = [instructions EXCEPT ![i] = Issued(i)]
      /\ Issued(i).snap = s /\ Issued(i).approved = TRUE
      /\ Issued(i).status = "ISSUED" /\ Issued(i).publication = published'
    BY IssuedRow
<1>2. i \in 0..drafted /\ i # 0
    BY <1>1 DEF Typing, TypeOK
<1>3. published \in Nat /\ published' = published + 1
    BY <1>1, <1>2, PublishRows
<1>4. \A n \in 1..published :
          /\ publications'[n].snap = publications[n].snap
          /\ publications'[n].instruction = publications[n].instruction
    BY <1>1, <1>2, OldRowsKept
<1>5. publications'[published'].snap = s /\ publications'[published'].instruction = i
    <2>1. publications'[published'] = NewRow(s, i)
        BY <1>1, <1>2, PublishRows
    <2> QED
        BY <2>1 DEF NewRow
<1>6. drafted' = drafted
    BY DEF PublishInstruction
<1>7. \A j \in 1..drafted :
          instructions'[j] = IF j = i THEN Issued(i) ELSE instructions[j]
    BY <1>1, DeskAssumption DEF Typing, TypeOK, InstructionIds
<1>8. instructions[i].publication = 0
    <2>1. instructions[i].status = "DRAFT"
        BY DEF PublishInstruction, InStatus
    <2> QED
        BY <1>1, <2>1, OwnershipByRow DEF OwnsPublication
<1> HIDE DEF s
<1>9. ASSUME NEW j \in 1..drafted'
      PROVE  OwnsPublication(j)'
    <2>1. CASE j = i
        BY <1>1, <1>3, <1>5, <1>6, <1>7, <2>1 DEF OwnsPublication
    <2>2. CASE j # i
        BY <1>3, <1>4, <1>6, <1>7, <2>2, OwnershipByRow DEF OwnsPublication
    <2> QED
        BY <2>1, <2>2
<1>10. ASSUME NEW n \in 1..published'
       PROVE  IsOwned(n)'
    <2>1. CASE n = published'
        BY <1>1, <1>5, <1>7, <2>1 DEF IsOwned
    <2>2. CASE n # published'
        <3>1. n \in 1..published /\ n # 0
            BY <1>3, <2>2
        <3>2. publications[n].instruction \in 0..drafted
            BY <3>1 DEF Typing, RowsExist
        <3>3. CASE publications[n].instruction # 0
            <4>1. publications[n].instruction \in 1..drafted
                BY <3>2, <3>3 DEF Typing, TypeOK
            <4>2. instructions[publications[n].instruction].publication = n
                BY <3>1, <3>3, OwnershipByRow DEF IsOwned
            <4>3. publications[n].instruction # i
                BY <1>8, <3>1, <4>2
            <4> QED
                BY <1>4, <1>7, <3>1, <4>1, <4>2, <4>3 DEF IsOwned
        <3>4. CASE publications[n].instruction = 0
            BY <1>4, <3>1, <3>4 DEF IsOwned
        <3> QED
            BY <3>3, <3>4
    <2> QED
        BY <2>1, <2>2
<1> QED
    BY <1>9, <1>10, OwnershipByRow

LEMMA PublishDirectlyOwnership ==
    ASSUME Typing, InstructionsOwnTheirPublication,
           NEW s \in SnapshotIds, PublishDirectly(s)
    PROVE  InstructionsOwnTheirPublication'
<1>1. /\ s \in Uploaded /\ PublishSnapshot(s, 0) /\ 0 \in 0..drafted
      /\ instructions' = instructions /\ drafted' = drafted
    BY DEF PublishDirectly, instrVars, Typing, TypeOK
<1>2. published \in Nat /\ published' = published + 1
    BY <1>1, PublishRows
<1>3. \A n \in 1..published :
          /\ publications'[n].snap = publications[n].snap
          /\ publications'[n].instruction = publications[n].instruction
    BY <1>1, OldRowsKept
<1>4. publications'[published'].instruction = 0
    <2>1. publications'[published'] = NewRow(s, 0)
        BY <1>1, PublishRows
    <2> QED
        BY <2>1 DEF NewRow
<1>5. ASSUME NEW i \in 1..drafted'
      PROVE  OwnsPublication(i)'
    BY <1>1, <1>2, <1>3, OwnershipByRow DEF OwnsPublication
<1>6. ASSUME NEW n \in 1..published'
      PROVE  IsOwned(n)'
    <2>1. CASE n = published'
        BY <1>4, <2>1 DEF IsOwned
    <2>2. CASE n # published'
        <3>1. n \in 1..published
            BY <1>2, <2>2
        <3> QED
            BY <1>1, <1>3, <3>1, OwnershipByRow DEF IsOwned
    <2> QED
        BY <2>1, <2>2
<1> QED
    BY <1>5, <1>6, OwnershipByRow

LEMMA InstructionsStep ==
    ASSUME Typing, InstructionsOwnTheirPublication, [Next]_vars
    PROVE  InstructionsOwnTheirPublication'
<1>1. CASE UNCHANGED <<instructions, drafted, publications, published>>
    BY <1>1 DEF InstructionsOwnTheirPublication
<1>2. CASE UNCHANGED vars
    BY <1>1, <1>2 DEF vars, pubVars, instrVars
<1>3. CASE \E r \in Refs : ActivateRef(r)
    BY <1>1, <1>3 DEF ActivateRef, pubVars, instrVars
<1>4. CASE RequestStep
    BY <1>1, <1>4 DEF RequestStep, RaiseRequest, WithdrawRequest, pubVars, instrVars
<1>5. CASE SnapshotStep
    BY <1>1, <1>5, PublishDirectlyOwnership
    DEF SnapshotStep, CommitSnapshot, Calculate, AcknowledgeIssue, pubVars, instrVars
<1>6. ASSUME NEW i \in InstructionIds,
             \/ ApproveInstruction(i)
             \/ AcknowledgeInstruction(i)
             \/ ReconcileClose(i)
      PROVE  InstructionsOwnTheirPublication'
    <2>1. i \in 1..drafted /\ instructions[i] \in Instruction
        BY <1>6 DEF ApproveInstruction, AcknowledgeInstruction, ReconcileClose,
                    InStatus, Typing, RowsExist
    <2>2. CASE ApproveInstruction(i)
        <3>1. /\ Approved(i).status = instructions[i].status
              /\ Approved(i).approved = TRUE
            BY <2>1 DEF Approved, Instruction
        <3> QED
            BY <2>2, <3>1, TransitionsAreUpdates, UpdateOwnership
    <2>3. CASE AcknowledgeInstruction(i)
        <3>1. /\ Acknowledged(i).status = "ACKNOWLEDGED"
              /\ instructions[i].status = "ISSUED"
              /\ Acknowledged(i).approved = instructions[i].approved
            BY <2>1, <2>3 DEF Acknowledged, Instruction, AcknowledgeInstruction,
                              InStatus
        <3> QED
            BY <2>3, <3>1, TransitionsAreUpdates, UpdateOwnership
    <2>4. CASE ReconcileClose(i)
        <3>1. /\ Reconciled(i).status = "RECONCILED"
              /\ instructions[i].status = "ACKNOWLEDGED"
              /\ Reconciled(i).approved = instructions[i].approved
            BY <2>1, <2>4 DEF Reconciled, Instruction, ReconcileClose, InStatus
        <3> QED
            BY <2>4, <3>1, TransitionsAreUpdates, UpdateOwnership
    <2> QED
        BY <1>6, <2>2, <2>3, <2>4
<1>7. CASE InstructionStep
    BY <1>6, <1>7, GenerateOwnership, PublishInstructionOwnership
    DEF InstructionStep
<1> QED
    BY <1>2, <1>3, <1>4, <1>5, <1>7 DEF Next

-----------------------------------------------------------------------------
(* The properties *)

LEMMA IInvStep == IInv /\ [Next]_vars => IInv'
<1> SUFFICES ASSUME IInv, [Next]_vars
             PROVE  IInv'
    OBVIOUS
<1>1. Typing' /\ BooksAreSubmitted' /\ WorkingsAreOneRun'
    BY TypingStep, BooksStep, WorkingsStep DEF IInv
<1>2. AcksAreReviews' /\ AcknowledgementsAreEarned'
    BY ReviewsStep DEF IInv, ReviewsKept
<1>3. PublicationsAreRuns' /\ BuyerHeard'
    BY RunsStep, HeardStep DEF IInv
<1>4. SnapshotStatusTruth' /\ InstructionsOwnTheirPublication'
    BY StatusStep, InstructionsStep DEF IInv
<1> QED
    BY <1>1, <1>2, <1>3, <1>4 DEF IInv

LEMMA InvariantHolds == Spec => []IInv
BY InitInvariant, IInvStep, PTL DEF Spec

(* Every price a buyer has ever been shown is the least quote, under one   *)
(* version of the reference data, of a submission without a gap: about     *)
(* calculate_snapshot, the BLOCK gate and compute_publication_lines.       *)
THEOREM PublishedPricesHold == Spec => []PublishedPricesAreOneRun
<1>1. IInv => PublishedPricesAreOneRun
    BY RunsArePublished DEF IInv
<1> QED
    BY <1>1, InvariantHolds, PTL

(* A snapshot's status tells whether its prices are live: about publish    *)
(* and calculate_snapshot, which both write it.                            *)
THEOREM SnapshotStatusHolds == Spec => []SnapshotStatusTruth
<1>1. IInv => SnapshotStatusTruth
    BY DEF IInv
<1> QED
    BY <1>1, InvariantHolds, PTL

(* Instructions and the publications made for them are one to one: about   *)
(* buy_instruction_service, when requests do not overlap.                  *)
THEOREM InstructionsHold == Spec => []InstructionsOwnTheirPublication
<1>1. IInv => InstructionsOwnTheirPublication
    BY DEF IInv
<1> QED
    BY <1>1, InvariantHolds, PTL

-----------------------------------------------------------------------------
(* The price board *)

(* A buyer who only listens to alerts knows the live prices. *)
LEMMA AlertedIsCurrent ==
    ASSUME Typing, BuyerHeard
    PROVE  AlertedPrices = CurrentPrices
<1>1. CASE Alerts = {}
    BY <1>1 DEF BuyerHeard, AlertedPrices
<1>2. CASE Alerts # {}
    <2>1. PICK a \in Alerts : /\ \A m \in Alerts : m <= a
                              /\ publications[a].prices = CurrentPrices
        BY <1>2 DEF BuyerHeard
    <2>2. Alerts \subseteq Int
        BY DEF Alerts
    <2>3. \A n \in Alerts : (\A m \in Alerts : m <= n) <=> n = a
        BY <2>1, <2>2
    <2>4. LastAlert = a
        BY <2>3 DEF LastAlert
    <2> QED
        BY <1>2, <2>1, <2>4 DEF AlertedPrices
<1> QED
    BY <1>1, <1>2

LEMMA AlertedIsCurrentNext ==
    ASSUME Typing', BuyerHeard'
    PROVE  AlertedPrices' = CurrentPrices'
<1>1. CASE Alerts' = {}
    BY <1>1 DEF BuyerHeard, AlertedPrices
<1>2. CASE Alerts' # {}
    <2>1. PICK a \in Alerts' : /\ \A m \in Alerts' : m <= a
                               /\ publications'[a].prices = CurrentPrices'
        BY <1>2 DEF BuyerHeard
    <2>2. Alerts' \subseteq Int
        BY DEF Alerts
    <2>3. \A n \in Alerts' : (\A m \in Alerts' : m <= n) <=> n = a
        BY <2>1, <2>2
    <2>4. LastAlert' = a
        BY <2>3 DEF LastAlert
    <2> QED
        BY <1>2, <2>1, <2>4 DEF AlertedPrices
<1> QED
    BY <1>1, <1>2

LEMMA PublishAnnounces ==
    ASSUME IInv, IInv', NEW s \in Uploaded, NEW i \in 0..drafted,
           PublishSnapshot(s, i), reviews' = reviews
    PROVE  Board!Announce
<1>1. Publishable(s) /\ SpeciesPrices(PricedLines(s)) # NothingPriced
    BY DEF PublishSnapshot
<1>2. PICK r \in Refs :
          /\ PricedLines(s) = QuotesOf(book[s], r)
          /\ Priced(book[s], r)
          /\ ActiveOrders(book[s]) # {}
          /\ \A o \in ActiveOrders(book[s]) : \A k \in Raises[book[s][o], r] :
               /\ Severity[k] # "BLOCK"
               /\ Reviewable(k) =>
                      Review(o, k, Fingerprint[book[s][o]]) \in reviews
    BY <1>1, GatePassesARun DEF IInv
<1>3. book[s] \in Workbooks
    BY DEF IInv, BooksAreSubmitted, Uploaded
<1>4. CurrentPrices' = SpeciesPrices(QuotesOf(book[s], r))
    BY <1>2, PublishShows DEF IInv
<1>5. AlertedPrices' = CurrentPrices'
    BY AlertedIsCurrentNext DEF IInv
<1>6. Board!Cleared(book[s], r)
    BY <1>2 DEF Board!Cleared, Board!ActiveOrders, Board!Reviewable, Board!Review,
                ActiveOrders, Reviewable, Review
<1>7. Board!ActiveOrders(book[s]) # {}
    BY <1>2 DEF Board!ActiveOrders, ActiveOrders
<1>8. Board!SpeciesPrices(Board!QuotesOf(book[s], r)) =
          SpeciesPrices(QuotesOf(book[s], r))
    BY DEF Board!SpeciesPrices, Board!QuotesOf, Board!ActiveOrders, Board!Least,
           SpeciesPrices, QuotesOf, ActiveOrders, Least
<1> QED
    BY <1>2, <1>3, <1>4, <1>5, <1>6, <1>7, <1>8 DEF Board!Announce

LEMMA AcknowledgeReviews ==
    ASSUME IInv, IInv', NEW s \in SnapshotIds, NEW o \in Orders, NEW k \in Codes,
           AcknowledgeIssue(s, o, k)
    PROVE  Board!MakeReview
<1>1. Fingerprint[book[s][o]] \in Fingerprints
    BY IssueHasContent DEF IInv, AcknowledgeIssue
<1>2. Review(o, k, Fingerprint[book[s][o]]) \in Board!AllReviews
    BY <1>1 DEF AcknowledgeIssue, Review, Board!AllReviews, Board!Fingerprints,
                Fingerprints
<1>3. reviews' = reviews \cup {Review(o, k, Fingerprint[book[s][o]])}
    BY DEF AcknowledgeIssue
<1>4. CurrentPrices' = CurrentPrices
    BY UnchangedPrices DEF IInv, AcknowledgeIssue, pubVars
<1>5. AlertedPrices' = AlertedPrices
    BY <1>4, AlertedIsCurrent, AlertedIsCurrentNext DEF IInv
<1> QED
    BY <1>2, <1>3, <1>4, <1>5 DEF Board!MakeReview

LEMMA OtherStepsStutter ==
    ASSUME IInv, IInv', UNCHANGED <<publications, published, reviews>>
    PROVE  UNCHANGED Board!boardVars
<1>1. CurrentPrices' = CurrentPrices
    BY UnchangedPrices DEF IInv
<1>2. AlertedPrices' = AlertedPrices
    BY <1>1, AlertedIsCurrent, AlertedIsCurrentNext DEF IInv
<1> QED
    BY <1>1, <1>2 DEF Board!boardVars

(* The desk implements the price board: whatever order calculations,       *)
(* reviews, corrections, instructions and publications come in, each of    *)
(* them is an announcement of cleared prices, a review, or nothing at all  *)
(* to the buyer.  About the whole pipeline from commit to publish.         *)
THEOREM DeskKeepsPriceBoard == Spec => KeepsPriceBoard
<1>1. Init => Board!Init
    <2> SUFFICES ASSUME Init
                 PROVE  Board!Init
        OBVIOUS
    <2>1. Unsuperseded = {} /\ Alerts = {} /\ reviews = {}
        BY DEF Init, Unsuperseded, Alerts
    <2>2. CurrentPrices = NothingPriced /\ AlertedPrices = NothingPriced
        BY <2>1 DEF CurrentPrices, Current, AlertedPrices
    <2> QED
        BY <2>1, <2>2 DEF Board!Init, Board!NothingPriced, NothingPriced
<1>2. IInv /\ IInv' /\ [Next]_vars => [Board!Next]_(Board!boardVars)
    <2> SUFFICES ASSUME IInv, IInv', [Next]_vars
                 PROVE  Board!Next \/ UNCHANGED Board!boardVars
        OBVIOUS
    <2>1. CASE Quiet
        BY <2>1, OtherStepsStutter DEF Quiet
    <2>2. ASSUME NEW b \in Workbooks, CommitSnapshot(b)
          PROVE  UNCHANGED Board!boardVars
        BY <2>2, OtherStepsStutter DEF CommitSnapshot, reviewVars, pubVars
    <2>3. ASSUME NEW s \in SnapshotIds, Calculate(s)
          PROVE  UNCHANGED Board!boardVars
        BY <2>3, OtherStepsStutter DEF Calculate, reviewVars, pubVars
    <2>4. ASSUME NEW s \in SnapshotIds, NEW o \in Orders, NEW k \in Codes,
                 AcknowledgeIssue(s, o, k)
          PROVE  Board!Next
        BY <2>4, AcknowledgeReviews DEF Board!Next
    <2>5. CASE Publishing
        BY <2>5, PublishAnnounces DEF Publishing, Board!Next
    <2> QED
        BY <2>1, <2>2, <2>3, <2>4, <2>5, StepKinds DEF IInv
<1> QED
    BY <1>1, <1>2, InvariantHolds, PTL DEF Spec, KeepsPriceBoard, Board!Spec
=============================================================================
