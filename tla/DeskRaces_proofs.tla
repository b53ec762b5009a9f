-------------------------- MODULE DeskRaces_proofs ---------------------------
(***************************************************************************)
(* What any number of overlapping requests keeps, for every order book,    *)
(* every engine and every bound.                                           *)
(***************************************************************************)
EXTENDS DeskRaces, OrderBook_proofs

-----------------------------------------------------------------------------
(* Types *)

RequestRow ==
    {Idle} \cup PublishRequest \cup CalculateRequest \cup AcknowledgeRequest
    \cup InstructionRequest

WorkingRow == [price : Price, ref : Refs]

PublishJobs == {"gate", "price", "compare", "publish"}
InstructionJobs == {"confirm", "close", "fill", "unfill"}

(* Publications up to the counter exist, and issues are about lines the    *)
(* snapshot has.                                                           *)
RowsExist ==
    /\ \A n \in 1..published : publications[n] \in Publication
    /\ \A s \in Snapshots, o \in Orders, k \in Codes :
           issues[s][o][k] # "absent" => BookOf[s][o] \in Contents

(* So are the issues a request has found or is about to acknowledge; and a *)
(* row of workings that was loaded is still there.                         *)
ReadsExist(w) ==
    LET rq == request[w]
    IN  /\ rq.job = "acknowledge" => BookOf[rq.snap][rq.order] \in Contents
        /\ rq.job = "calculate" =>
               \A o \in Orders, k \in Codes :
                   rq.found[o][k] # "absent" => BookOf[rq.snap][o] \in Contents
        /\ rq.job \in {"compute", "calculate"} /\ rq.first # None =>
               workings[rq.snap][FirstLine(rq.snap)] \in WorkingRow

Typing ==
    /\ TypeOK
    /\ RowsExist
    /\ \A w \in Requests : ReadsExist(w)

(* A request's job tells what else is in its row. *)
LEMMA RequestKinds ==
    ASSUME TypeOK, NEW w \in Requests
    PROVE  /\ request[w] \in RequestRow
           /\ request[w].job \in PublishJobs => request[w] \in PublishRequest
           /\ request[w].job \in {"load", "compute", "calculate"} =>
                  request[w] \in CalculateRequest
           /\ request[w].job = "acknowledge" => request[w] \in AcknowledgeRequest
           /\ request[w].job \in InstructionJobs =>
                  request[w] \in InstructionRequest
<1>1. request[w] \in RequestRow
    BY DEF TypeOK, RequestRow
<1>2. Idle.job = "idle"
    BY DEF Idle
<1>3. \A x \in PublishRequest : x.job \in PublishJobs
    BY DEF PublishRequest, PublishJobs
<1>4. \A x \in CalculateRequest : x.job \in {"load", "compute", "calculate"}
    BY DEF CalculateRequest
<1>5. \A x \in AcknowledgeRequest : x.job = "acknowledge"
    BY DEF AcknowledgeRequest
<1>6. \A x \in InstructionRequest : x.job \in InstructionJobs
    BY DEF InstructionRequest, InstructionJobs
<1> QED
    BY <1>1, <1>2, <1>3, <1>4, <1>5, <1>6
    DEF RequestRow, PublishJobs, InstructionJobs

(* One request moves on, the others stay where they are. *)
Moves(w, row) ==
    /\ request'[w] = row
    /\ \A v \in Requests : v # w => request'[v] = request[v]

LEMMA ProceedMoves ==
    ASSUME TypeOK, NEW w \in Requests, NEW row \in RequestRow, Proceed(w, row)
    PROVE  /\ Moves(w, row)
           /\ request' \in [Requests -> RequestRow]
           /\ begun' = begun
BY DEF TypeOK, Proceed, Moves, RequestRow

LEMMA BeginMoves ==
    ASSUME TypeOK, NEW w \in Requests, NEW row \in RequestRow, Begin(w, row)
    PROVE  /\ Moves(w, row)
           /\ request' \in [Requests -> RequestRow]
           /\ begun' \in Times
           /\ begun + 1 \in Times
BY RacesAssumption DEF TypeOK, Begin, Moves, RequestRow, Times

LEMMA EndMoves ==
    ASSUME TypeOK, NEW w \in Requests, End(w)
    PROVE  /\ Moves(w, Idle)
           /\ request' \in [Requests -> RequestRow]
           /\ begun' = begun
<1>1. Idle \in RequestRow
    BY DEF RequestRow
<1> QED
    BY <1>1, ProceedMoves DEF End

(* The first line of a snapshot is one of its active orders. *)
LEMMA FirstLineIsActive ==
    ASSUME NEW s \in Snapshots
    PROVE  FirstLine(s) \in ActiveOrders(BookOf[s])
<1> DEFINE A == ActiveOrders(BookOf[s])
           N == {LineNo[o] : o \in A}
<1>1. A # {} /\ N # {} /\ N \subseteq Nat
    BY RacesAssumption DEF ActiveOrders
<1>2. PICK o \in A : \A x \in A : LineNo[o] <= LineNo[x]
    <2>1. PICK n \in N : \A m \in N : n <= m
        <3> HIDE DEF N
        <3> QED
            BY <1>1, HasLeast
    <2> QED
        BY <2>1
<1> QED
    BY <1>2 DEF FirstLine

(* The current publication is one that exists and is not superseded. *)
LEMMA CurrentIsUnsuperseded ==
    ASSUME TypeOK, RowsExist
    PROVE  /\ Unsuperseded = {} => Current = 0
           /\ Unsuperseded # {} => Current \in Unsuperseded
<1>1. CASE Unsuperseded = {}
    BY <1>1 DEF Current
<1>2. CASE Unsuperseded # {}
    <2> DEFINE Age(n) == MaxBegun - publications[n].at
               Ages == {Age(n) : n \in Unsuperseded}
    <2>1. \A n \in Unsuperseded : publications[n].at \in Times
        BY DEF Unsuperseded, RowsExist, Publication
    <2>2. Ages # {} /\ Ages \subseteq Nat
        BY <1>2, <2>1, RacesAssumption DEF Times
    <2>3. PICK a \in Ages : \A b \in Ages : a <= b
        <3> HIDE DEF Ages
        <3> QED
            BY <2>2, HasLeast
    <2>4. PICK n \in Unsuperseded : a = Age(n)
        OBVIOUS
    <2>5. \A m \in Unsuperseded : Age(n) <= Age(m)
        BY <2>3, <2>4
    <2>6. \A m \in Unsuperseded : publications[m].at <= publications[n].at
        BY <2>1, <2>5, RacesAssumption DEF Times
    <2> QED
        BY <1>2, <2>6 DEF Current
<1> QED
    BY <1>1, <1>2

(* A request that only reads keeps everything but its own row. *)
Reads == UNCHANGED <<active, calcVars, reviewVars, pubVars, instructions>>

LEMMA ReadingTypes ==
    ASSUME Typing, Reads, NEW w \in Requests, NEW row, Moves(w, row),
           request' \in [Requests -> RequestRow], begun' \in Times,
           ReadsExist(w)'
    PROVE  Typing'
<1> USE DEF Typing, Reads, calcVars, reviewVars, pubVars
<1>1. TypeOK'
    BY DEF TypeOK, RequestRow
<1>2. RowsExist'
    BY DEF RowsExist
<1>3. ASSUME NEW v \in Requests, v # w
      PROVE  ReadsExist(v)'
    BY <1>3 DEF ReadsExist, Moves
<1> QED
    BY <1>1, <1>2, <1>3

LEMMA BeginCalculateTypes ==
    ASSUME Typing, NEW w \in Requests, NEW s \in Snapshots, BeginCalculate(w, s)
    PROVE  Typing'
<1> DEFINE row == [job |-> "load", snap |-> s, ref |-> active, first |-> None,
                   loaded |-> 0, found |-> NoIssues]
<1>1. row \in CalculateRequest
    BY DEF CalculateRequest, Typing, TypeOK, Working, IssueRows, NoIssues, IssueStates
<1>2. row.job = "load"
    OBVIOUS
<1>3. Begin(w, row) /\ Reads
    BY DEF BeginCalculate, Reads
<1> HIDE DEF row
<1>4. Moves(w, row) /\ request' \in [Requests -> RequestRow] /\ begun' \in Times
    BY <1>1, <1>3, BeginMoves DEF Typing, RequestRow
<1>5. ReadsExist(w)'
    BY <1>2, <1>4 DEF ReadsExist, Moves
<1> QED
    BY <1>3, <1>4, <1>5, ReadingTypes

LEMMA LoadFirstWorkingTypes ==
    ASSUME Typing, NEW w \in Requests, LoadFirstWorking(w)
    PROVE  Typing'
<1> DEFINE rq == request[w]
           first == workings[rq.snap][FirstLine(rq.snap)]
           row == [rq EXCEPT !.job = "compute", !.first = first,
                             !.loaded = calculated[rq.snap]]
<1>1. rq \in CalculateRequest
    BY RequestKinds DEF LoadFirstWorking, Typing
<1>2. rq.snap \in Snapshots
    BY <1>1 DEF CalculateRequest
<1>3. first \in Working /\ calculated[rq.snap] \in Nat
    BY <1>2, FirstLineIsActive DEF Typing, TypeOK, ActiveOrders
<1>4. Proceed(w, row) /\ Reads
    BY DEF LoadFirstWorking, Reads
<1> HIDE DEF first, rq
<1>5. /\ row \in CalculateRequest
      /\ row.job = "compute" /\ row.first = first /\ row.snap = rq.snap
    BY <1>1, <1>3 DEF CalculateRequest
<1> HIDE DEF row
<1>6. /\ Moves(w, row) /\ request' \in [Requests -> RequestRow]
      /\ begun' \in Times
    BY <1>4, <1>5, ProceedMoves DEF Typing, RequestRow, TypeOK
<1>7. ReadsExist(w)'
    <2>1. request'[w] = row /\ workings' = workings
        BY <1>4, <1>6 DEF Moves, Reads, calcVars
    <2>2. first # None => first \in WorkingRow
        BY <1>3 DEF Working, WorkingRow
    <2>3. workings'[row.snap][FirstLine(row.snap)] = first
        BY <1>5, <2>1 DEF first
    <2> QED
        BY <1>5, <2>1, <2>2, <2>3 DEF ReadsExist
<1> QED
    BY <1>4, <1>6, <1>7, ReadingTypes

LEMMA ComputeLinesTypes ==
    ASSUME Typing, NEW w \in Requests, ComputeLines(w)
    PROVE  Typing'
<1> DEFINE rq == request[w]
<1>1. PICK outliers \in SUBSET MayBeOutlier(rq.snap, rq.ref) :
          Proceed(w, [rq EXCEPT !.job = "calculate", !.found =
              [o \in Orders |-> [k \in Codes |->
                  IF k \notin Found(rq.snap, rq.ref, o, outliers) THEN "absent"
                  ELSE IF CarriedForward(rq.snap, o, k) THEN "acknowledged"
                  ELSE "open"]]])
    BY DEF ComputeLines
<1> DEFINE found == [o \in Orders |-> [k \in Codes |->
                       IF k \notin Found(rq.snap, rq.ref, o, outliers)
                       THEN "absent"
                       ELSE IF CarriedForward(rq.snap, o, k) THEN "acknowledged"
                       ELSE "open"]]
           row == [rq EXCEPT !.job = "calculate", !.found = found]
<1>2. rq \in CalculateRequest /\ rq.job = "compute"
    BY RequestKinds DEF ComputeLines, Typing
<1>3. rq.snap \in Snapshots
    BY <1>2 DEF CalculateRequest
<1>4. found \in IssueRows
    BY DEF IssueRows, IssueStates
<1>5. ASSUME NEW o \in Orders, NEW k \in Codes, found[o][k] # "absent"
      PROVE  BookOf[rq.snap][o] \in Contents
    <2>1. BookOf[rq.snap][o] # None
        BY <1>5 DEF Found
    <2>2. BookOf[rq.snap] \in [Orders -> Contents \cup {None}]
        BY <1>3, RacesAssumption, BookAssumption
    <2> QED
        BY <2>1, <2>2
<1>6. Proceed(w, row) /\ Reads
    BY <1>1 DEF ComputeLines, Reads
<1>7. ReadsExist(w)
    BY DEF Typing
<1> HIDE DEF rq, found
<1>8. /\ row \in CalculateRequest
      /\ row.job = "calculate" /\ row.found = found
      /\ row.first = rq.first /\ row.snap = rq.snap
    BY <1>2, <1>4 DEF CalculateRequest
<1> HIDE DEF row
<1>9. /\ Moves(w, row) /\ request' \in [Requests -> RequestRow]
      /\ begun' \in Times
    BY <1>6, <1>8, ProceedMoves DEF Typing, RequestRow, TypeOK
<1>10. ReadsExist(w)'
    <2>1. request'[w] = row /\ workings' = workings
        BY <1>6, <1>9 DEF Moves, Reads, calcVars
    <2>2. rq.first # None => workings[rq.snap][FirstLine(rq.snap)] \in WorkingRow
        BY <1>2, <1>7 DEF ReadsExist, rq
    <2>3. row.first # None =>
              workings'[row.snap][FirstLine(row.snap)] \in WorkingRow
        BY <1>8, <2>1, <2>2
    <2> QED
        BY <1>5, <1>8, <2>1, <2>3 DEF ReadsExist
<1> QED
    BY <1>6, <1>9, <1>10, ReadingTypes

(* What a calculation writes for one line. *)
Written(rq, o) ==
    LET new == [price |-> Quote[BookOf[rq.snap][o], rq.ref], ref |-> rq.ref]
    IN  IF o \notin ActiveOrders(BookOf[rq.snap]) THEN workings[rq.snap][o]
        ELSE IF o = FirstLine(rq.snap)
             THEN Merged(new, rq.first, workings[rq.snap][o])
             ELSE new

LEMMA CommitCalculateWrites ==
    ASSUME NEW w \in Requests, CommitCalculate(w)
    PROVE  /\ workings' = [workings EXCEPT ![request[w].snap] =
                              [o \in Orders |-> Written(request[w], o)]]
           /\ issues' = [issues EXCEPT ![request[w].snap] = request[w].found]
           /\ calculated' = [calculated EXCEPT ![request[w].snap] = @ + 1]
           /\ torn' = [torn EXCEPT ![request[w].snap] =
                          request[w].loaded # calculated[request[w].snap]]
<1> DEFINE rq == request[w]
           s == rq.snap
           new == [o \in ActiveOrders(BookOf[s]) |->
                      [price |-> Quote[BookOf[s][o], rq.ref], ref |-> rq.ref]]
<1>1. workings' = [workings EXCEPT ![s] =
          [o \in Orders |->
              IF o \notin ActiveOrders(BookOf[s]) THEN workings[s][o]
              ELSE IF o = FirstLine(s)
                   THEN Merged(new[o], rq.first, workings[s][o])
                   ELSE new[o]]]
    BY DEF CommitCalculate
<1>2. \A o \in ActiveOrders(BookOf[s]) :
          new[o] = [price |-> Quote[BookOf[s][o], rq.ref], ref |-> rq.ref]
    OBVIOUS
<1>3. ASSUME NEW o \in Orders
      PROVE  Written(rq, o) =
                 IF o \notin ActiveOrders(BookOf[s]) THEN workings[s][o]
                 ELSE IF o = FirstLine(s)
                      THEN Merged(new[o], rq.first, workings[s][o])
                      ELSE new[o]
    BY <1>2 DEF Written
<1> HIDE DEF new
<1> QED
    BY <1>1, <1>3 DEF CommitCalculate

(* The quote of an active order is a price. *)
LEMMA ActiveQuote ==
    ASSUME NEW s \in Snapshots, NEW r \in Refs,
           NEW o \in ActiveOrders(BookOf[s])
    PROVE  /\ o \in Orders /\ BookOf[s][o] \in Contents
           /\ Quote[BookOf[s][o], r] \in Price
           /\ [price |-> Quote[BookOf[s][o], r], ref |-> r] \in WorkingRow
<1>1. o \in Orders /\ BookOf[s][o] \in Contents
    BY BookAssumption DEF ActiveOrders
<1> QED
    BY <1>1, QuoteIsPrice DEF WorkingRow

LEMMA WrittenRow ==
    ASSUME Typing, NEW w \in Requests, request[w].job = "calculate",
           NEW o \in ActiveOrders(BookOf[request[w].snap])
    PROVE  Written(request[w], o) \in WorkingRow
<1> DEFINE rq == request[w]
           new == [price |-> Quote[BookOf[rq.snap][o], rq.ref], ref |-> rq.ref]
           row == workings[rq.snap][o]
<1>1. rq \in CalculateRequest /\ ReadsExist(w)
    BY RequestKinds DEF Typing
<1>2. rq.snap \in Snapshots /\ rq.ref \in Refs /\ rq.first \in Working
    BY <1>1 DEF CalculateRequest
<1>3. new \in WorkingRow
    BY <1>2, ActiveQuote
<1>4. Written(rq, o) = IF o = FirstLine(rq.snap)
                       THEN Merged(new, rq.first, row) ELSE new
    BY DEF Written
<1>5. o = FirstLine(rq.snap) /\ rq.first # None => row \in WorkingRow
    BY <1>1 DEF ReadsExist
<1> HIDE DEF new, row, rq
<1>6. CASE rq.first = None \/ o # FirstLine(rq.snap)
    BY <1>3, <1>4, <1>6 DEF Merged, rq
<1>7. CASE rq.first # None /\ o = FirstLine(rq.snap)
    BY <1>2, <1>3, <1>4, <1>5, <1>7 DEF Merged, Working, WorkingRow, rq
<1> QED
    BY <1>6, <1>7

LEMMA CommitCalculateTypes ==
    ASSUME Typing, NEW w \in Requests, CommitCalculate(w)
    PROVE  Typing'
<1> DEFINE rq == request[w]
<1>1. /\ rq \in CalculateRequest /\ rq.job = "calculate" /\ ReadsExist(w)
      /\ rq.snap \in Snapshots /\ rq.found \in IssueRows
    BY RequestKinds DEF CommitCalculate, Typing, CalculateRequest
<1>2. Moves(w, Idle) /\ request' \in [Requests -> RequestRow] /\ begun' = begun
    BY EndMoves DEF CommitCalculate, Typing
<1>3. \A o \in Orders : Written(rq, o) \in Working
    <2> TAKE o \in Orders
    <2>1. CASE o \in ActiveOrders(BookOf[rq.snap])
        BY <1>1, <2>1, WrittenRow DEF WorkingRow, Working
    <2>2. CASE o \notin ActiveOrders(BookOf[rq.snap])
        BY <1>1, <2>2 DEF Written, Typing, TypeOK
    <2> QED
        BY <2>1, <2>2
<1>4. /\ workings' \in [Snapshots -> [Orders -> Working]]
      /\ \A s \in Snapshots, o \in Orders :
             workings'[s][o] = IF s = rq.snap THEN Written(rq, o)
                               ELSE workings[s][o]
    <2>1. [o \in Orders |-> Written(rq, o)] \in [Orders -> Working]
        BY <1>3
    <2>2. workings' = [workings EXCEPT ![rq.snap] =
                          [o \in Orders |-> Written(rq, o)]]
        BY CommitCalculateWrites
    <2> HIDE DEF rq
    <2> QED
        BY <2>1, <2>2, <1>1 DEF Typing, TypeOK
<1>5. /\ issues' \in [Snapshots -> IssueRows]
      /\ \A s \in Snapshots :
             issues'[s] = IF s = rq.snap THEN rq.found ELSE issues[s]
    BY <1>1, CommitCalculateWrites DEF Typing, TypeOK
<1>6. /\ calculated' \in [Snapshots -> Nat]
      /\ torn' \in [Snapshots -> BOOLEAN]
    <2>1. /\ calculated' = [calculated EXCEPT ![rq.snap] = @ + 1]
          /\ torn' = [torn EXCEPT ![rq.snap] = rq.loaded # calculated[rq.snap]]
        BY CommitCalculateWrites
    <2>2. (rq.loaded # calculated[rq.snap]) \in BOOLEAN
        OBVIOUS
    <2> HIDE DEF rq
    <2>3. calculated' \in [Snapshots -> Nat]
        BY <1>1, <2>1 DEF Typing, TypeOK
    <2>4. torn' \in [Snapshots -> BOOLEAN]
        BY <2>1, <2>2 DEF Typing, TypeOK
    <2> QED
        BY <2>3, <2>4
<1>7. UNCHANGED <<active, acks, reviews, publications, published, instructions>>
    BY DEF CommitCalculate, reviewVars, pubVars
<1>8. TypeOK'
    BY <1>2, <1>4, <1>5, <1>6, <1>7 DEF Typing, TypeOK, RequestRow
<1>9. RowsExist'
    <2>1. ASSUME NEW s \in Snapshots, NEW o \in Orders, NEW k \in Codes,
                 issues'[s][o][k] # "absent"
          PROVE  BookOf[s][o] \in Contents
        BY <1>1, <1>5, <2>1 DEF RowsExist, ReadsExist, Typing
    <2> QED
        BY <1>7, <2>1 DEF RowsExist, Typing
<1>10. ASSUME NEW v \in Requests
       PROVE  ReadsExist(v)'
    <2>1. CASE v = w
        BY <1>2, <2>1 DEF ReadsExist, Moves, Idle
    <2>2. CASE v # w
        <3>1. request'[v] = request[v] /\ ReadsExist(v)
            BY <1>2, <2>2 DEF Moves, Typing
        <3>2. ASSUME request[v].job \in {"compute", "calculate"},
                     request[v].first # None
              PROVE  workings'[request[v].snap][FirstLine(request[v].snap)]
                         \in WorkingRow
            <4> DEFINE s == request[v].snap
            <4>1. s \in Snapshots
                BY <3>2, RequestKinds DEF Typing, CalculateRequest
            <4>2. FirstLine(s) \in ActiveOrders(BookOf[s])
                BY <4>1, FirstLineIsActive
            <4>3. FirstLine(s) \in Orders
                BY <4>2 DEF ActiveOrders
            <4>4. CASE s = rq.snap
                <5>1. Written(rq, FirstLine(rq.snap)) \in WorkingRow
                    BY <1>1, <4>2, <4>4, WrittenRow
                <5>2. workings'[s][FirstLine(s)] = Written(rq, FirstLine(s))
                    BY <1>4, <4>1, <4>3, <4>4
                <5> QED
                    BY <4>4, <5>1, <5>2
            <4>5. CASE s # rq.snap
                BY <1>4, <3>1, <3>2, <4>1, <4>3, <4>5 DEF ReadsExist
            <4> QED
                BY <4>4, <4>5
        <3> QED
            BY <3>1, <3>2 DEF ReadsExist
    <2> QED
        BY <2>1, <2>2
<1> QED
    BY <1>8, <1>9, <1>10 DEF Typing

LEMMA BeginAcknowledgeTypes ==
    ASSUME Typing, NEW w \in Requests, NEW s \in Snapshots, NEW o \in Orders,
           NEW k \in Codes, BeginAcknowledge(w, s, o, k)
    PROVE  Typing'
<1> DEFINE row == [job |-> "acknowledge", snap |-> s, order |-> o, code |-> k,
                   row |-> calculated[s]]
<1>1. row \in AcknowledgeRequest
    BY DEF AcknowledgeRequest, Acknowledgeable, BeginAcknowledge, Typing, TypeOK
<1>2. row.job = "acknowledge" /\ row.snap = s /\ row.order = o
    OBVIOUS
<1>3. Begin(w, row) /\ Reads
    BY DEF BeginAcknowledge, Reads
<1> HIDE DEF row
<1>4. Moves(w, row) /\ request' \in [Requests -> RequestRow] /\ begun' \in Times
    BY <1>1, <1>3, BeginMoves DEF Typing, RequestRow
<1>5. BookOf[s][o] \in Contents
    BY DEF BeginAcknowledge, Typing, RowsExist
<1>6. ReadsExist(w)'
    BY <1>2, <1>4, <1>5 DEF ReadsExist, Moves
<1> QED
    BY <1>3, <1>4, <1>6, ReadingTypes

LEMMA CommitAcknowledgeTypes ==
    ASSUME Typing, NEW w \in Requests, CommitAcknowledge(w)
    PROVE  Typing'
<1> DEFINE rq == request[w]
           s == rq.snap
           f == Fingerprint[BookOf[s][rq.order]]
<1>1. rq \in AcknowledgeRequest /\ rq.job = "acknowledge" /\ ReadsExist(w)
    BY RequestKinds DEF CommitAcknowledge, Typing
<1>2. /\ s \in Snapshots /\ rq.order \in Orders /\ rq.code \in Acknowledgeable
      /\ rq.code \in Codes
    BY <1>1 DEF AcknowledgeRequest, Acknowledgeable
<1>3. BookOf[s][rq.order] \in Contents /\ f \in Fingerprints
    BY <1>1 DEF ReadsExist, Fingerprints
<1>4. /\ issues' = [issues EXCEPT ![s][rq.order][rq.code] = "acknowledged"]
      /\ acks' = [acks EXCEPT ![rq.order][rq.code] = f]
      /\ reviews' = reviews \cup
             {[order |-> rq.order, code |-> rq.code, fingerprint |-> f]}
      /\ UNCHANGED <<active, workings, calculated, torn, publications,
                     published, instructions>>
    BY DEF CommitAcknowledge, pubVars
<1>5. Moves(w, Idle) /\ request' \in [Requests -> RequestRow] /\ begun' = begun
    BY EndMoves DEF CommitAcknowledge, Typing
<1> HIDE DEF rq, f
<1>6. /\ issues' \in [Snapshots -> IssueRows]
      /\ \A t \in Snapshots, o \in Orders, k \in Codes :
             issues'[t][o][k] =
                 IF t = s /\ o = rq.order /\ k = rq.code THEN "acknowledged"
                 ELSE issues[t][o][k]
    BY <1>2, <1>4 DEF Typing, TypeOK, IssueRows, IssueStates
<1>7. acks' \in [Orders -> [Codes -> Fingerprints \cup {None}]]
    BY <1>2, <1>3, <1>4 DEF Typing, TypeOK
<1>8. reviews' \in SUBSET [order : Orders, code : Acknowledgeable,
                           fingerprint : Fingerprints]
    BY <1>2, <1>3, <1>4 DEF Typing, TypeOK
<1>9. TypeOK'
    BY <1>4, <1>5, <1>6, <1>7, <1>8 DEF Typing, TypeOK, RequestRow
<1>10. RowsExist'
    BY <1>3, <1>4, <1>6 DEF Typing, RowsExist
<1>11. ASSUME NEW v \in Requests
       PROVE  ReadsExist(v)'
    <2>1. CASE v = w
        BY <1>5, <2>1 DEF ReadsExist, Moves, Idle
    <2>2. CASE v # w
        BY <1>4, <1>5, <2>2 DEF ReadsExist, Moves, Typing
    <2> QED
        BY <2>1, <2>2
<1> QED
    BY <1>9, <1>10, <1>11 DEF Typing

(* A publish request that reads keeps what it is about. *)
PublishMoves(w, row) ==
    /\ request[w] \in PublishRequest
    /\ row \in PublishRequest
    /\ row.snap = request[w].snap
    /\ row.instruction = request[w].instruction
    /\ row.before = request[w].before
    /\ Moves(w, row)
    /\ Reads
    /\ begun' = begun

LEMMA PublishReadTypes ==
    ASSUME Typing, NEW w \in Requests, NEW row, PublishMoves(w, row),
           request' \in [Requests -> RequestRow]
    PROVE  Typing'
<1>1. begun' \in Times
    BY DEF PublishMoves, Typing, TypeOK
<1>2. row.job \in PublishJobs
    BY DEF PublishMoves, PublishRequest, PublishJobs
<1>3. ReadsExist(w)'
    BY <1>2 DEF PublishMoves, Moves, ReadsExist, PublishJobs
<1> QED
    BY <1>1, <1>3, ReadingTypes DEF PublishMoves

LEMMA BeginPublishMoves ==
    ASSUME Typing, NEW w \in Requests, NEW s \in Snapshots,
           NEW i \in Instructions \cup {0}, BeginPublish(w, s, i)
    PROVE  /\ request'[w] \in PublishRequest
           /\ request'[w].job = "gate" /\ request'[w].instruction = i
           /\ request'[w].before = published
           /\ Moves(w, request'[w]) /\ request' \in [Requests -> RequestRow]
           /\ begun' \in Times /\ Reads
<1> DEFINE row == [job |-> "gate", snap |-> s, instruction |-> i,
                   at |-> begun + 1, before |-> published, gated |-> 0,
                   undisturbed |-> FALSE, prices |-> NothingPriced,
                   follows |-> 0, saw |-> 0, notified |-> FALSE]
<1>1. Begin(w, row) /\ Reads
    BY DEF BeginPublish, Reads
<1>2. NothingPriced \in Prices
    BY DEF NothingPriced, Prices, Price
<1>3. begun + 1 \in Times /\ 0 \in 0..MaxPublications
    BY <1>1, RacesAssumption DEF Begin, Typing, TypeOK, Times
<1>4. published \in 0..MaxPublications
    BY DEF Typing, TypeOK
<1>5. /\ row \in PublishRequest
      /\ row.job = "gate" /\ row.instruction = i /\ row.before = published
    BY <1>2, <1>3, <1>4 DEF PublishRequest
<1> HIDE DEF row
<1>6. Moves(w, row) /\ request' \in [Requests -> RequestRow] /\ begun' \in Times
    BY <1>1, <1>5, BeginMoves DEF Typing, RequestRow
<1> QED
    BY <1>1, <1>5, <1>6 DEF Moves

LEMMA BeginPublishTypes ==
    ASSUME Typing, NEW w \in Requests, NEW s \in Snapshots,
           NEW i \in Instructions \cup {0}, BeginPublish(w, s, i)
    PROVE  Typing'
<1>1. ReadsExist(w)'
    BY BeginPublishMoves DEF ReadsExist
<1> QED
    BY <1>1, BeginPublishMoves, ReadingTypes

LEMMA PassGateMoves ==
    ASSUME Typing, NEW w \in Requests, PassGate(w)
    PROVE  /\ PublishMoves(w, request'[w])
           /\ request' \in [Requests -> RequestRow]
           /\ request'[w].job = "price"
           /\ request'[w].gated = calculated[request[w].snap]
<1> DEFINE rq == request[w]
           row == [rq EXCEPT !.job = "price", !.gated = calculated[rq.snap]]
<1>1. rq \in PublishRequest
    BY RequestKinds DEF PassGate, Typing, PublishJobs
<1>2. calculated[rq.snap] \in Nat
    BY <1>1 DEF PublishRequest, Typing, TypeOK
<1>3. Proceed(w, row) /\ Reads
    BY DEF PassGate, Reads
<1>4. /\ row \in PublishRequest /\ row.job = "price"
      /\ row.gated = calculated[rq.snap] /\ row.snap = rq.snap
      /\ row.instruction = rq.instruction /\ row.before = rq.before
    BY <1>1, <1>2 DEF PublishRequest
<1> HIDE DEF row
<1>5. Moves(w, row) /\ request' \in [Requests -> RequestRow] /\ begun' = begun
    BY <1>3, <1>4, ProceedMoves DEF Typing, RequestRow
<1> QED
    BY <1>1, <1>3, <1>4, <1>5 DEF Moves, PublishMoves

LEMMA PricedLinesType ==
    ASSUME TypeOK, NEW s \in Snapshots
    PROVE  SpeciesPrices(PricedLines(s)) \in Prices
<1>1. ASSUME NEW o \in Orders
      PROVE  PricedLines(s)[o] \in Price
    <2>1. workings[s][o] \in Working
        BY DEF TypeOK
    <2> QED
        BY <2>1 DEF PricedLines, Working, Price
<1>2. PricedLines(s) \in [Orders -> Price]
    BY <1>1 DEF PricedLines
<1> QED
    BY <1>2, SpeciesPricesType DEF Prices

LEMMA ReadPricesMoves ==
    ASSUME Typing, NEW w \in Requests, ReadPrices(w)
    PROVE  /\ PublishMoves(w, request'[w])
           /\ request' \in [Requests -> RequestRow]
           /\ request'[w].job = "compare"
           /\ request'[w].prices = SpeciesPrices(PricedLines(request[w].snap))
           /\ request'[w].undisturbed =>
                  /\ request[w].gated = calculated[request[w].snap]
                  /\ torn[request[w].snap] = FALSE
<1> DEFINE rq == request[w]
           prices == SpeciesPrices(PricedLines(rq.snap))
           calm == rq.gated = calculated[rq.snap] /\ ~torn[rq.snap]
           row == [rq EXCEPT !.job = "compare", !.prices = prices,
                             !.undisturbed = calm]
<1>1. rq \in PublishRequest
    BY RequestKinds DEF ReadPrices, Typing, PublishJobs
<1>2. rq.snap \in Snapshots /\ prices \in Prices
    BY <1>1, PricedLinesType DEF PublishRequest, Typing
<1>3. Proceed(w, row) /\ Reads
    BY DEF ReadPrices, Reads
<1>4. calm \in BOOLEAN
    OBVIOUS
<1>5. calm => rq.gated = calculated[rq.snap] /\ torn[rq.snap] = FALSE
    BY <1>2 DEF Typing, TypeOK
<1> HIDE DEF prices, calm, rq
<1>6. /\ row \in PublishRequest /\ row.job = "compare"
      /\ row.prices = prices /\ row.undisturbed = calm /\ row.snap = rq.snap
      /\ row.instruction = rq.instruction /\ row.before = rq.before
    BY <1>1, <1>2, <1>4 DEF PublishRequest
<1> HIDE DEF row
<1>7. Moves(w, row) /\ request' \in [Requests -> RequestRow] /\ begun' = begun
    BY <1>3, <1>6, ProceedMoves DEF Typing, RequestRow
<1>8. request'[w] = row
    BY <1>7 DEF Moves
<1>9. PublishMoves(w, row)
    BY <1>1, <1>3, <1>6, <1>7 DEF PublishMoves, rq
<1> QED
    BY <1>5, <1>6, <1>7, <1>8, <1>9 DEF rq, prices

LEMMA ReadCurrentMoves ==
    ASSUME Typing, NEW w \in Requests, ReadCurrent(w)
    PROVE  /\ PublishMoves(w, request'[w])
           /\ request' \in [Requests -> RequestRow]
           /\ request[w].job = "compare" /\ request'[w].job = "publish"
           /\ request'[w].follows = Current /\ request'[w].saw = published
           /\ request'[w].notified =
                  PricesChanged(PricesOf(Current), request[w].prices)
           /\ request'[w].prices = request[w].prices
           /\ request'[w].undisturbed = request[w].undisturbed
<1> DEFINE rq == request[w]
           notified == PricesChanged(PricesOf(Current), rq.prices)
           row == [rq EXCEPT !.job = "publish", !.follows = Current,
                             !.saw = published, !.notified = notified]
<1>1. rq \in PublishRequest /\ rq.job = "compare"
    BY RequestKinds DEF ReadCurrent, Typing, PublishJobs
<1>2. Current \in 0..MaxPublications
    <2>1. published \in 0..MaxPublications
        BY DEF Typing, TypeOK
    <2> QED
        BY <2>1, RacesAssumption, CurrentIsUnsuperseded DEF Typing, Unsuperseded
<1>3. published \in 0..MaxPublications /\ notified \in BOOLEAN
    BY DEF Typing, TypeOK, PricesChanged
<1>4. Proceed(w, row) /\ Reads
    BY DEF ReadCurrent, Reads
<1> HIDE DEF notified, rq
<1>5. /\ row \in PublishRequest /\ row.job = "publish"
      /\ row.follows = Current /\ row.saw = published
      /\ row.notified = notified /\ row.prices = rq.prices
      /\ row.undisturbed = rq.undisturbed /\ row.snap = rq.snap
      /\ row.instruction = rq.instruction /\ row.before = rq.before
    BY <1>1, <1>2, <1>3 DEF PublishRequest
<1> HIDE DEF row
<1>6. Moves(w, row) /\ request' \in [Requests -> RequestRow] /\ begun' = begun
    BY <1>4, <1>5, ProceedMoves DEF Typing, RequestRow
<1>7. request'[w] = row
    BY <1>6 DEF Moves
<1>8. PublishMoves(w, row)
    BY <1>1, <1>4, <1>5, <1>6 DEF PublishMoves, rq
<1> QED
    BY <1>1, <1>5, <1>6, <1>7, <1>8 DEF rq, notified

(* The row a publish request inserts. *)
NewRow(rq) ==
    [prices |-> rq.prices, supersededBy |-> 0, at |-> rq.at,
     notified |-> rq.notified, snap |-> rq.snap,
     instruction |-> rq.instruction, follows |-> rq.follows,
     before |-> rq.before, saw |-> rq.saw, undisturbed |-> rq.undisturbed]

(* Only the pointer to the successor of an old row changes. *)
SameButSuperseded(new, old) ==
    /\ new.follows = old.follows
    /\ new.instruction = old.instruction
    /\ new.before = old.before
    /\ new.saw = old.saw
    /\ new.snap = old.snap
    /\ new.prices = old.prices
    /\ new.notified = old.notified
    /\ new.undisturbed = old.undisturbed

LEMMA CommitPublishRows ==
    ASSUME Typing, NEW w \in Requests, CommitPublish(w)
    PROVE  /\ request[w] \in PublishRequest /\ request[w].job = "publish"
           /\ published' = published + 1 /\ published' \in 1..MaxPublications
           /\ publications' \in [PublicationIds -> Publication \cup {None}]
           /\ publications'[published'] = NewRow(request[w])
           /\ NewRow(request[w]) \in Publication
           /\ \A n \in 1..published :
                  /\ publications'[n] \in Publication
                  /\ SameButSuperseded(publications'[n], publications[n])
                  /\ publications'[n].supersededBy =
                         IF n = request[w].follows THEN published'
                         ELSE publications[n].supersededBy
<1> DEFINE rq == request[w]
           new == published + 1
<1>1. rq \in PublishRequest /\ rq.job = "publish"
    BY RequestKinds DEF CommitPublish, Typing, PublishJobs
<1>2. /\ published' = new /\ new \in 1..MaxPublications
      /\ published \in 0..MaxPublications /\ MaxPublications \in Nat
    <2>1. published' = new /\ published < MaxPublications
        BY DEF CommitPublish
    <2>2. published \in 0..MaxPublications /\ MaxPublications \in Nat
        BY RacesAssumption DEF Typing, TypeOK
    <2> QED
        BY <2>1, <2>2
<1>3. publications' = [n \in PublicationIds |->
          IF n = new THEN NewRow(rq)
          ELSE IF n <= published /\ Supersedes(rq, n)
               THEN [publications[n] EXCEPT !.supersededBy = new]
               ELSE publications[n]]
    BY DEF CommitPublish, NewRow
<1>4. NewRow(rq) \in Publication
    BY <1>1, <1>2 DEF NewRow, Publication, PublishRequest
<1> HIDE DEF rq
<1>5. ASSUME NEW n \in 1..published
      PROVE  /\ publications'[n] \in Publication
             /\ SameButSuperseded(publications'[n], publications[n])
             /\ publications'[n].supersededBy =
                    IF n = rq.follows THEN new ELSE publications[n].supersededBy
    <2>1. publications[n] \in Publication
        BY DEF Typing, RowsExist
    <2>2. n \in PublicationIds /\ n # new /\ n <= published
        BY <1>2 DEF PublicationIds
    <2>3. publications'[n] = IF n = rq.follows
                             THEN [publications[n] EXCEPT !.supersededBy = new]
                             ELSE publications[n]
        BY <1>3, <2>2 DEF Supersedes
    <2>4. new \in 0..MaxPublications
        BY <1>2
    <2> HIDE DEF new
    <2> QED
        BY <2>1, <2>3, <2>4 DEF Publication, SameButSuperseded
<1>6. publications'[new] = NewRow(rq)
    BY <1>2, <1>3 DEF PublicationIds
<1>7. publications' \in [PublicationIds -> Publication \cup {None}]
    <2>1. ASSUME NEW n \in PublicationIds
          PROVE  publications'[n] \in Publication \cup {None}
        <3>1. CASE n \in 1..published \/ n = new
            BY <1>4, <1>5, <1>6, <3>1
        <3>2. CASE ~(n \in 1..published \/ n = new)
            <4>1. ~(n <= published)
                BY <1>2, <3>2 DEF PublicationIds
            <4>2. publications'[n] = publications[n]
                BY <1>3, <3>2, <4>1
            <4> QED
                BY <4>2 DEF Typing, TypeOK
        <3> QED
            BY <3>1, <3>2
    <2>2. publications' = [n \in PublicationIds |-> publications'[n]]
        BY <1>3
    <2> QED
        BY <2>1, <2>2
<1> QED
    BY <1>1, <1>2, <1>4, <1>5, <1>6, <1>7 DEF rq

LEMMA CommitPublishInstructions ==
    ASSUME Typing, NEW w \in Requests, CommitPublish(w)
    PROVE  /\ instructions' \in [Instructions -> Instruction]
           /\ \A i \in Instructions :
                  IF i = request[w].instruction
                  THEN /\ instructions'[i].status = "ISSUED"
                       /\ instructions'[i].publication = published'
                       /\ instructions'[i].fills = instructions[i].fills
                  ELSE instructions'[i] = instructions[i]
<1> DEFINE rq == request[w]
           new == published + 1
<1>1. instructions' = [i \in Instructions |->
          IF i = rq.instruction
          THEN [instructions[i] EXCEPT !.status = "ISSUED", !.publication = new]
          ELSE instructions[i]]
    BY DEF CommitPublish
<1>2. new \in 0..MaxPublications /\ published' = new
    BY CommitPublishRows
<1>3. \A i \in Instructions : instructions[i] \in Instruction
    BY DEF Typing, TypeOK
<1> HIDE DEF new, rq
<1>4. ASSUME NEW i \in Instructions, i = rq.instruction
      PROVE  /\ instructions'[i] \in Instruction
             /\ instructions'[i].status = "ISSUED"
             /\ instructions'[i].publication = new
             /\ instructions'[i].fills = instructions[i].fills
    BY <1>1, <1>2, <1>3, <1>4 DEF Instruction
<1>5. ASSUME NEW i \in Instructions, i # rq.instruction
      PROVE  instructions'[i] = instructions[i]
    BY <1>1, <1>5
<1>6. instructions' \in [Instructions -> Instruction]
    BY <1>1, <1>3, <1>4, <1>5
<1> QED
    BY <1>2, <1>4, <1>5, <1>6 DEF rq

LEMMA CommitPublishTypes ==
    ASSUME Typing, NEW w \in Requests, CommitPublish(w)
    PROVE  Typing'
<1>1. Moves(w, Idle) /\ request' \in [Requests -> RequestRow] /\ begun' = begun
    BY EndMoves DEF CommitPublish, Typing
<1>2. UNCHANGED <<active, calcVars, reviewVars>>
    BY DEF CommitPublish
<1>3. TypeOK'
    BY <1>1, <1>2, CommitPublishRows, CommitPublishInstructions, RacesAssumption
    DEF Typing, TypeOK, RequestRow, calcVars, reviewVars
<1>4. RowsExist'
    <2>1. ASSUME NEW n \in 1..published'
          PROVE  publications'[n] \in Publication
        <3>1. n \in 1..published \/ n = published'
            BY CommitPublishRows DEF Typing, TypeOK
        <3> QED
            BY <3>1, CommitPublishRows
    <2> QED
        BY <1>2, <2>1 DEF RowsExist, Typing, calcVars
<1>5. ASSUME NEW v \in Requests
      PROVE  ReadsExist(v)'
    <2>1. CASE v = w
        BY <1>1, <2>1 DEF ReadsExist, Moves, Idle
    <2>2. CASE v # w
        BY <1>1, <1>2, <2>2 DEF ReadsExist, Moves, Typing, calcVars
    <2> QED
        BY <2>1, <2>2
<1> QED
    BY <1>3, <1>4, <1>5 DEF Typing

LEMMA BeginInstructionMoves ==
    ASSUME Typing, NEW w \in Requests, NEW i \in Instructions,
           NEW job \in InstructionJobs, BeginInstruction(w, i, job)
    PROVE  /\ request'[w] = [job |-> job, instruction |-> i]
           /\ Moves(w, request'[w]) /\ request' \in [Requests -> RequestRow]
           /\ begun' \in Times /\ Reads
           /\ instructions[i].status # "DRAFT"
<1> DEFINE row == [job |-> job, instruction |-> i]
<1>1. row \in InstructionRequest
    BY DEF InstructionRequest, InstructionJobs
<1>2. Begin(w, row) /\ Reads
    BY DEF BeginInstruction, Reads
<1>3. instructions[i].status # "DRAFT"
    BY DEF BeginInstruction, AllowedIn, InstructionJobs
<1> HIDE DEF row
<1>4. Moves(w, row) /\ request' \in [Requests -> RequestRow] /\ begun' \in Times
    BY <1>1, <1>2, BeginMoves DEF Typing, RequestRow
<1> QED
    BY <1>2, <1>3, <1>4 DEF Moves, row

LEMMA BeginInstructionTypes ==
    ASSUME Typing, NEW w \in Requests, NEW i \in Instructions,
           NEW job \in InstructionJobs, BeginInstruction(w, i, job)
    PROVE  Typing'
<1>1. request'[w].job = job
    <2>1. request'[w] = [job |-> job, instruction |-> i]
        BY BeginInstructionMoves
    <2> QED
        BY <2>1
<1>2. ReadsExist(w)'
    BY <1>1 DEF ReadsExist, InstructionJobs
<1> QED
    BY <1>2, BeginInstructionMoves, ReadingTypes

(* A transition changes the status or the fills of one instruction.        *)
LEMMA CommitInstructionRow ==
    ASSUME Typing, NEW w \in Requests, CommitInstruction(w)
    PROVE  /\ request[w].job \in InstructionJobs
           /\ request[w].instruction \in Instructions
           /\ instructions' \in [Instructions -> Instruction]
           /\ instructions'[request[w].instruction].publication =
                  instructions[request[w].instruction].publication
           /\ \/ instructions'[request[w].instruction].status =
                     instructions[request[w].instruction].status
              \/ instructions'[request[w].instruction].status
                     \in {"ACKNOWLEDGED", "RECONCILED"}
           /\ \A i \in Instructions :
                  i # request[w].instruction => instructions'[i] = instructions[i]
<1> DEFINE rq == request[w]
           i == rq.instruction
<1>1. rq \in InstructionRequest
    BY RequestKinds DEF CommitInstruction, Typing, InstructionJobs
<1>2. i \in Instructions /\ rq.job \in InstructionJobs
    BY <1>1 DEF InstructionRequest, InstructionJobs
<1>3. instructions \in [Instructions -> Instruction]
    BY DEF Typing, TypeOK
<1>4. instructions[i] \in Instruction
    BY <1>2, <1>3
<1>5. \/ instructions' = [instructions EXCEPT ![i].status = "ACKNOWLEDGED"]
      \/ instructions' = [instructions EXCEPT ![i].status = "RECONCILED"]
      \/ /\ instructions[i].fills < MaxFills
         /\ instructions' = [instructions EXCEPT
                                ![i].fills = instructions[i].fills + 1]
      \/ /\ instructions[i].fills > 0
         /\ instructions' = [instructions EXCEPT
                                ![i].fills = instructions[i].fills - 1]
    BY DEF CommitInstruction
<1> HIDE DEF i
<1>6. CASE instructions' = [instructions EXCEPT ![i].status = "ACKNOWLEDGED"]
    BY <1>2, <1>3, <1>4, <1>6 DEF Instruction, i
<1>7. CASE instructions' = [instructions EXCEPT ![i].status = "RECONCILED"]
    BY <1>2, <1>3, <1>4, <1>7 DEF Instruction, i
<1>8. CASE /\ instructions[i].fills < MaxFills
           /\ instructions' = [instructions EXCEPT
                                  ![i].fills = instructions[i].fills + 1]
    BY <1>2, <1>3, <1>4, <1>8, RacesAssumption DEF Instruction, i
<1>9. CASE /\ instructions[i].fills > 0
           /\ instructions' = [instructions EXCEPT
                                  ![i].fills = instructions[i].fills - 1]
    BY <1>2, <1>3, <1>4, <1>9, RacesAssumption DEF Instruction, i
<1> QED
    BY <1>5, <1>6, <1>7, <1>8, <1>9

LEMMA CommitInstructionTypes ==
    ASSUME Typing, NEW w \in Requests, CommitInstruction(w)
    PROVE  Typing'
<1>1. Moves(w, Idle) /\ request' \in [Requests -> RequestRow] /\ begun' = begun
    BY EndMoves DEF CommitInstruction, Typing
<1>2. UNCHANGED <<active, calcVars, reviewVars, pubVars>>
    BY DEF CommitInstruction
<1>3. TypeOK' /\ RowsExist'
    BY <1>1, <1>2, CommitInstructionRow
    DEF Typing, TypeOK, RequestRow, RowsExist, calcVars, reviewVars, pubVars
<1>4. ASSUME NEW v \in Requests
      PROVE  ReadsExist(v)'
    <2>1. CASE v = w
        BY <1>1, <2>1 DEF ReadsExist, Moves, Idle
    <2>2. CASE v # w
        BY <1>1, <1>2, <2>2 DEF ReadsExist, Moves, Typing, calcVars
    <2> QED
        BY <2>1, <2>2
<1> QED
    BY <1>3, <1>4 DEF Typing

LEMMA AbortTypes ==
    ASSUME Typing, NEW w \in Requests, Abort(w)
    PROVE  Typing' /\ Moves(w, Idle) /\ Reads
<1>1. Moves(w, Idle) /\ request' \in [Requests -> RequestRow] /\ begun' = begun
    BY EndMoves DEF Abort, Typing
<1>2. Reads /\ begun' \in Times
    BY <1>1 DEF Abort, Reads, Typing, TypeOK
<1>3. ReadsExist(w)'
    BY <1>1 DEF ReadsExist, Moves, Idle
<1> QED
    BY <1>1, <1>2, <1>3, ReadingTypes

LEMMA ActivateTypes ==
    ASSUME Typing, NEW r \in Refs, ActivateRef(r)
    PROVE  Typing'
<1>1. begun' \in Times
    BY RacesAssumption DEF ActivateRef, Typing, TypeOK, Times
<1>2. TypeOK' /\ RowsExist'
    BY <1>1 DEF ActivateRef, Typing, TypeOK, RowsExist, calcVars, reviewVars, pubVars
<1>3. \A v \in Requests : ReadsExist(v)'
    BY DEF ActivateRef, Typing, ReadsExist, calcVars
<1> QED
    BY <1>2, <1>3 DEF Typing

LEMMA InitTypes == Init => Typing
<1> SUFFICES ASSUME Init
             PROVE  Typing
    OBVIOUS
<1> USE RacesAssumption
<1>1. TypeOK
    BY DEF Init, TypeOK, Working, IssueRows, IssueStates, NoIssues, PublicationIds,
           Instruction, Times
<1>2. RowsExist
    BY DEF Init, RowsExist, NoIssues
<1>3. \A w \in Requests : ReadsExist(w)
    BY DEF Init, ReadsExist, Idle
<1> QED
    BY <1>1, <1>2, <1>3 DEF Typing

LEMMA TypingStep == Typing /\ [Next]_vars => Typing'
<1> SUFFICES ASSUME Typing, [Next]_vars
             PROVE  Typing'
    OBVIOUS
<1>1. ASSUME NEW r \in Refs, ActivateRef(r)
      PROVE  Typing'
    BY <1>1, ActivateTypes
<1>2. ASSUME NEW w \in Requests, CalculateStep(w)
      PROVE  Typing'
    BY <1>2, BeginCalculateTypes, LoadFirstWorkingTypes, ComputeLinesTypes,
       CommitCalculateTypes DEF CalculateStep
<1>3. ASSUME NEW w \in Requests, AcknowledgeStep(w)
      PROVE  Typing'
    BY <1>3, BeginAcknowledgeTypes, CommitAcknowledgeTypes DEF AcknowledgeStep
<1>4. ASSUME NEW w \in Requests, PublishStep(w)
      PROVE  Typing'
    <2>1. CASE PassGate(w) \/ ReadPrices(w) \/ ReadCurrent(w)
        BY <2>1, PassGateMoves, ReadPricesMoves, ReadCurrentMoves, PublishReadTypes
    <2> QED
        BY <1>4, <2>1, BeginPublishTypes, CommitPublishTypes DEF PublishStep
<1>5. ASSUME NEW w \in Requests, InstructionStep(w)
      PROVE  Typing'
    BY <1>5, BeginInstructionTypes, CommitInstructionTypes
    DEF InstructionStep, InstructionJobs
<1>6. ASSUME NEW w \in Requests, Abort(w)
      PROVE  Typing'
    BY <1>6, AbortTypes
<1>7. CASE UNCHANGED vars
    <2>1. UNCHANGED <<active, workings, issues, calculated, acks, publications,
                      published, instructions, begun, request, torn, reviews>>
        BY <1>7 DEF vars, calcVars, pubVars, reviewVars
    <2>2. TypeOK' /\ RowsExist'
        BY <2>1 DEF Typing, TypeOK, RowsExist
    <2>3. \A w \in Requests : ReadsExist(w)'
        BY <2>1 DEF Typing, ReadsExist
    <2> QED
        BY <2>2, <2>3 DEF Typing
<1> QED
    BY <1>1, <1>2, <1>3, <1>4, <1>5, <1>6, <1>7 DEF Next

(* Every row and every request has its declared shape.  For every bound.   *)
THEOREM TypesHold == Spec => []TypeOK
<1>1. Spec => []Typing
    BY InitTypes, TypingStep, PTL DEF Spec
<1>2. Typing => TypeOK
    BY DEF Typing
<1> QED
    BY <1>1, <1>2, PTL

-----------------------------------------------------------------------------
(* Who can change publications and instructions *)

(* Nothing is published, and no request comes to publish or to change an   *)
(* instruction.                                                            *)
Elsewhere ==
    /\ UNCHANGED <<pubVars, instructions>>
    /\ \A v \in Requests :
           \/ request'[v] = request[v]
           \/ request'[v].job \notin PublishJobs \cup InstructionJobs

LEMMA MovesElsewhere ==
    ASSUME NEW w \in Requests, NEW row, Moves(w, row),
           row.job \notin PublishJobs \cup InstructionJobs,
           UNCHANGED <<pubVars, instructions>>
    PROVE  Elsewhere
BY DEF Moves, Elsewhere

LEMMA CalculateElsewhere ==
    ASSUME Typing, NEW w \in Requests, CalculateStep(w)
    PROVE  Elsewhere
<1>1. ASSUME NEW s \in Snapshots, BeginCalculate(w, s)
      PROVE  Elsewhere
    <2> DEFINE row == [job |-> "load", snap |-> s, ref |-> active,
                       first |-> None, loaded |-> 0, found |-> NoIssues]
    <2>1. request' = [request EXCEPT ![w] = row]
        BY <1>1 DEF BeginCalculate, Begin
    <2>2. row.job \notin PublishJobs \cup InstructionJobs
        BY DEF PublishJobs, InstructionJobs
    <2> HIDE DEF row
    <2>3. Moves(w, row)
        BY <2>1 DEF Typing, TypeOK, Moves
    <2> QED
        BY <1>1, <2>2, <2>3, MovesElsewhere DEF BeginCalculate
<1>2. ASSUME request[w] \in CalculateRequest, NEW first, NEW loaded,
             Proceed(w, [request[w] EXCEPT !.job = "compute", !.first = first,
                                           !.loaded = loaded]), Reads
      PROVE  Elsewhere
    <2> DEFINE row == [request[w] EXCEPT !.job = "compute", !.first = first,
                                         !.loaded = loaded]
    <2>1. row.job \notin PublishJobs \cup InstructionJobs
        BY <1>2 DEF CalculateRequest, PublishJobs, InstructionJobs
    <2>2. request' = [request EXCEPT ![w] = row]
        BY <1>2 DEF Proceed
    <2> HIDE DEF row
    <2>3. Moves(w, row)
        BY <2>2 DEF Typing, TypeOK, Moves
    <2> QED
        BY <1>2, <2>1, <2>3, MovesElsewhere DEF Reads
<1>3. ASSUME request[w] \in CalculateRequest, NEW found,
             Proceed(w, [request[w] EXCEPT !.job = "calculate",
                                           !.found = found]), Reads
      PROVE  Elsewhere
    <2> DEFINE row == [request[w] EXCEPT !.job = "calculate", !.found = found]
    <2>1. row.job \notin PublishJobs \cup InstructionJobs
        BY <1>3 DEF CalculateRequest, PublishJobs, InstructionJobs
    <2>2. request' = [request EXCEPT ![w] = row]
        BY <1>3 DEF Proceed
    <2> HIDE DEF row
    <2>3. Moves(w, row)
        BY <2>2 DEF Typing, TypeOK, Moves
    <2> QED
        BY <1>3, <2>1, <2>3, MovesElsewhere DEF Reads
<1>4. ASSUME LoadFirstWorking(w)
      PROVE  Elsewhere
    <2>1. request[w] \in CalculateRequest
        BY <1>4, RequestKinds DEF LoadFirstWorking, Typing
    <2> QED
        BY <1>2, <1>4, <2>1 DEF LoadFirstWorking, Reads
<1>5. ASSUME ComputeLines(w)
      PROVE  Elsewhere
    <2>1. request[w] \in CalculateRequest
        BY <1>5, RequestKinds DEF ComputeLines, Typing
    <2> QED
        BY <1>3, <1>5, <2>1 DEF ComputeLines, Reads
<1>6. ASSUME CommitCalculate(w)
      PROVE  Elsewhere
    <2>1. Moves(w, Idle) /\ UNCHANGED <<pubVars, instructions>>
        BY <1>6, EndMoves DEF CommitCalculate, Typing
    <2> QED
        BY <2>1, MovesElsewhere DEF Idle, PublishJobs, InstructionJobs
<1> QED
    BY <1>1, <1>4, <1>5, <1>6 DEF CalculateStep

LEMMA AcknowledgeElsewhere ==
    ASSUME Typing, NEW w \in Requests, AcknowledgeStep(w)
    PROVE  Elsewhere
<1>1. ASSUME NEW s \in Snapshots, NEW o \in Orders, NEW k \in Codes,
             BeginAcknowledge(w, s, o, k)
      PROVE  Elsewhere
    <2> DEFINE row == [job |-> "acknowledge", snap |-> s, order |-> o,
                       code |-> k, row |-> calculated[s]]
    <2>1. request' = [request EXCEPT ![w] = row]
        BY <1>1 DEF BeginAcknowledge, Begin
    <2>2. row.job \notin PublishJobs \cup InstructionJobs
        BY DEF PublishJobs, InstructionJobs
    <2> HIDE DEF row
    <2>3. Moves(w, row)
        BY <2>1 DEF Typing, TypeOK, Moves
    <2> QED
        BY <1>1, <2>2, <2>3, MovesElsewhere DEF BeginAcknowledge
<1>2. ASSUME CommitAcknowledge(w)
      PROVE  Elsewhere
    <2>1. Moves(w, Idle) /\ UNCHANGED <<pubVars, instructions>>
        BY <1>2, EndMoves DEF CommitAcknowledge, Typing
    <2> QED
        BY <2>1, MovesElsewhere DEF Idle, PublishJobs, InstructionJobs
<1> QED
    BY <1>1, <1>2 DEF AcknowledgeStep

LEMMA StepKinds ==
    ASSUME Typing, [Next]_vars
    PROVE  \/ Elsewhere
           \/ \E w \in Requests : \/ PublishStep(w)
                                  \/ InstructionStep(w)
<1>1. ASSUME NEW w \in Requests, Abort(w)
      PROVE  Elsewhere
    <2>1. Moves(w, Idle) /\ UNCHANGED <<pubVars, instructions>>
        BY <1>1, AbortTypes DEF Reads
    <2> QED
        BY <2>1, MovesElsewhere DEF Idle, PublishJobs, InstructionJobs
<1>2. ASSUME NEW r \in Refs, ActivateRef(r)
      PROVE  Elsewhere
    BY <1>2 DEF ActivateRef, Elsewhere
<1>3. CASE UNCHANGED vars
    BY <1>3 DEF vars, Elsewhere
<1> QED
    BY <1>1, <1>2, <1>3, CalculateElsewhere, AcknowledgeElsewhere DEF Next

-----------------------------------------------------------------------------
(* Publications and those they replaced *)

(* The last publication is not superseded yet, and every publication that  *)
(* was replaced is.                                                        *)
ReplacedAreSuperseded ==
    /\ published # 0 => publications[published].supersededBy = 0
    /\ \A m \in 1..published :
           /\ publications[m].follows < m
           /\ publications[m].follows # 0 =>
                  publications[publications[m].follows].supersededBy # 0

(* What a request read as the live publication had not been replaced by    *)
(* any that it could see.                                                  *)
ReadWasLive(w) ==
    LET rq == request[w]
    IN  rq.job = "publish" =>
            /\ rq.saw <= published
            /\ rq.follows <= rq.saw
            /\ \A m \in 1..rq.saw : publications[m].follows # rq.follows

Replacing ==
    /\ Typing
    /\ ReplacedAreSuperseded
    /\ \A w \in Requests : ReadWasLive(w)
    /\ OnlyOverlapForks

LEMMA ReplacingKept ==
    ASSUME Replacing, Typing', UNCHANGED pubVars,
           \A v \in Requests : \/ request'[v] = request[v]
                               \/ request'[v].job # "publish"
    PROVE  Replacing'
<1>1. ReplacedAreSuperseded' /\ OnlyOverlapForks'
    BY DEF Replacing, ReplacedAreSuperseded, OnlyOverlapForks, pubVars
<1>2. ASSUME NEW v \in Requests
      PROVE  ReadWasLive(v)'
    <2>1. CASE request'[v] = request[v]
        BY <2>1 DEF Replacing, ReadWasLive, pubVars
    <2>2. CASE request'[v].job # "publish"
        BY <2>2 DEF ReadWasLive
    <2> QED
        BY <2>1, <2>2
<1> QED
    BY <1>1, <1>2 DEF Replacing

LEMMA ReplacingRead ==
    ASSUME Replacing, Typing', NEW w \in Requests, ReadCurrent(w)
    PROVE  Replacing'
<1>1. /\ PublishMoves(w, request'[w])
      /\ request'[w].follows = Current /\ request'[w].saw = published
    BY ReadCurrentMoves DEF Replacing
<1>2. Moves(w, request'[w]) /\ UNCHANGED <<publications, published>>
    BY <1>1 DEF PublishMoves, Reads, pubVars
<1>3. ReplacedAreSuperseded' /\ OnlyOverlapForks'
    BY <1>2 DEF Replacing, ReplacedAreSuperseded, OnlyOverlapForks
<1>4. /\ Current <= published
      /\ \A m \in 1..published : publications[m].follows # Current
    <2>1. published \in Nat
        BY DEF Replacing, Typing, TypeOK
    <2>2. CASE Unsuperseded = {}
        <3>1. Current = 0
            BY <2>2, CurrentIsUnsuperseded DEF Replacing, Typing
        <3>2. published = 0
            BY <2>1, <2>2 DEF Replacing, ReplacedAreSuperseded, Unsuperseded
        <3> QED
            BY <3>1, <3>2
    <2>3. CASE Unsuperseded # {}
        <3>1. Current \in 1..published /\ publications[Current].supersededBy = 0
            BY <2>3, CurrentIsUnsuperseded DEF Replacing, Typing, Unsuperseded
        <3> QED
            BY <2>1, <3>1 DEF Replacing, ReplacedAreSuperseded
    <2> QED
        BY <2>2, <2>3
<1>5. ASSUME NEW v \in Requests
      PROVE  ReadWasLive(v)'
    <2>1. CASE v = w
        BY <1>1, <1>2, <1>4, <2>1 DEF ReadWasLive, Replacing, Typing, TypeOK
    <2>2. CASE v # w
        BY <1>2, <2>2 DEF ReadWasLive, Replacing, Moves
    <2> QED
        BY <2>1, <2>2
<1> QED
    BY <1>3, <1>5 DEF Replacing

LEMMA ReplacingCommit ==
    ASSUME Replacing, Typing', NEW w \in Requests, CommitPublish(w)
    PROVE  Replacing'
<1> DEFINE rq == request[w]
           new == published + 1
<1>1. /\ rq \in PublishRequest /\ rq.job = "publish"
      /\ published' = new /\ published \in Nat
      /\ publications'[new] = NewRow(rq)
      /\ \A n \in 1..published :
             /\ publications[n] \in Publication
             /\ publications'[n].follows = publications[n].follows
             /\ publications'[n].saw = publications[n].saw
             /\ publications'[n].supersededBy =
                    IF n = rq.follows THEN new ELSE publications[n].supersededBy
    <2>1. Typing /\ published \in Nat
        BY DEF Replacing, Typing, TypeOK
    <2>2. /\ rq \in PublishRequest /\ rq.job = "publish"
          /\ published' = new /\ publications'[published'] = NewRow(rq)
        BY <2>1, CommitPublishRows
    <2>3. ASSUME NEW n \in 1..published
          PROVE  /\ publications[n] \in Publication
                 /\ publications'[n].follows = publications[n].follows
                 /\ publications'[n].saw = publications[n].saw
                 /\ publications'[n].supersededBy =
                        IF n = rq.follows THEN published'
                        ELSE publications[n].supersededBy
        BY <2>1, CommitPublishRows DEF Typing, RowsExist, SameButSuperseded
    <2> QED
        BY <2>1, <2>2, <2>3
<1>2. /\ publications'[new].follows = rq.follows
      /\ publications'[new].saw = rq.saw
      /\ publications'[new].supersededBy = 0
    BY <1>1 DEF NewRow
<1>3. /\ rq.saw <= published /\ rq.follows <= rq.saw
      /\ \A m \in 1..rq.saw : publications[m].follows # rq.follows
      /\ rq.saw \in Nat /\ rq.follows \in Nat
    BY <1>1 DEF Replacing, ReadWasLive, PublishRequest
<1>4. \A n \in 1..published : publications[n].follows \in Nat
    BY <1>1 DEF Publication
<1>5. \A n \in 1..new : n \in 1..published \/ n = new
    BY <1>1
<1>6. Moves(w, Idle)
    BY EndMoves DEF CommitPublish, Replacing, Typing
<1> HIDE DEF rq
<1>7. ReplacedAreSuperseded'
    <2>1. ASSUME NEW m \in 1..new
          PROVE  /\ publications'[m].follows < m
                 /\ publications'[m].follows # 0 =>
                        publications'[publications'[m].follows].supersededBy # 0
        <3>1. CASE m = new
            BY <1>1, <1>2, <1>3, <3>1
        <3>2. CASE m \in 1..published
            <4>1. /\ publications[m].follows < m
                  /\ publications[m].follows # 0 =>
                         publications[publications[m].follows].supersededBy # 0
                BY <3>2 DEF Replacing, ReplacedAreSuperseded
            <4>2. publications[m].follows # 0 => publications[m].follows \in 1..published
                BY <1>1, <1>4, <3>2, <4>1
            <4> QED
                BY <1>1, <3>2, <4>1, <4>2
        <3> QED
            BY <1>5, <3>1, <3>2
    <2> QED
        BY <1>1, <1>2, <2>1 DEF ReplacedAreSuperseded
<1>8. OnlyOverlapForks'
    <2>1. ASSUME NEW m \in 1..new, NEW n \in 1..new, m < n,
                 publications'[m].follows = publications'[n].follows
          PROVE  publications'[n].saw < m
        <3>1. m \in 1..published
            BY <1>1, <2>1
        <3>2. CASE n = new
            <4>1. publications[m].follows = rq.follows
                BY <1>1, <1>2, <2>1, <3>1, <3>2
            <4>2. ~(m <= rq.saw)
                BY <1>3, <3>1, <4>1
            <4> QED
                BY <1>2, <1>3, <3>1, <3>2, <4>2
        <3>3. CASE n \in 1..published
            BY <1>1, <2>1, <3>1, <3>3 DEF Replacing, OnlyOverlapForks
        <3> QED
            BY <1>5, <3>2, <3>3
    <2> QED
        BY <1>1, <2>1 DEF OnlyOverlapForks
<1>9. ASSUME NEW v \in Requests
      PROVE  ReadWasLive(v)'
    <2>1. CASE v = w
        BY <1>6, <2>1 DEF ReadWasLive, Moves, Idle
    <2>2. CASE v # w /\ request[v].job = "publish"
        <3>1. request'[v] = request[v] /\ request[v] \in PublishRequest
            BY <1>6, <2>2, RequestKinds DEF Moves, Replacing, Typing, PublishJobs
        <3>2. /\ request[v].saw <= published
              /\ request[v].follows <= request[v].saw
              /\ request[v].saw \in Nat
              /\ \A m \in 1..request[v].saw :
                     publications[m].follows # request[v].follows
            BY <2>2, <3>1 DEF Replacing, ReadWasLive, PublishRequest
        <3>3. \A m \in 1..request[v].saw :
                  publications'[m].follows # request[v].follows
            BY <1>1, <3>2
        <3> QED
            BY <1>1, <3>1, <3>2, <3>3 DEF ReadWasLive
    <2>3. CASE v # w /\ request[v].job # "publish"
        BY <1>6, <2>3 DEF ReadWasLive, Moves
    <2> QED
        BY <2>1, <2>2, <2>3
<1> QED
    BY <1>7, <1>8, <1>9 DEF Replacing

LEMMA ReplacingStep == Replacing /\ [Next]_vars => Replacing'
<1> SUFFICES ASSUME Replacing, [Next]_vars
             PROVE  Replacing'
    OBVIOUS
<1>1. Typing /\ Typing'
    BY TypingStep DEF Replacing
<1>2. CASE Elsewhere
    BY <1>1, <1>2, ReplacingKept DEF Elsewhere, PublishJobs
<1>3. ASSUME NEW w \in Requests, NEW s \in Snapshots,
             NEW i \in Instructions \cup {0}, BeginPublish(w, s, i)
      PROVE  Replacing'
    <2>1. request'[w].job = "gate" /\ Moves(w, request'[w]) /\ Reads
        BY <1>1, <1>3, BeginPublishMoves
    <2> QED
        BY <1>1, <2>1, ReplacingKept DEF Moves, Reads
<1>4. ASSUME NEW w \in Requests, PassGate(w) \/ ReadPrices(w)
      PROVE  Replacing'
    <2>1. /\ PublishMoves(w, request'[w])
          /\ request'[w].job \in {"price", "compare"}
        BY <1>1, <1>4, PassGateMoves, ReadPricesMoves
    <2> QED
        BY <1>1, <2>1, ReplacingKept DEF PublishMoves, Moves, Reads
<1>5. ASSUME NEW w \in Requests, ReadCurrent(w) \/ CommitPublish(w)
      PROVE  Replacing'
    BY <1>1, <1>5, ReplacingRead, ReplacingCommit
<1>6. ASSUME NEW w \in Requests, NEW i \in Instructions,
             NEW job \in InstructionJobs, BeginInstruction(w, i, job)
      PROVE  Replacing'
    <2>1. request'[w] = [job |-> job, instruction |-> i]
        BY <1>1, <1>6, BeginInstructionMoves
    <2>2. request'[w].job # "publish"
        BY <2>1 DEF InstructionJobs
    <2>3. Moves(w, request'[w]) /\ Reads
        BY <1>1, <1>6, BeginInstructionMoves
    <2> QED
        BY <1>1, <2>2, <2>3, ReplacingKept DEF Moves, Reads
<1>7. ASSUME NEW w \in Requests, CommitInstruction(w)
      PROVE  Replacing'
    <2>1. Moves(w, Idle) /\ UNCHANGED pubVars
        BY <1>1, <1>7, EndMoves DEF CommitInstruction, Typing
    <2>2. \A v \in Requests : request'[v] = request[v] \/ request'[v].job # "publish"
        BY <2>1 DEF Moves, Idle
    <2> QED
        BY <1>1, <2>1, <2>2, ReplacingKept
<1> QED
    BY <1>1, <1>2, <1>3, <1>4, <1>5, <1>6, <1>7, StepKinds
    DEF PublishStep, InstructionStep, InstructionJobs

(* Only publishes that overlapped replace the same publication: the later  *)
(* one had read which was live before the earlier one committed.  The      *)
(* invariant behind it is that a request has read, of all it could see, a  *)
(* publication nobody had replaced.                                        *)
THEOREM OnlyOverlapsFork == Spec => []OnlyOverlapForks
<1>1. Init => Replacing
    <2>1. Init => ReplacedAreSuperseded /\ OnlyOverlapForks
        BY DEF Init, ReplacedAreSuperseded, OnlyOverlapForks
    <2>2. Init => \A w \in Requests : ReadWasLive(w)
        BY DEF Init, ReadWasLive, Idle
    <2> QED
        BY <2>1, <2>2, InitTypes DEF Replacing
<1>2. Replacing => OnlyOverlapForks
    BY DEF Replacing
<1> QED
    BY <1>1, <1>2, ReplacingStep, PTL DEF Spec

-----------------------------------------------------------------------------
(* Instructions and the publications made for them *)

(* A draft has no publication.                                             *)
DraftsAreUnpublished ==
    \A i \in Instructions :
        instructions[i].status = "DRAFT" =>
            \A m \in 1..published : publications[m].instruction # i

(* An instruction being published had no publication when its request      *)
(* began, and one being confirmed, closed or filled has left DRAFT.        *)
BeganRightly(w) ==
    LET rq == request[w]
    IN  /\ rq.job \in PublishJobs /\ rq.instruction # 0 =>
               /\ rq.before <= published
               /\ \A m \in 1..rq.before :
                      publications[m].instruction # rq.instruction
        /\ rq.job \in InstructionJobs =>
               instructions[rq.instruction].status # "DRAFT"

Issuing ==
    /\ Typing
    /\ DraftsAreUnpublished
    /\ \A w \in Requests : BeganRightly(w)
    /\ IssuedTwiceOnlyOverlapping
    /\ FillsFollowPublication

LEMMA IssuingKept ==
    ASSUME Issuing, Typing', UNCHANGED <<pubVars, instructions>>,
           \A v \in Requests : request'[v] = request[v] \/ BeganRightly(v)'
    PROVE  Issuing'
<1>1. /\ DraftsAreUnpublished' /\ IssuedTwiceOnlyOverlapping'
      /\ FillsFollowPublication'
    BY DEF Issuing, DraftsAreUnpublished, IssuedTwiceOnlyOverlapping,
           FillsFollowPublication, pubVars
<1>2. ASSUME NEW v \in Requests
      PROVE  BeganRightly(v)'
    <2>1. CASE request'[v] = request[v]
        BY <2>1 DEF Issuing, BeganRightly, pubVars
    <2> QED
        BY <2>1
<1> QED
    BY <1>1, <1>2 DEF Issuing

LEMMA IssuingBegin ==
    ASSUME Issuing, Typing', NEW w \in Requests, NEW s \in Snapshots,
           NEW i \in Instructions \cup {0}, BeginPublish(w, s, i)
    PROVE  Issuing'
<1>1. /\ request'[w].job = "gate" /\ request'[w].instruction = i
      /\ request'[w].before = published
      /\ Moves(w, request'[w]) /\ Reads
    BY BeginPublishMoves DEF Issuing
<1>2. i # 0 => i \in Instructions /\ instructions[i].status = "DRAFT"
    BY DEF BeginPublish, MayPublish
<1>3. i # 0 => \A m \in 1..published : publications[m].instruction # i
    BY <1>2 DEF Issuing, DraftsAreUnpublished
<1>4. BeganRightly(w)'
    BY <1>1, <1>3 DEF BeganRightly, InstructionJobs, Reads, pubVars, Issuing,
                      Typing, TypeOK
<1> QED
    BY <1>1, <1>4, IssuingKept DEF Moves, Reads

LEMMA IssuingRead ==
    ASSUME Issuing, Typing', NEW w \in Requests, PublishMoves(w, request'[w])
    PROVE  Issuing'
<1>1. /\ request[w].job \in PublishJobs /\ request'[w].job \in PublishJobs
      /\ request'[w].instruction = request[w].instruction
      /\ request'[w].before = request[w].before
      /\ Moves(w, request'[w]) /\ Reads
    BY DEF PublishMoves, PublishRequest, PublishJobs
<1>2. \A j \in PublishJobs : j \notin InstructionJobs
    BY DEF PublishJobs, InstructionJobs
<1>3. BeganRightly(w)'
    BY <1>1, <1>2 DEF Issuing, BeganRightly, Reads, pubVars
<1> QED
    BY <1>1, <1>3, IssuingKept DEF Moves, Reads

LEMMA IssuingCommit ==
    ASSUME Issuing, Typing', NEW w \in Requests, CommitPublish(w)
    PROVE  Issuing'
<1> DEFINE rq == request[w]
           new == published + 1
<1>1. Typing /\ published \in Nat
    BY DEF Issuing, Typing, TypeOK
<1>2. /\ rq \in PublishRequest /\ rq.job = "publish"
      /\ published' = new /\ publications'[published'] = NewRow(rq)
    BY <1>1, CommitPublishRows
<1>3. /\ publications'[new].instruction = rq.instruction
      /\ publications'[new].before = rq.before
      /\ rq.before \in Nat
      /\ rq.instruction # 0 =>
             /\ rq.before <= published
             /\ \A m \in 1..rq.before :
                    publications[m].instruction # rq.instruction
    BY <1>2 DEF NewRow, PublishRequest, Issuing, BeganRightly, PublishJobs
<1>4. ASSUME NEW n \in 1..published
      PROVE  /\ publications'[n].instruction = publications[n].instruction
             /\ publications'[n].before = publications[n].before
    BY <1>1, CommitPublishRows DEF SameButSuperseded
<1>5. ASSUME NEW i \in Instructions
      PROVE  /\ i = rq.instruction =>
                    /\ instructions'[i].status = "ISSUED"
                    /\ instructions'[i].publication = new
             /\ i # rq.instruction => instructions'[i] = instructions[i]
    BY <1>1, <1>2, CommitPublishInstructions
<1>6. \A n \in 1..new : n \in 1..published \/ n = new
    BY <1>1
<1>7. Moves(w, Idle)
    BY <1>1, EndMoves DEF CommitPublish, Typing
<1> HIDE DEF rq
<1>8. DraftsAreUnpublished'
    <2>1. ASSUME NEW i \in Instructions, instructions'[i].status = "DRAFT",
                 NEW m \in 1..new
          PROVE  publications'[m].instruction # i
        <3>1. i # rq.instruction /\ instructions[i].status = "DRAFT"
            BY <1>5, <2>1
        <3> QED
            BY <1>3, <1>4, <1>6, <3>1 DEF Issuing, DraftsAreUnpublished
    <2> QED
        BY <1>2, <2>1 DEF DraftsAreUnpublished
<1>9. IssuedTwiceOnlyOverlapping'
    <2>1. ASSUME NEW m \in 1..new, NEW n \in 1..new, m < n,
                 publications'[m].instruction = publications'[n].instruction,
                 publications'[n].instruction # 0
          PROVE  publications'[n].before < m
        <3>1. m \in 1..published
            BY <1>1, <2>1
        <3>2. CASE n = new
            <4>1. /\ publications[m].instruction = rq.instruction
                  /\ rq.instruction # 0
                BY <1>3, <1>4, <2>1, <3>1, <3>2
            <4>2. ~(m <= rq.before)
                BY <1>3, <3>1, <4>1
            <4> QED
                BY <1>3, <3>1, <3>2, <4>2
        <3>3. CASE n \in 1..published
            BY <1>4, <2>1, <3>1, <3>3 DEF Issuing, IssuedTwiceOnlyOverlapping
        <3> QED
            BY <1>6, <3>2, <3>3
    <2> QED
        BY <1>2, <2>1 DEF IssuedTwiceOnlyOverlapping
<1>10. FillsFollowPublication'
    <2>1. ASSUME NEW i \in Instructions
          PROVE  /\ instructions'[i].status = "DRAFT"
                        <=> instructions'[i].publication = 0
                 /\ instructions'[i].publication # 0 =>
                        /\ instructions'[i].publication <= new
                        /\ publications'[instructions'[i].publication].instruction = i
                 /\ instructions'[i].fills > 0 =>
                        instructions'[i].publication # 0
        <3>1. CASE i = rq.instruction
            BY <1>1, <1>3, <1>5, <3>1
        <3>2. CASE i # rq.instruction
            <4>1. instructions'[i] = instructions[i]
                BY <1>5, <3>2
            <4>2. instructions[i].publication \in Nat
                BY <1>1 DEF Typing, TypeOK, Instruction
            <4>3. /\ instructions[i].status = "DRAFT"
                         <=> instructions[i].publication = 0
                  /\ instructions[i].publication # 0 =>
                         /\ instructions[i].publication \in 1..published
                         /\ publications[instructions[i].publication].instruction = i
                  /\ instructions[i].fills > 0 => instructions[i].publication # 0
                BY <4>2, <1>1 DEF Issuing, FillsFollowPublication
            <4> QED
                BY <1>1, <1>4, <4>1, <4>3
        <3> QED
            BY <3>1, <3>2
    <2> QED
        BY <1>2, <2>1 DEF FillsFollowPublication
<1>11. ASSUME NEW v \in Requests
       PROVE  BeganRightly(v)'
    <2>1. CASE v = w
        BY <1>7, <2>1 DEF BeganRightly, Moves, Idle, PublishJobs, InstructionJobs
    <2>2. CASE v # w
        <3>1. request'[v] = request[v] /\ BeganRightly(v)
            BY <1>7, <2>2 DEF Moves, Issuing
        <3>2. ASSUME request[v].job \in PublishJobs, request[v].instruction # 0
              PROVE  /\ request[v].before <= new
                     /\ \A m \in 1..request[v].before :
                            publications'[m].instruction # request[v].instruction
            <4>1. request[v].before \in Nat
                BY <1>1, <3>2, RequestKinds DEF PublishRequest, Typing
            <4> QED
                BY <1>1, <1>4, <3>1, <3>2, <4>1 DEF BeganRightly
        <3>3. ASSUME request[v].job \in InstructionJobs
              PROVE  instructions'[request[v].instruction].status # "DRAFT"
            <4>1. request[v].instruction \in Instructions
                BY <1>1, <3>3, RequestKinds DEF InstructionRequest, Typing
            <4> QED
                BY <1>5, <3>1, <3>3, <4>1 DEF BeganRightly
        <3> QED
            BY <1>2, <3>1, <3>2, <3>3 DEF BeganRightly
    <2> QED
        BY <2>1, <2>2
<1> QED
    BY <1>8, <1>9, <1>10, <1>11 DEF Issuing

LEMMA IssuingTransition ==
    ASSUME Issuing, Typing', NEW w \in Requests, CommitInstruction(w)
    PROVE  Issuing'
<1> DEFINE i == request[w].instruction
<1>1. Typing /\ UNCHANGED <<publications, published>>
    BY DEF Issuing, CommitInstruction, pubVars
<1>2. /\ request[w].job \in InstructionJobs /\ i \in Instructions
      /\ instructions'[i].publication = instructions[i].publication
      /\ \/ instructions'[i].status = instructions[i].status
         \/ instructions'[i].status \in {"ACKNOWLEDGED", "RECONCILED"}
      /\ \A j \in Instructions : j # i => instructions'[j] = instructions[j]
    BY <1>1, CommitInstructionRow
<1>3. instructions[i].status # "DRAFT" /\ instructions'[i].status # "DRAFT"
    BY <1>2 DEF Issuing, BeganRightly
<1>4. instructions[i].publication # 0
    BY <1>2, <1>3 DEF Issuing, FillsFollowPublication
<1>5. Moves(w, Idle)
    BY <1>1, EndMoves DEF CommitInstruction, Typing
<1> HIDE DEF i
<1>6. DraftsAreUnpublished' /\ IssuedTwiceOnlyOverlapping'
    BY <1>1, <1>2, <1>3
    DEF Issuing, DraftsAreUnpublished, IssuedTwiceOnlyOverlapping
<1>7. FillsFollowPublication'
    BY <1>1, <1>2, <1>3, <1>4 DEF Issuing, FillsFollowPublication
<1>8. ASSUME NEW v \in Requests
      PROVE  BeganRightly(v)'
    <2>1. CASE v = w
        BY <1>5, <2>1 DEF BeganRightly, Moves, Idle, PublishJobs, InstructionJobs
    <2>2. CASE v # w
        <3>1. request'[v] = request[v] /\ BeganRightly(v)
            BY <1>5, <2>2 DEF Moves, Issuing
        <3>2. request[v].job \in InstructionJobs =>
                  instructions'[request[v].instruction].status # "DRAFT"
            <4>1. request[v].job \in InstructionJobs =>
                      request[v].instruction \in Instructions
                BY <1>1, RequestKinds DEF InstructionRequest, Typing
            <4> QED
                BY <1>2, <1>3, <3>1, <4>1 DEF BeganRightly
        <3> QED
            BY <1>1, <3>1, <3>2 DEF BeganRightly
    <2> QED
        BY <2>1, <2>2
<1> QED
    BY <1>6, <1>7, <1>8 DEF Issuing

LEMMA IssuingStep == Issuing /\ [Next]_vars => Issuing'
<1> SUFFICES ASSUME Issuing, [Next]_vars
             PROVE  Issuing'
    OBVIOUS
<1>1. Typing /\ Typing'
    BY TypingStep DEF Issuing
<1>2. CASE Elsewhere
    <2>1. ASSUME NEW v \in Requests,
                 request'[v].job \notin PublishJobs \cup InstructionJobs
          PROVE  BeganRightly(v)'
        BY <2>1 DEF BeganRightly
    <2> QED
        BY <1>1, <1>2, <2>1, IssuingKept DEF Elsewhere
<1>3. ASSUME NEW w \in Requests, PublishStep(w)
      PROVE  Issuing'
    <2>1. CASE PassGate(w) \/ ReadPrices(w) \/ ReadCurrent(w)
        BY <1>1, <2>1, PassGateMoves, ReadPricesMoves, ReadCurrentMoves, IssuingRead
    <2> QED
        BY <1>1, <1>3, <2>1, IssuingBegin, IssuingCommit DEF PublishStep
<1>4. ASSUME NEW w \in Requests, NEW i \in Instructions,
             NEW job \in InstructionJobs, BeginInstruction(w, i, job)
      PROVE  Issuing'
    <2>1. /\ request'[w] = [job |-> job, instruction |-> i]
          /\ Moves(w, request'[w]) /\ Reads
          /\ instructions[i].status # "DRAFT"
        BY <1>1, <1>4, BeginInstructionMoves
    <2>2. request'[w].job \notin PublishJobs /\ request'[w].instruction = i
        BY <2>1 DEF PublishJobs, InstructionJobs
    <2>3. BeganRightly(w)'
        BY <2>1, <2>2 DEF BeganRightly, Reads
    <2> QED
        BY <1>1, <2>1, <2>3, IssuingKept DEF Moves, Reads
<1>5. ASSUME NEW w \in Requests, CommitInstruction(w)
      PROVE  Issuing'
    BY <1>1, <1>5, IssuingTransition
<1> QED
    BY <1>1, <1>2, <1>3, <1>4, <1>5, StepKinds DEF InstructionStep, InstructionJobs

LEMMA IssuingHolds == Spec => []Issuing
<1>1. ASSUME Init
      PROVE  Issuing
    <2>1. /\ DraftsAreUnpublished /\ IssuedTwiceOnlyOverlapping
          /\ FillsFollowPublication
        BY <1>1 DEF Init, DraftsAreUnpublished, IssuedTwiceOnlyOverlapping,
                    FillsFollowPublication
    <2>2. \A w \in Requests : BeganRightly(w)
        BY <1>1 DEF Init, BeganRightly, Idle, PublishJobs, InstructionJobs
    <2> QED
        BY <1>1, <2>1, <2>2, InitTypes DEF Issuing
<1>2. Init => Issuing
    BY <1>1
<1> QED
    BY <1>2, IssuingStep, PTL DEF Spec

(* An instruction is published twice only by requests that overlapped.     *)
THEOREM TwiceOnlyOverlapping == Spec => []IssuedTwiceOnlyOverlapping
<1>1. Issuing => IssuedTwiceOnlyOverlapping
    BY DEF Issuing
<1> QED
    BY <1>1, IssuingHolds, PTL

(* An instruction has left DRAFT exactly when it has a publication, made   *)
(* for it, and only then has fills - however its transitions overlap.      *)
THEOREM FillsHold == Spec => []FillsFollowPublication
<1>1. Issuing => FillsFollowPublication
    BY DEF Issuing
<1> QED
    BY <1>1, IssuingHolds, PTL

-----------------------------------------------------------------------------
(* What a publication was cleared of *)

(* Everything here is said of values - rows of workings, of issues, a set  *)
(* of reviews - so that it can be said of those before and after a step.   *)
Reviewed(seen, s, o, k) ==
    [order |-> o, code |-> k, fingerprint |-> Fingerprint[BookOf[s][o]]] \in seen

(* The workings of snapshot s are one run of the engine, whose issues are  *)
(* on record.                                                              *)
RunOf(work, found, s, r) ==
    \A o \in ActiveOrders(BookOf[s]) :
        /\ work[o] = [price |-> Quote[BookOf[s][o], r], ref |-> r]
        /\ \A k \in Raises[BookOf[s][o], r] : found[o][k] # "absent"

NoneOrRun(work, found, s) ==
    \/ \A o \in Orders : work[o] = None
    \/ \E r \in Refs : RunOf(work, found, s, r)

AreReviewed(found, seen, s) ==
    \A o \in Orders, k \in Codes :
        found[o][k] = "acknowledged" => Reviewed(seen, s, o, k)

Passes(found, s) ==
    \A o \in ActiveOrders(BookOf[s]), k \in Codes :
        found[o][k] # "absent" =>
            /\ Severity[k] # "BLOCK"
            /\ Reviewable(k) => found[o][k] = "acknowledged"

ClearedRun(p, seen) ==
    \E r \in Refs :
        /\ \A o \in ActiveOrders(BookOf[p.snap]) :
               \A k \in Raises[BookOf[p.snap][o], r] :
                   /\ Severity[k] # "BLOCK"
                   /\ Reviewable(k) => Reviewed(seen, p.snap, o, k)
        /\ p.prices = SpeciesPrices(QuotesOf(BookOf[p.snap], r))

(* A calculation that nothing overtook has loaded the row it will update,  *)
(* and knows every issue of its run.                                       *)
CalculatesARun(rq, work, done, seen) ==
    /\ rq.job \in {"compute", "calculate"} =>
           /\ rq.loaded <= done[rq.snap]
           /\ rq.loaded = done[rq.snap] =>
                  rq.first = work[rq.snap][FirstLine(rq.snap)]
    /\ rq.job = "calculate" =>
           /\ \A o \in ActiveOrders(BookOf[rq.snap]) :
                  \A k \in Raises[BookOf[rq.snap][o], rq.ref] :
                      rq.found[o][k] # "absent"
           /\ AreReviewed(rq.found, seen, rq.snap)

(* A snapshot not calculated since the gate would pass it again, and the   *)
(* prices read undisturbed are those of a cleared run.                     *)
PublishesARun(rq, found, done, seen) ==
    /\ rq.job = "price" =>
           /\ rq.gated <= done[rq.snap]
           /\ rq.gated = done[rq.snap] => Passes(found[rq.snap], rq.snap)
    /\ rq.job \in {"compare", "publish"} /\ rq.undisturbed => ClearedRun(rq, seen)

RequestsAreSound ==
    \A w \in Requests :
        /\ CalculatesARun(request[w], workings, calculated, reviews)
        /\ PublishesARun(request[w], issues, calculated, reviews)

WorkingsAreRuns ==
    \A s \in Snapshots :
        torn[s] = FALSE => NoneOrRun(workings[s], issues[s], s)

AcknowledgedAreReviewed ==
    /\ \A s \in Snapshots : AreReviewed(issues[s], reviews, s)
    /\ \A o \in Orders, k \in Codes :
           acks[o][k] # None =>
               [order |-> o, code |-> k, fingerprint |-> acks[o][k]] \in reviews

PublicationsAreCleared ==
    \A n \in 1..published :
        publications[n].undisturbed => ClearedRun(publications[n], reviews)

Clearing ==
    /\ Typing
    /\ WorkingsAreRuns
    /\ AcknowledgedAreReviewed
    /\ RequestsAreSound
    /\ PublicationsAreCleared

LEMMA ClearingKept ==
    ASSUME Clearing, Typing', UNCHANGED <<calcVars, reviewVars, pubVars>>,
           \A v \in Requests :
               \/ request'[v] = request[v]
               \/ /\ CalculatesARun(request'[v], workings', calculated', reviews')
                  /\ PublishesARun(request'[v], issues', calculated', reviews')
    PROVE  Clearing'
<1> USE DEF calcVars, reviewVars, pubVars
<1>1. WorkingsAreRuns' /\ AcknowledgedAreReviewed'
    BY DEF Clearing, WorkingsAreRuns, AcknowledgedAreReviewed
<1>2. PublicationsAreCleared'
    BY DEF Clearing, PublicationsAreCleared
<1>3. RequestsAreSound'
    BY DEF Clearing, RequestsAreSound
<1> QED
    BY <1>1, <1>2, <1>3 DEF Clearing

(* A request whose job is none of these has nothing to show. *)
LEMMA NothingToShow ==
    ASSUME NEW rq, NEW work, NEW found, NEW done, NEW seen,
           rq.job \notin {"compute", "calculate", "price", "compare", "publish"}
    PROVE  /\ CalculatesARun(rq, work, done, seen)
           /\ PublishesARun(rq, found, done, seen)
BY DEF CalculatesARun, PublishesARun

LEMMA ClearingLoad ==
    ASSUME Clearing, Typing', NEW w \in Requests, LoadFirstWorking(w)
    PROVE  Clearing'
<1> DEFINE rq == request[w]
           first == workings[rq.snap][FirstLine(rq.snap)]
           row == [rq EXCEPT !.job = "compute", !.first = first,
                             !.loaded = calculated[rq.snap]]
<1>1. rq \in CalculateRequest
    BY RequestKinds DEF LoadFirstWorking, Clearing, Typing
<1>2. calculated[rq.snap] \in Nat
    BY <1>1 DEF CalculateRequest, Clearing, Typing, TypeOK
<1>3. request' = [request EXCEPT ![w] = row] /\ Reads
    BY DEF LoadFirstWorking, Proceed, Reads
<1> HIDE DEF first, rq
<1>4. /\ row.job = "compute" /\ row.first = first /\ row.snap = rq.snap
      /\ row.loaded = calculated[rq.snap]
    BY <1>1 DEF CalculateRequest
<1> HIDE DEF row
<1>5. Moves(w, row)
    BY <1>3 DEF Moves, Clearing, Typing, TypeOK
<1>6. CalculatesARun(row, workings, calculated, reviews)
    BY <1>2, <1>4 DEF CalculatesARun, first
<1>7. PublishesARun(row, issues, calculated, reviews)
    BY <1>4 DEF PublishesARun
<1> QED
    BY <1>3, <1>5, <1>6, <1>7, ClearingKept
    DEF Moves, Reads, calcVars, reviewVars

LEMMA ClearingCompute ==
    ASSUME Clearing, Typing', NEW w \in Requests, ComputeLines(w)
    PROVE  Clearing'
<1> DEFINE rq == request[w]
<1>1. PICK outliers \in SUBSET MayBeOutlier(rq.snap, rq.ref) :
          request' = [request EXCEPT ![w] =
              [rq EXCEPT !.job = "calculate", !.found =
                  [o \in Orders |-> [k \in Codes |->
                      IF k \notin Found(rq.snap, rq.ref, o, outliers) THEN "absent"
                      ELSE IF CarriedForward(rq.snap, o, k) THEN "acknowledged"
                      ELSE "open"]]]]
    BY DEF ComputeLines, Proceed
<1> DEFINE found == [o \in Orders |-> [k \in Codes |->
                       IF k \notin Found(rq.snap, rq.ref, o, outliers)
                       THEN "absent"
                       ELSE IF CarriedForward(rq.snap, o, k) THEN "acknowledged"
                       ELSE "open"]]
           row == [rq EXCEPT !.job = "calculate", !.found = found]
<1>2. rq \in CalculateRequest /\ rq.job = "compute"
    BY RequestKinds DEF ComputeLines, Clearing, Typing
<1>3. rq.snap \in Snapshots /\ rq.ref \in Refs
    BY <1>2 DEF CalculateRequest
<1>4. Reads
    BY DEF ComputeLines, Reads
<1>5. ASSUME NEW o \in ActiveOrders(BookOf[rq.snap]),
             NEW k \in Raises[BookOf[rq.snap][o], rq.ref]
      PROVE  found[o][k] # "absent"
    <2>1. o \in Orders /\ BookOf[rq.snap][o] \in Contents
        BY <1>3, ActiveQuote
    <2>2. k \in Codes
        BY <1>3, <2>1, QuoteIsPrice
    <2>3. BookOf[rq.snap][o] # None
        BY <2>1, NoneAssumption
    <2>4. k \in Found(rq.snap, rq.ref, o, outliers)
        BY <2>3 DEF Found
    <2> QED
        BY <2>1, <2>2, <2>4
<1>6. ASSUME NEW o \in Orders, NEW k \in Codes, found[o][k] = "acknowledged"
      PROVE  Reviewed(reviews, rq.snap, o, k)
    <2>1. /\ CarriedForward(rq.snap, o, k)
          /\ k \in Found(rq.snap, rq.ref, o, outliers)
        BY <1>6
    <2>2. BookOf[rq.snap][o] # None
        BY <2>1 DEF Found
    <2>3. BookOf[rq.snap][o] \in Contents
        BY <1>3, <2>2, RacesAssumption, BookAssumption
    <2>4. acks[o][k] = Fingerprint[BookOf[rq.snap][o]]
        BY <2>1 DEF CarriedForward
    <2>5. acks[o][k] # None
        BY <2>3, <2>4, NoneAssumption DEF Fingerprints
    <2> QED
        BY <2>4, <2>5 DEF Clearing, AcknowledgedAreReviewed, Reviewed
<1>7. CalculatesARun(rq, workings, calculated, reviews)
    BY DEF Clearing, RequestsAreSound
<1>8. request' = [request EXCEPT ![w] = row]
    BY <1>1
<1> HIDE DEF found, rq
<1>9. /\ row.job = "calculate" /\ row.found = found /\ row.snap = rq.snap
      /\ row.first = rq.first /\ row.loaded = rq.loaded /\ row.ref = rq.ref
    BY <1>2 DEF CalculateRequest
<1> HIDE DEF row
<1>10. Moves(w, row)
    BY <1>8 DEF Moves, Clearing, Typing, TypeOK
<1>11. CalculatesARun(row, workings, calculated, reviews)
    BY <1>2, <1>5, <1>6, <1>7, <1>9 DEF CalculatesARun, AreReviewed
<1>12. PublishesARun(row, issues, calculated, reviews)
    BY <1>9 DEF PublishesARun
<1> QED
    BY <1>4, <1>10, <1>11, <1>12, ClearingKept
    DEF Moves, Reads, calcVars, reviewVars

(* A cleared run stays one as reviews accumulate, and wherever its         *)
(* snapshot and its prices are copied.                                     *)
LEMMA ClearedRunKept ==
    ASSUME NEW p, NEW q, NEW before, NEW after, ClearedRun(p, before),
           q.snap = p.snap, q.prices = p.prices, before \subseteq after
    PROVE  ClearedRun(q, after)
BY DEF ClearedRun, Reviewed

LEMMA ReviewedKept ==
    ASSUME NEW found, NEW before, NEW after, NEW s, AreReviewed(found, before, s),
           before \subseteq after
    PROVE  AreReviewed(found, after, s)
BY DEF AreReviewed, Reviewed

LEMMA ClearingGate ==
    ASSUME Clearing, Typing', NEW w \in Requests, PassGate(w)
    PROVE  Clearing'
<1>1. /\ PublishMoves(w, request'[w])
      /\ request'[w].job = "price"
      /\ request'[w].gated = calculated[request[w].snap]
    BY PassGateMoves DEF Clearing
<1>2. /\ request'[w].snap = request[w].snap /\ request[w].snap \in Snapshots
      /\ Moves(w, request'[w]) /\ Reads
    BY <1>1 DEF PublishMoves, PublishRequest
<1>3. calculated[request[w].snap] \in Nat
    BY <1>2 DEF Clearing, Typing, TypeOK
<1>4. Passes(issues[request[w].snap], request[w].snap)
    BY DEF PassGate, Publishable, Passes
<1>5. /\ PublishesARun(request'[w], issues, calculated, reviews)
      /\ CalculatesARun(request'[w], workings, calculated, reviews)
    BY <1>1, <1>2, <1>3, <1>4 DEF PublishesARun, CalculatesARun
<1> QED
    BY <1>2, <1>5, ClearingKept DEF Moves, Reads, calcVars, reviewVars

(* The prices of a run that passes the gate are those of a cleared run.    *)
LEMMA PassingRunIsCleared ==
    ASSUME Clearing, NEW s \in Snapshots, NEW r \in Refs,
           RunOf(workings[s], issues[s], s, r), Passes(issues[s], s)
    PROVE  /\ \A o \in ActiveOrders(BookOf[s]) : \A k \in Raises[BookOf[s][o], r] :
                  /\ Severity[k] # "BLOCK"
                  /\ Reviewable(k) => Reviewed(reviews, s, o, k)
           /\ SpeciesPrices(PricedLines(s)) = SpeciesPrices(QuotesOf(BookOf[s], r))
<1>1. ASSUME NEW o \in ActiveOrders(BookOf[s]), NEW k \in Raises[BookOf[s][o], r]
      PROVE  /\ Severity[k] # "BLOCK"
             /\ Reviewable(k) => Reviewed(reviews, s, o, k)
    <2>1. o \in Orders /\ BookOf[s][o] \in Contents
        BY ActiveQuote
    <2>2. k \in Codes
        BY <2>1, QuoteIsPrice
    <2>3. issues[s][o][k] # "absent"
        BY DEF RunOf
    <2> QED
        BY <2>1, <2>2, <2>3
        DEF Passes, Clearing, AcknowledgedAreReviewed, AreReviewed
<1>2. ASSUME NEW o \in Orders
      PROVE  PricedLines(s)[o] = QuotesOf(BookOf[s], r)[o]
    <2>1. CASE o \in ActiveOrders(BookOf[s])
        <3>1. /\ workings[s][o] = [price |-> Quote[BookOf[s][o], r], ref |-> r]
              /\ workings[s][o] \in WorkingRow
            BY <2>1, ActiveQuote DEF RunOf
        <3>2. workings[s][o] # None
            BY <3>1, RowAssumption DEF WorkingRow
        <3>3. PricedLines(s)[o] = workings[s][o].price
            BY <2>1, <3>2 DEF PricedLines
        <3>4. QuotesOf(BookOf[s], r)[o] = Quote[BookOf[s][o], r]
            BY <2>1 DEF QuotesOf
        <3>5. \A q : [price |-> q, ref |-> r].price = q
            OBVIOUS
        <3>6. workings[s][o].price = Quote[BookOf[s][o], r]
            BY <3>1, <3>5
        <3> QED
            BY <3>3, <3>4, <3>6
    <2>2. CASE o \notin ActiveOrders(BookOf[s])
        BY <2>2 DEF PricedLines, QuotesOf
    <2> QED
        BY <2>1, <2>2
<1>3. PricedLines(s) = QuotesOf(BookOf[s], r)
    BY <1>2 DEF PricedLines, QuotesOf
<1> QED
    BY <1>1, <1>3

LEMMA ClearingPrices ==
    ASSUME Clearing, Typing', NEW w \in Requests, ReadPrices(w)
    PROVE  Clearing'
<1> DEFINE s == request[w].snap
<1>1. /\ PublishMoves(w, request'[w])
      /\ request'[w].job = "compare"
      /\ request'[w].prices = SpeciesPrices(PricedLines(s))
      /\ request'[w].undisturbed =>
             request[w].gated = calculated[s] /\ torn[s] = FALSE
    BY ReadPricesMoves DEF Clearing
<1>2. /\ request'[w].snap = s /\ s \in Snapshots
      /\ Moves(w, request'[w]) /\ Reads
    BY <1>1 DEF PublishMoves, PublishRequest
<1>3. /\ request[w].job = "price"
      /\ SpeciesPrices(PricedLines(s)) # NothingPriced
    BY DEF ReadPrices
<1>4. ASSUME request'[w].undisturbed
      PROVE  ClearedRun(request'[w], reviews)
    <2>1. Passes(issues[s], s)
        BY <1>1, <1>3, <1>4 DEF Clearing, RequestsAreSound, PublishesARun
    <2>2. NoneOrRun(workings[s], issues[s], s)
        BY <1>1, <1>2, <1>4 DEF Clearing, WorkingsAreRuns
    <2>3. ~ \A o \in Orders : workings[s][o] = None
        <3>1. SUFFICES ASSUME \A o \in Orders : workings[s][o] = None
                       PROVE  FALSE
            OBVIOUS
        <3>2. \A o \in Orders : PricedLines(s)[o] = None
            BY <3>1 DEF PricedLines
        <3> QED
            BY <1>3, <3>2, NoPricesNothingPriced
    <2>4. PICK r \in Refs : RunOf(workings[s], issues[s], s, r)
        BY <2>2, <2>3 DEF NoneOrRun
    <2>5. /\ \A o \in ActiveOrders(BookOf[s]) : \A k \in Raises[BookOf[s][o], r] :
                 /\ Severity[k] # "BLOCK"
                 /\ Reviewable(k) => Reviewed(reviews, s, o, k)
          /\ SpeciesPrices(PricedLines(s)) = SpeciesPrices(QuotesOf(BookOf[s], r))
        BY <1>2, <2>1, <2>4, PassingRunIsCleared
    <2> QED
        BY <1>1, <1>2, <2>5 DEF ClearedRun
<1>5. /\ PublishesARun(request'[w], issues, calculated, reviews)
      /\ CalculatesARun(request'[w], workings, calculated, reviews)
    BY <1>1, <1>4 DEF PublishesARun, CalculatesARun
<1> QED
    BY <1>2, <1>5, ClearingKept DEF Moves, Reads, calcVars, reviewVars

LEMMA ClearingCompare ==
    ASSUME Clearing, Typing', NEW w \in Requests, ReadCurrent(w)
    PROVE  Clearing'
<1>1. /\ PublishMoves(w, request'[w])
      /\ request[w].job = "compare" /\ request'[w].job = "publish"
      /\ request'[w].prices = request[w].prices
      /\ request'[w].undisturbed = request[w].undisturbed
    BY ReadCurrentMoves DEF Clearing
<1>2. /\ request'[w].snap = request[w].snap
      /\ Moves(w, request'[w]) /\ Reads
    BY <1>1 DEF PublishMoves
<1>3. request'[w].undisturbed => ClearedRun(request[w], reviews)
    BY <1>1 DEF Clearing, RequestsAreSound, PublishesARun
<1>4. request'[w].undisturbed => ClearedRun(request'[w], reviews)
    BY <1>1, <1>2, <1>3, ClearedRunKept
<1>5. /\ PublishesARun(request'[w], issues, calculated, reviews)
      /\ CalculatesARun(request'[w], workings, calculated, reviews)
    BY <1>1, <1>4 DEF PublishesARun, CalculatesARun
<1> QED
    BY <1>2, <1>5, ClearingKept DEF Moves, Reads, calcVars, reviewVars

LEMMA ClearingPublish ==
    ASSUME Clearing, Typing', NEW w \in Requests, CommitPublish(w)
    PROVE  Clearing'
<1> DEFINE rq == request[w]
<1>1. Typing /\ published \in Nat
    BY DEF Clearing, Typing, TypeOK
<1>2. /\ rq.job = "publish" /\ published' = published + 1
      /\ publications'[published'] = NewRow(rq)
      /\ \A n \in 1..published :
             SameButSuperseded(publications'[n], publications[n])
    BY <1>1, CommitPublishRows
<1>3. UNCHANGED <<calcVars, reviewVars>> /\ Moves(w, Idle)
    BY <1>1, EndMoves DEF CommitPublish, Typing
<1>4. WorkingsAreRuns' /\ AcknowledgedAreReviewed'
    BY <1>3 DEF Clearing, WorkingsAreRuns, AcknowledgedAreReviewed,
                calcVars, reviewVars
<1>5. PublicationsAreCleared'
    <2>1. ASSUME NEW n \in 1..published', publications'[n].undisturbed
          PROVE  ClearedRun(publications'[n], reviews')
        <3>1. reviews' = reviews
            BY <1>3 DEF reviewVars
        <3>2. CASE n = published'
            <4>1. /\ publications'[n].snap = rq.snap
                  /\ publications'[n].prices = rq.prices
                  /\ publications'[n].undisturbed = rq.undisturbed
                BY <1>2, <3>2 DEF NewRow
            <4>2. ClearedRun(rq, reviews)
                BY <1>2, <2>1, <4>1 DEF Clearing, RequestsAreSound, PublishesARun
            <4> QED
                BY <3>1, <4>1, <4>2, ClearedRunKept
        <3>3. CASE n \in 1..published
            <4>1. /\ publications'[n].snap = publications[n].snap
                  /\ publications'[n].prices = publications[n].prices
                  /\ publications'[n].undisturbed = publications[n].undisturbed
                BY <1>2, <3>3 DEF SameButSuperseded
            <4>2. ClearedRun(publications[n], reviews)
                BY <2>1, <3>3, <4>1 DEF Clearing, PublicationsAreCleared
            <4> QED
                BY <3>1, <4>1, <4>2, ClearedRunKept
        <3> QED
            BY <1>1, <1>2, <3>2, <3>3
    <2> QED
        BY <2>1 DEF PublicationsAreCleared
<1>6. ASSUME NEW v \in Requests
      PROVE  /\ CalculatesARun(request'[v], workings', calculated', reviews')
             /\ PublishesARun(request'[v], issues', calculated', reviews')
    <2>1. CASE v = w
        <3>1. request'[v].job = "idle"
            BY <1>3, <2>1 DEF Moves, Idle
        <3> QED
            BY <3>1, NothingToShow
    <2>2. CASE v # w
        BY <1>3, <2>2
        DEF Moves, Clearing, RequestsAreSound, calcVars, reviewVars
    <2> QED
        BY <2>1, <2>2
<1> QED
    BY <1>4, <1>5, <1>6 DEF Clearing, RequestsAreSound

LEMMA ClearingAcknowledge ==
    ASSUME Clearing, Typing', NEW w \in Requests, CommitAcknowledge(w)
    PROVE  Clearing'
<1> DEFINE rq == request[w]
           s == rq.snap
           f == Fingerprint[BookOf[s][rq.order]]
           review == [order |-> rq.order, code |-> rq.code, fingerprint |-> f]
<1>1. Typing
    BY DEF Clearing
<1>2. rq \in AcknowledgeRequest
    BY <1>1, RequestKinds DEF CommitAcknowledge, Typing
<1>3. /\ s \in Snapshots /\ rq.order \in Orders /\ rq.code \in Codes
      /\ Severity[rq.code] # "BLOCK"
    BY <1>2 DEF AcknowledgeRequest, Acknowledgeable
<1>4. /\ issues' = [issues EXCEPT ![s][rq.order][rq.code] = "acknowledged"]
      /\ acks' = [acks EXCEPT ![rq.order][rq.code] = f]
      /\ reviews' = reviews \cup {review}
      /\ UNCHANGED <<workings, calculated, torn, publications, published>>
    BY DEF CommitAcknowledge, pubVars
<1>5. Moves(w, Idle)
    BY <1>1, EndMoves DEF CommitAcknowledge, Typing
<1>6. reviews \subseteq reviews' /\ review \in reviews'
    BY <1>4
<1>7. Reviewed(reviews', s, rq.order, rq.code)
    BY <1>6 DEF Reviewed
<1> HIDE DEF rq, f, review
<1>8. \A t \in Snapshots, o \in Orders, k \in Codes :
          issues'[t][o][k] =
              IF t = s /\ o = rq.order /\ k = rq.code THEN "acknowledged"
              ELSE issues[t][o][k]
    BY <1>1, <1>3, <1>4 DEF Typing, TypeOK, IssueRows
<1>9. \A o \in Orders, k \in Codes :
          acks'[o][k] = IF o = rq.order /\ k = rq.code THEN f ELSE acks[o][k]
    BY <1>1, <1>3, <1>4 DEF Typing, TypeOK
<1>10. WorkingsAreRuns'
    <2>1. ASSUME NEW t \in Snapshots, NoneOrRun(workings[t], issues[t], t)
          PROVE  NoneOrRun(workings[t], issues'[t], t)
        <3>1. ASSUME NEW r \in Refs, RunOf(workings[t], issues[t], t, r)
              PROVE  RunOf(workings[t], issues'[t], t, r)
            <4>1. ASSUME NEW o \in ActiveOrders(BookOf[t]),
                         NEW k \in Raises[BookOf[t][o], r]
                  PROVE  issues'[t][o][k] # "absent"
                <5>1. o \in Orders /\ BookOf[t][o] \in Contents
                    BY ActiveQuote
                <5>2. k \in Codes
                    BY <5>1, QuoteIsPrice
                <5>3. issues[t][o][k] # "absent"
                    BY <3>1 DEF RunOf
                <5> QED
                    BY <1>8, <5>1, <5>2, <5>3
            <4> QED
                BY <3>1, <4>1 DEF RunOf
        <3> QED
            BY <2>1, <3>1 DEF NoneOrRun
    <2> QED
        BY <1>4, <2>1 DEF WorkingsAreRuns, Clearing
<1>11. AcknowledgedAreReviewed'
    <2>1. ASSUME NEW t \in Snapshots
          PROVE  AreReviewed(issues'[t], reviews', t)
        <3>1. AreReviewed(issues[t], reviews', t)
            BY <1>6, ReviewedKept DEF Clearing, AcknowledgedAreReviewed
        <3> QED
            BY <1>7, <1>8, <3>1 DEF AreReviewed
    <2>2. ASSUME NEW o \in Orders, NEW k \in Codes, acks'[o][k] # None
          PROVE  [order |-> o, code |-> k, fingerprint |-> acks'[o][k]] \in reviews'
        <3>1. CASE o = rq.order /\ k = rq.code
            BY <1>6, <1>9, <3>1 DEF review
        <3>2. CASE ~(o = rq.order /\ k = rq.code)
            <4>1. acks'[o][k] = acks[o][k]
                BY <1>9, <3>2
            <4> QED
                BY <1>6, <2>2, <4>1 DEF Clearing, AcknowledgedAreReviewed
        <3> QED
            BY <3>1, <3>2
    <2> QED
        BY <2>1, <2>2 DEF AcknowledgedAreReviewed
<1>12. PublicationsAreCleared'
    <2>1. ASSUME NEW n \in 1..published, publications[n].undisturbed
          PROVE  ClearedRun(publications[n], reviews')
        BY <1>6, <2>1, ClearedRunKept DEF Clearing, PublicationsAreCleared
    <2> QED
        BY <1>4, <2>1 DEF PublicationsAreCleared
<1>13. ASSUME NEW v \in Requests, v # w
       PROVE  /\ CalculatesARun(request[v], workings, calculated, reviews')
              /\ PublishesARun(request[v], issues', calculated, reviews')
    <2>1. /\ CalculatesARun(request[v], workings, calculated, reviews)
          /\ PublishesARun(request[v], issues, calculated, reviews)
        BY DEF Clearing, RequestsAreSound
    <2>2. CalculatesARun(request[v], workings, calculated, reviews')
        BY <1>6, <2>1, ReviewedKept DEF CalculatesARun
    <2>3. request[v].undisturbed /\ request[v].job \in {"compare", "publish"}
              => ClearedRun(request[v], reviews')
        BY <1>6, <2>1, ClearedRunKept DEF PublishesARun
    <2>4. ASSUME request[v].job = "price", Passes(issues[request[v].snap], request[v].snap)
          PROVE  Passes(issues'[request[v].snap], request[v].snap)
        <3>1. request[v].snap \in Snapshots
            BY <1>1, <2>4, RequestKinds DEF Typing, PublishJobs, PublishRequest
        <3>2. \A o \in ActiveOrders(BookOf[request[v].snap]) : o \in Orders
            BY <3>1, ActiveQuote DEF ActiveOrders
        <3> QED
            BY <1>3, <1>8, <2>4, <3>1, <3>2 DEF Passes
    <2>5. PublishesARun(request[v], issues', calculated, reviews')
        BY <2>1, <2>3, <2>4 DEF PublishesARun
    <2> QED
        BY <2>2, <2>5
<1>14. RequestsAreSound'
    <2>1. request'[w].job = "idle"
        BY <1>5 DEF Moves, Idle
    <2>2. /\ CalculatesARun(request'[w], workings', calculated', reviews')
          /\ PublishesARun(request'[w], issues', calculated', reviews')
        BY <2>1, NothingToShow
    <2> QED
        BY <1>4, <1>5, <1>13, <2>2 DEF RequestsAreSound, Moves
<1> QED
    BY <1>10, <1>11, <1>12, <1>14 DEF Clearing

LEMMA ClearingCalculate ==
    ASSUME Clearing, Typing', NEW w \in Requests, CommitCalculate(w)
    PROVE  Clearing'
<1> DEFINE rq == request[w]
           s == rq.snap
<1>1. Typing
    BY DEF Clearing
<1>2. rq \in CalculateRequest /\ rq.job = "calculate"
    BY <1>1, RequestKinds DEF CommitCalculate, Typing
<1>3. s \in Snapshots /\ rq.ref \in Refs
    BY <1>2 DEF CalculateRequest
<1>4. /\ workings' = [workings EXCEPT ![s] = [o \in Orders |-> Written(rq, o)]]
      /\ issues' = [issues EXCEPT ![s] = rq.found]
      /\ calculated' = [calculated EXCEPT ![s] = @ + 1]
      /\ torn' = [torn EXCEPT ![s] = rq.loaded # calculated[s]]
    BY CommitCalculateWrites
<1>5. UNCHANGED <<acks, reviews, publications, published>> /\ Moves(w, Idle)
    BY <1>1, EndMoves DEF CommitCalculate, Typing, reviewVars, pubVars
<1>6. CalculatesARun(rq, workings, calculated, reviews)
    BY DEF Clearing, RequestsAreSound
<1>7. ASSUME NEW t \in Snapshots
      PROVE  /\ calculated[t] \in Nat
             /\ t = s => calculated'[t] = calculated[t] + 1
             /\ t # s => calculated'[t] = calculated[t]
    BY <1>1, <1>3, <1>4 DEF Typing, TypeOK
<1> HIDE DEF rq
<1>8. ASSUME NEW t \in Snapshots, t # s
      PROVE  /\ workings'[t] = workings[t] /\ issues'[t] = issues[t]
             /\ torn'[t] = torn[t]
    BY <1>1, <1>4, <1>8 DEF Typing, TypeOK
<1>9. issues'[s] = rq.found
    BY <1>1, <1>3, <1>4 DEF Typing, TypeOK
<1>10. torn'[s] = FALSE => rq.loaded = calculated[s]
    BY <1>1, <1>3, <1>4 DEF Typing, TypeOK
<1>11. ASSUME torn'[s] = FALSE
       PROVE  RunOf(workings'[s], issues'[s], s, rq.ref)
    <2>1. rq.first = workings[s][FirstLine(s)]
        BY <1>2, <1>6, <1>10, <1>11 DEF CalculatesARun
    <2>2. ASSUME NEW o \in ActiveOrders(BookOf[s])
          PROVE  workings'[s][o] =
                     [price |-> Quote[BookOf[s][o], rq.ref], ref |-> rq.ref]
        <3> DEFINE new == [price |-> Quote[BookOf[s][o], rq.ref], ref |-> rq.ref]
        <3>1. o \in Orders
            BY <1>3, ActiveQuote
        <3>2. workings'[s][o] = Written(rq, o)
            BY <1>1, <1>3, <1>4, <3>1 DEF Typing, TypeOK
        <3>3. Written(rq, o) =
                  IF o = FirstLine(s) THEN Merged(new, rq.first, workings[s][o])
                  ELSE new
            BY DEF Written
        <3>4. \A row : Merged(new, row, row) = new
            BY DEF Merged
        <3> HIDE DEF new
        <3>5. Written(rq, o) = new
            BY <2>1, <3>3, <3>4
        <3> QED
            BY <3>2, <3>5 DEF new
    <2>3. \A o \in ActiveOrders(BookOf[s]) :
              \A k \in Raises[BookOf[s][o], rq.ref] : rq.found[o][k] # "absent"
        BY <1>2, <1>6 DEF CalculatesARun
    <2> QED
        BY <1>9, <2>2, <2>3 DEF RunOf
<1>12. WorkingsAreRuns'
    <2>1. ASSUME NEW t \in Snapshots, torn'[t] = FALSE
          PROVE  NoneOrRun(workings'[t], issues'[t], t)
        <3>1. CASE t = s
            BY <1>3, <1>11, <2>1, <3>1 DEF NoneOrRun
        <3>2. CASE t # s
            BY <1>8, <2>1, <3>2 DEF Clearing, WorkingsAreRuns
        <3> QED
            BY <3>1, <3>2
    <2> QED
        BY <2>1 DEF WorkingsAreRuns
<1>13. AcknowledgedAreReviewed'
    <2>1. ASSUME NEW t \in Snapshots
          PROVE  AreReviewed(issues'[t], reviews', t)
        <3>1. CASE t = s
            BY <1>2, <1>5, <1>6, <1>9, <3>1 DEF CalculatesARun
        <3>2. CASE t # s
            BY <1>5, <1>8, <3>2 DEF Clearing, AcknowledgedAreReviewed
        <3> QED
            BY <3>1, <3>2
    <2> QED
        BY <1>5, <2>1 DEF Clearing, AcknowledgedAreReviewed
<1>14. PublicationsAreCleared'
    BY <1>5 DEF Clearing, PublicationsAreCleared
<1>15. ASSUME NEW v \in Requests, v # w
       PROVE  /\ CalculatesARun(request[v], workings', calculated', reviews)
              /\ PublishesARun(request[v], issues', calculated', reviews)
    <2> DEFINE rv == request[v]
    <2>1. /\ CalculatesARun(rv, workings, calculated, reviews)
          /\ PublishesARun(rv, issues, calculated, reviews)
        BY DEF Clearing, RequestsAreSound
    <2>2. /\ rv.job \in {"compute", "calculate"} =>
                 rv.snap \in Snapshots /\ rv.loaded \in Nat
          /\ rv.job = "price" => rv.snap \in Snapshots /\ rv.gated \in Nat
        BY <1>1, RequestKinds
        DEF Typing, PublishJobs, PublishRequest, CalculateRequest
    <2> HIDE DEF rv
    <2>3. ASSUME rv.job \in {"compute", "calculate"}
          PROVE  /\ rv.loaded <= calculated'[rv.snap]
                 /\ rv.loaded = calculated'[rv.snap] =>
                        rv.first = workings'[rv.snap][FirstLine(rv.snap)]
        <3>1. /\ rv.loaded <= calculated[rv.snap]
              /\ rv.loaded = calculated[rv.snap] =>
                     rv.first = workings[rv.snap][FirstLine(rv.snap)]
            BY <2>1, <2>3 DEF CalculatesARun
        <3>2. CASE rv.snap = s
            BY <1>7, <2>2, <2>3, <3>1, <3>2
        <3>3. CASE rv.snap # s
            BY <1>7, <1>8, <2>2, <2>3, <3>1, <3>3
        <3> QED
            BY <3>2, <3>3
    <2>4. ASSUME rv.job = "price"
          PROVE  /\ rv.gated <= calculated'[rv.snap]
                 /\ rv.gated = calculated'[rv.snap] =>
                        Passes(issues'[rv.snap], rv.snap)
        <3>1. /\ rv.gated <= calculated[rv.snap]
              /\ rv.gated = calculated[rv.snap] =>
                     Passes(issues[rv.snap], rv.snap)
            BY <2>1, <2>4 DEF PublishesARun
        <3>2. CASE rv.snap = s
            BY <1>7, <2>2, <2>4, <3>1, <3>2
        <3>3. CASE rv.snap # s
            BY <1>7, <1>8, <2>2, <2>4, <3>1, <3>3
        <3> QED
            BY <3>2, <3>3
    <2>5. CalculatesARun(rv, workings', calculated', reviews)
        BY <2>1, <2>3 DEF CalculatesARun
    <2>6. PublishesARun(rv, issues', calculated', reviews)
        BY <2>1, <2>4 DEF PublishesARun
    <2> QED
        BY <2>5, <2>6 DEF rv
<1>16. RequestsAreSound'
    <2>1. request'[w].job = "idle"
        BY <1>5 DEF Moves, Idle
    <2>2. /\ CalculatesARun(request'[w], workings', calculated', reviews')
          /\ PublishesARun(request'[w], issues', calculated', reviews')
        BY <2>1, NothingToShow
    <2> QED
        BY <1>5, <1>15, <2>2 DEF RequestsAreSound, Moves
<1> QED
    BY <1>12, <1>13, <1>14, <1>16 DEF Clearing

(* Any other step leaves the books as they are and starts nothing that has *)
(* something to show.                                                      *)
LEMMA ClearingMoves ==
    ASSUME Clearing, Typing', NEW w \in Requests, NEW row, Moves(w, row),
           UNCHANGED <<calcVars, reviewVars, pubVars>>,
           row.job \in {"idle", "load", "acknowledge", "gate"} \cup InstructionJobs
    PROVE  Clearing'
<1>1. row.job \notin {"compute", "calculate", "price", "compare", "publish"}
    BY DEF InstructionJobs
<1> QED
    BY <1>1, ClearingKept, NothingToShow DEF Moves

LEMMA ClearingBegins ==
    ASSUME Clearing, Typing', NEW w \in Requests, NEW row, Begin(w, row), Reads,
           row.job \in {"load", "acknowledge"}
    PROVE  Clearing'
<1>1. Moves(w, row)
    BY DEF Begin, Moves, Clearing, Typing, TypeOK
<1> QED
    BY <1>1, ClearingMoves DEF Reads

LEMMA ClearingStep == Clearing /\ [Next]_vars => Clearing'
<1> SUFFICES ASSUME Clearing, [Next]_vars
             PROVE  Clearing'
    OBVIOUS
<1>1. Typing /\ Typing'
    BY TypingStep DEF Clearing
<1>2. ASSUME NEW w \in Requests, CalculateStep(w)
      PROVE  Clearing'
    <2>1. ASSUME NEW s \in Snapshots, BeginCalculate(w, s)
          PROVE  Clearing'
        <3> DEFINE row == [job |-> "load", snap |-> s, ref |-> active,
                           first |-> None, loaded |-> 0, found |-> NoIssues]
        <3>1. Begin(w, row) /\ Reads
            BY <2>1 DEF BeginCalculate, Reads
        <3>2. row.job = "load"
            OBVIOUS
        <3> HIDE DEF row
        <3> QED
            BY <1>1, <3>1, <3>2, ClearingBegins
    <2> QED
        BY <1>1, <1>2, <2>1, ClearingLoad, ClearingCompute, ClearingCalculate
        DEF CalculateStep
<1>3. ASSUME NEW w \in Requests, AcknowledgeStep(w)
      PROVE  Clearing'
    <2>1. ASSUME NEW s \in Snapshots, NEW o \in Orders, NEW k \in Codes,
                 BeginAcknowledge(w, s, o, k)
          PROVE  Clearing'
        <3> DEFINE row == [job |-> "acknowledge", snap |-> s, order |-> o,
                           code |-> k, row |-> calculated[s]]
        <3>1. Begin(w, row) /\ Reads
            BY <2>1 DEF BeginAcknowledge, Reads
        <3>2. row.job = "acknowledge"
            OBVIOUS
        <3> HIDE DEF row
        <3> QED
            BY <1>1, <3>1, <3>2, ClearingBegins
    <2> QED
        BY <1>1, <1>3, <2>1, ClearingAcknowledge DEF AcknowledgeStep
<1>4. ASSUME NEW w \in Requests, PublishStep(w)
      PROVE  Clearing'
    <2>1. ASSUME NEW s \in Snapshots, NEW i \in Instructions \cup {0},
                 BeginPublish(w, s, i)
          PROVE  Clearing'
        <3>1. request'[w].job = "gate" /\ Moves(w, request'[w]) /\ Reads
            BY <1>1, <2>1, BeginPublishMoves
        <3>2. \A v \in Requests :
                  \/ request'[v] = request[v]
                  \/ /\ CalculatesARun(request'[v], workings', calculated', reviews')
                     /\ PublishesARun(request'[v], issues', calculated', reviews')
            BY <3>1, NothingToShow DEF Moves
        <3> QED
            BY <1>1, <3>1, <3>2, ClearingKept DEF Reads
    <2> QED
        BY <1>1, <1>4, <2>1, ClearingGate, ClearingPrices, ClearingCompare,
           ClearingPublish DEF PublishStep
<1>5. ASSUME NEW w \in Requests, NEW i \in Instructions,
             NEW job \in InstructionJobs, BeginInstruction(w, i, job)
      PROVE  Clearing'
    <2> DEFINE row == [job |-> job, instruction |-> i]
    <2>1. request'[w] = row /\ Moves(w, request'[w]) /\ Reads
        BY <1>1, <1>5, BeginInstructionMoves
    <2>2. row.job \in InstructionJobs
        OBVIOUS
    <2> HIDE DEF row
    <2>3. Moves(w, row)
        BY <2>1 DEF Moves
    <2> QED
        BY <1>1, <2>1, <2>2, <2>3, ClearingMoves DEF Reads
<1>6. ASSUME NEW w \in Requests, CommitInstruction(w) \/ Abort(w)
      PROVE  Clearing'
    <2>1. Moves(w, Idle) /\ UNCHANGED <<calcVars, reviewVars, pubVars>>
        BY <1>1, <1>6, EndMoves, AbortTypes DEF CommitInstruction, Typing, Reads
    <2>2. Idle.job = "idle"
        BY DEF Idle
    <2> QED
        BY <1>1, <2>1, <2>2, ClearingMoves
<1>7. CASE (\E r \in Refs : ActivateRef(r)) \/ UNCHANGED vars
    BY <1>1, <1>7, ClearingKept DEF ActivateRef, vars
<1> QED
    BY <1>2, <1>3, <1>4, <1>5, <1>6, <1>7
    DEF Next, InstructionStep, InstructionJobs

(* A publication whose snapshot was not recalculated between the gate and  *)
(* the prices, of workings no two calculations overlapped to write, is one *)
(* run of the engine that nothing blocks and whose concerns were reviewed. *)
(* The invariant behind it follows each request from what it loaded: a     *)
(* calculation that nothing overtook will write a whole run, and a publish *)
(* nothing overtook would pass its gate again.                             *)
THEOREM UndisturbedAreCleared == Spec => []UndisturbedPublicationsAreCleared
<1>1. ASSUME Init
      PROVE  Clearing
    <2>1. WorkingsAreRuns /\ AcknowledgedAreReviewed /\ PublicationsAreCleared
        BY <1>1 DEF Init, WorkingsAreRuns, NoneOrRun, AcknowledgedAreReviewed,
                    AreReviewed, NoIssues, PublicationsAreCleared
    <2>2. \A w \in Requests : request[w].job = "idle"
        BY <1>1 DEF Init, Idle
    <2>3. RequestsAreSound
        BY <2>2, NothingToShow DEF RequestsAreSound
    <2> QED
        BY <1>1, <2>1, <2>3, InitTypes DEF Clearing
<1>2. Init => Clearing
    BY <1>1
<1>3. Clearing => UndisturbedPublicationsAreCleared
    BY DEF Clearing, PublicationsAreCleared, ClearedRun, Reviewed,
           UndisturbedPublicationsAreCleared, IsClearedRun, Cleared
<1> QED
    BY <1>2, <1>3, ClearingStep, PTL DEF Spec

-----------------------------------------------------------------------------
(* What the buyer has heard of a chain *)

PricesAt(rows, n) == IF n = 0 THEN NothingPriced ELSE rows[n].prices

Chain(rows, n) == \A m \in 1..n : rows[m].follows = m - 1

(* The last alert of the first n publications shows the prices of the nth. *)
HeardUpTo(rows, n) ==
    \/ /\ \A m \in 1..n : rows[m].notified = FALSE
       /\ PricesAt(rows, n) = NothingPriced
    \/ \E a \in 1..n :
        /\ rows[a].notified = TRUE
        /\ \A m \in 1..n : rows[m].notified = TRUE => m <= a
        /\ rows[a].prices = PricesAt(rows, n)

(* Publications alert when they differ from the one they replaced, and so  *)
(* will those that are about to commit.                                    *)
AlertsAreTrue ==
    /\ \A n \in 1..published :
           publications[n].notified =
               (PricesAt(publications, publications[n].follows)
                    # publications[n].prices)
    /\ \A w \in Requests :
           request[w].job = "publish" =>
               request[w].notified =
                   (PricesAt(publications, request[w].follows) # request[w].prices)

Hearing ==
    /\ Replacing
    /\ AlertsAreTrue
    /\ Chain(publications, published) => HeardUpTo(publications, published)

LEMMA HearingKept ==
    ASSUME Hearing, Replacing', UNCHANGED pubVars,
           \A v \in Requests : \/ request'[v] = request[v]
                               \/ request'[v].job # "publish"
    PROVE  Hearing'
<1>1. publications' = publications /\ published' = published
    BY DEF pubVars
<1>2. AlertsAreTrue'
    BY <1>1 DEF Hearing, AlertsAreTrue
<1> QED
    BY <1>1, <1>2 DEF Hearing

LEMMA HearingRead ==
    ASSUME Hearing, Replacing', NEW w \in Requests, ReadCurrent(w)
    PROVE  Hearing'
<1>1. /\ PublishMoves(w, request'[w])
      /\ request'[w].follows = Current
      /\ request'[w].notified =
             PricesChanged(PricesOf(Current), request[w].prices)
      /\ request'[w].prices = request[w].prices
    BY ReadCurrentMoves DEF Hearing, Replacing
<1>2. /\ Moves(w, request'[w])
      /\ publications' = publications /\ published' = published
    BY <1>1 DEF PublishMoves, Reads, pubVars
<1>3. request'[w].notified =
          (PricesAt(publications, request'[w].follows) # request'[w].prices)
    BY <1>1 DEF PricesOf, PricesAt, PricesChanged
<1>4. AlertsAreTrue'
    BY <1>2, <1>3 DEF Hearing, AlertsAreTrue, Moves
<1> QED
    BY <1>2, <1>4 DEF Hearing

LEMMA HearingCommit ==
    ASSUME Hearing, Replacing', NEW w \in Requests, CommitPublish(w)
    PROVE  Hearing'
<1> DEFINE rq == request[w]
           new == published + 1
           rows == publications'
<1>1. Typing /\ published \in Nat
    BY DEF Hearing, Replacing, Typing, TypeOK
<1>2. /\ rq \in PublishRequest /\ rq.job = "publish"
      /\ published' = new /\ rows[published'] = NewRow(rq)
    BY <1>1, CommitPublishRows
<1>3. /\ rows[new].prices = rq.prices /\ rows[new].notified = rq.notified
      /\ rows[new].follows = rq.follows
      /\ rq.follows \in 0..published
    BY <1>1, <1>2
    DEF NewRow, Hearing, Replacing, ReadWasLive, PublishRequest
<1>4. ASSUME NEW n \in 1..published
      PROVE  /\ rows[n].prices = publications[n].prices
             /\ rows[n].notified = publications[n].notified
             /\ rows[n].follows = publications[n].follows
             /\ publications[n].follows \in 0..published
    <2>1. /\ publications[n] \in Publication
          /\ publications[n].follows < n
        BY <1>1 DEF Typing, RowsExist, Hearing, Replacing, ReplacedAreSuperseded
    <2>2. publications[n].follows \in Nat
        BY <2>1 DEF Publication
    <2>3. publications[n].follows \in 0..published
        BY <1>1, <2>1, <2>2
    <2> QED
        BY <1>1, <2>3, CommitPublishRows DEF SameButSuperseded
<1>5. \A n \in 0..published : PricesAt(rows, n) = PricesAt(publications, n)
    BY <1>1, <1>4 DEF PricesAt
<1>6. \A n \in 1..new : n \in 1..published \/ n = new
    BY <1>1
<1>7. Moves(w, Idle)
    BY <1>1, EndMoves DEF CommitPublish, Typing
<1>8. /\ rq.notified = (PricesAt(publications, rq.follows) # rq.prices)
      /\ rq.notified \in BOOLEAN
    BY <1>2 DEF Hearing, AlertsAreTrue, PublishRequest
<1> HIDE DEF rq, rows
<1>9. AlertsAreTrue'
    <2>1. ASSUME NEW n \in 1..new
          PROVE  rows[n].notified = (PricesAt(rows, rows[n].follows) # rows[n].prices)
        <3>1. CASE n = new
            BY <1>3, <1>5, <1>8, <3>1
        <3>2. CASE n \in 1..published
            BY <1>4, <1>5, <3>2 DEF Hearing, AlertsAreTrue
        <3> QED
            BY <1>6, <3>1, <3>2
    <2>2. ASSUME NEW v \in Requests, request'[v].job = "publish"
          PROVE  request'[v].notified =
                     (PricesAt(rows, request'[v].follows) # request'[v].prices)
        <3>1. v # w
            BY <1>7, <2>2 DEF Moves, Idle
        <3>2. request'[v] = request[v]
            BY <1>7, <3>1 DEF Moves
        <3>3. request[v] \in PublishRequest /\ ReadWasLive(v)
            BY <1>1, <2>2, <3>2, RequestKinds
            DEF Typing, PublishJobs, Hearing, Replacing
        <3>4. request[v].follows \in 0..published
            BY <1>1, <2>2, <3>2, <3>3 DEF ReadWasLive, PublishRequest
        <3> QED
            BY <1>5, <2>2, <3>2, <3>4 DEF Hearing, AlertsAreTrue
    <2> QED
        BY <1>2, <2>1, <2>2 DEF AlertsAreTrue, rows
<1>10. ASSUME Chain(rows, new)
       PROVE  HeardUpTo(rows, new)
    <2>1. Chain(publications, published)
        BY <1>1, <1>4, <1>10 DEF Chain
    <2>2. HeardUpTo(publications, published)
        BY <2>1 DEF Hearing
    <2>3. rq.follows = published
        BY <1>1, <1>3, <1>10 DEF Chain
    <2>4. PricesAt(rows, new) = rq.prices
        BY <1>1, <1>3 DEF PricesAt
    <2>5. CASE rq.notified = TRUE
        BY <1>1, <1>3, <1>6, <2>4, <2>5 DEF HeardUpTo
    <2>6. CASE rq.notified = FALSE
        <3>1. PricesAt(rows, new) = PricesAt(publications, published)
            BY <1>8, <2>3, <2>4, <2>6
        <3>2. CASE /\ \A m \in 1..published : publications[m].notified = FALSE
                   /\ PricesAt(publications, published) = NothingPriced
            BY <1>3, <1>4, <1>6, <2>6, <3>1, <3>2 DEF HeardUpTo
        <3>3. ASSUME NEW a \in 1..published, publications[a].notified = TRUE,
                     \A m \in 1..published :
                         publications[m].notified = TRUE => m <= a,
                     publications[a].prices = PricesAt(publications, published)
              PROVE  HeardUpTo(rows, new)
            <4>1. a \in 1..new /\ rows[a].notified = TRUE
                  /\ rows[a].prices = PricesAt(rows, new)
                BY <1>1, <1>4, <3>1, <3>3
            <4>2. \A m \in 1..new : rows[m].notified = TRUE => m <= a
                BY <1>3, <1>4, <1>6, <2>6, <3>3
            <4> QED
                BY <4>1, <4>2 DEF HeardUpTo
        <3> QED
            BY <2>2, <3>2, <3>3 DEF HeardUpTo
    <2> QED
        BY <1>8, <2>5, <2>6
<1> QED
    BY <1>2, <1>9, <1>10 DEF Hearing, rows

LEMMA HearingStep == Hearing /\ [Next]_vars => Hearing'
<1> SUFFICES ASSUME Hearing, [Next]_vars
             PROVE  Hearing'
    OBVIOUS
<1>1. Typing /\ Replacing'
    BY ReplacingStep DEF Hearing, Replacing
<1>2. CASE Elsewhere
    BY <1>1, <1>2, HearingKept DEF Elsewhere, PublishJobs
<1>3. ASSUME NEW w \in Requests, NEW s \in Snapshots,
             NEW i \in Instructions \cup {0}, BeginPublish(w, s, i)
      PROVE  Hearing'
    <2>1. request'[w].job = "gate" /\ Moves(w, request'[w]) /\ Reads
        BY <1>1, <1>3, BeginPublishMoves
    <2> QED
        BY <1>1, <2>1, HearingKept DEF Moves, Reads
<1>4. ASSUME NEW w \in Requests, PassGate(w) \/ ReadPrices(w)
      PROVE  Hearing'
    <2>1. /\ PublishMoves(w, request'[w])
          /\ request'[w].job \in {"price", "compare"}
        BY <1>1, <1>4, PassGateMoves, ReadPricesMoves
    <2> QED
        BY <1>1, <2>1, HearingKept DEF PublishMoves, Moves, Reads
<1>5. ASSUME NEW w \in Requests, ReadCurrent(w) \/ CommitPublish(w)
      PROVE  Hearing'
    BY <1>1, <1>5, HearingRead, HearingCommit
<1>6. ASSUME NEW w \in Requests, NEW i \in Instructions,
             NEW job \in InstructionJobs, BeginInstruction(w, i, job)
      PROVE  Hearing'
    <2>1. /\ request'[w] = [job |-> job, instruction |-> i]
          /\ Moves(w, request'[w]) /\ Reads
        BY <1>1, <1>6, BeginInstructionMoves
    <2>2. request'[w].job # "publish"
        BY <2>1 DEF InstructionJobs
    <2> QED
        BY <1>1, <2>1, <2>2, HearingKept DEF Moves, Reads
<1>7. ASSUME NEW w \in Requests, CommitInstruction(w)
      PROVE  Hearing'
    <2>1. Moves(w, Idle) /\ UNCHANGED pubVars
        BY <1>1, <1>7, EndMoves DEF CommitInstruction, Typing
    <2>2. \A v \in Requests : request'[v] = request[v] \/ request'[v].job # "publish"
        BY <2>1 DEF Moves, Idle
    <2> QED
        BY <1>1, <2>1, <2>2, HearingKept
<1> QED
    BY <1>1, <1>2, <1>3, <1>4, <1>5, <1>6, <1>7, StepKinds
    DEF PublishStep, InstructionStep, InstructionJobs

(* In a chain the last publication is the only live one. *)
LEMMA ChainEnds ==
    ASSUME Replacing, Chain(publications, published)
    PROVE  Current = published
<1>1. published \in Nat
    BY DEF Replacing, Typing, TypeOK
<1>2. CASE published = 0
    BY <1>2 DEF Current, Unsuperseded
<1>3. CASE published # 0
    <2>1. ASSUME NEW n \in 1..published, n # published
          PROVE  publications[n].supersededBy # 0
        <3>1. n + 1 \in 1..published
            BY <1>1, <2>1
        <3>2. publications[n + 1].follows = n
            BY <3>1 DEF Chain
        <3> QED
            BY <3>1, <3>2 DEF Replacing, ReplacedAreSuperseded
    <2>2. Unsuperseded = {published}
        BY <1>1, <1>3, <2>1 DEF Unsuperseded, Replacing, ReplacedAreSuperseded
    <2> QED
        BY <2>2, CurrentIsUnsuperseded DEF Replacing, Typing
<1> QED
    BY <1>2, <1>3

LEMMA HearingIsHeard == Hearing => ChainIsHeard
<1> SUFFICES ASSUME Hearing, Chain(publications, published)
             PROVE  PricesOf(Current) =
                        IF Alerts = {} THEN NothingPriced
                        ELSE publications[LastAlert].prices
    BY DEF ChainIsHeard, Chain
<1>1. published \in Nat
    BY DEF Hearing, Replacing, Typing, TypeOK
<1>2. PricesOf(Current) = PricesAt(publications, published)
    BY ChainEnds DEF Hearing, PricesOf, PricesAt
<1>3. \A n \in 1..published : publications[n].notified \in BOOLEAN
    BY DEF Hearing, Replacing, Typing, RowsExist, Publication
<1>4. CASE /\ \A m \in 1..published : publications[m].notified = FALSE
           /\ PricesAt(publications, published) = NothingPriced
    BY <1>2, <1>4 DEF Alerts
<1>5. ASSUME NEW a \in 1..published, publications[a].notified = TRUE,
             \A m \in 1..published : publications[m].notified = TRUE => m <= a,
             publications[a].prices = PricesAt(publications, published)
      PROVE  /\ Alerts # {}
             /\ publications[LastAlert].prices = PricesAt(publications, published)
    <2>1. a \in Alerts /\ \A m \in Alerts : m \in 1..published /\ m <= a
        BY <1>3, <1>5 DEF Alerts
    <2>2. \A n \in Alerts : (\A m \in Alerts : m <= n) <=> n = a
        BY <1>1, <2>1
    <2>3. LastAlert = a
        BY <2>1, <2>2 DEF LastAlert
    <2> QED
        BY <1>5, <2>1, <2>3
<1> QED
    BY <1>2, <1>4, <1>5 DEF Hearing, HeardUpTo

(* As long as publications form a chain, the last alert shows the live     *)
(* prices, however requests interleaved up to reading the live one.        *)
THEOREM ChainsAreHeard == Spec => []ChainIsHeard
<1>1. ASSUME Init
      PROVE  Hearing
    <2>1. published = 0 /\ \A w \in Requests : request[w].job = "idle"
        BY <1>1 DEF Init, Idle
    <2>2. ReplacedAreSuperseded /\ OnlyOverlapForks
        BY <2>1 DEF ReplacedAreSuperseded, OnlyOverlapForks
    <2>3. \A w \in Requests : ReadWasLive(w)
        BY <2>1 DEF ReadWasLive
    <2>4. AlertsAreTrue /\ HeardUpTo(publications, published)
        BY <2>1 DEF AlertsAreTrue, HeardUpTo, PricesAt
    <2> QED
        BY <1>1, <2>2, <2>3, <2>4, InitTypes DEF Hearing, Replacing
<1>2. Init => Hearing
    BY <1>1
<1> QED
    BY <1>2, HearingStep, HearingIsHeard, PTL DEF Spec

=============================================================================
