------------------------------ MODULE DeskRaces ------------------------------
(***************************************************************************)
(* The desk's longer requests taken apart into their database statements.  *)
(* Every request is one transaction at READ COMMITTED: each statement sees *)
(* what is committed when it runs, and what a request writes is seen by    *)
(* nobody until it commits.  No statement locks what it reads, so requests *)
(* overlap between any two statements.                                     *)
(*                                                                         *)
(* An ORM session adds two things of its own: a row loaded once is not     *)
(* read again, and an UPDATE names only the columns that differ from what  *)
(* was loaded.                                                             *)
(*                                                                         *)
(* The snapshots are there from the start, and the instructions are        *)
(* drafted and approved.  snapshot.status is left out: no statement of     *)
(* these requests decides anything by it that reaches a price.             *)
(***************************************************************************)
EXTENDS OrderBook

CONSTANTS
    Requests,          \* the requests the server can have in flight
    Snapshots,         \* submissions committed before
    BookOf,            \* the workbook of each
    LineNo,            \* the order the lines are read in
    Instructions,      \* approved instructions
    InstructionFor,    \* the snapshot each was drafted from
    InitialRef,        \* the version active at the start
    MaxBegun,          \* bound: transactions begun
    MaxPublications,   \* bound: publications committed
    MaxFills           \* bound: fills of an instruction

ASSUME RacesAssumption ==
    /\ BookOf \in [Snapshots -> Workbooks]
    /\ \A s \in Snapshots : ActiveOrders(BookOf[s]) # {}
    /\ LineNo \in [Orders -> Nat]
    /\ InstructionFor \in [Instructions -> Snapshots]
    /\ InitialRef \in Refs
    /\ {MaxBegun, MaxPublications, MaxFills} \subseteq Nat
    /\ 0 \notin Instructions

VARIABLES
    active,        \* the active version of the reference data
    workings,      \* order_workings of each line
    issues,        \* validation_issues of each line
    calculated,    \* calculations of each snapshot committed so far
    acks,          \* order_issue_acknowledgments
    publications,  \* dnbp_publications, in order of commit
    published,     \* how many there are
    instructions,  \* status, publication and manual fills
    begun,         \* transactions begun: the clock of now()
    request,       \* what each request has read
    torn,          \* history: workings of two calculations are mixed
    reviews        \* history: acknowledgements committed

calcVars == <<workings, issues, calculated, torn>>
pubVars == <<publications, published>>
reviewVars == <<acks, reviews>>
vars == <<active, calcVars, reviewVars, pubVars, instructions, begun, request>>

-----------------------------------------------------------------------------

Working == [price : Price, ref : Refs] \cup {None}

(* A null is no row. *)
ASSUME RowAssumption == None \notin [price : Price, ref : Refs]

IssueStates == {"absent", "open", "acknowledged"}
IssueRows == [Orders -> [Codes -> IssueStates]]
Prices == [Species -> Price]
PublicationIds == 1..MaxPublications
Times == 0..MaxBegun

Publication ==
    [prices : Prices, supersededBy : 0..MaxPublications, at : Times,
     notified : BOOLEAN,
     \* history: what its request had seen
     snap : Snapshots, instruction : Instructions \cup {0},
     follows : 0..MaxPublications,  \* the publication it replaced
     before : 0..MaxPublications,   \* those committed when it began
     saw : 0..MaxPublications,      \* those committed when it read the live one
     undisturbed : BOOLEAN]         \* no calculation between gate and prices

Instruction ==
    [status : {"DRAFT", "ISSUED", "ACKNOWLEDGED", "RECONCILED"},
     publication : 0..MaxPublications, fills : 0..MaxFills]

Idle == [job |-> "idle"]

PublishRequest ==
    [job : {"gate", "price", "compare", "publish"}, snap : Snapshots,
     instruction : Instructions \cup {0}, at : Times, before : 0..MaxPublications,
     gated : Nat, undisturbed : BOOLEAN, prices : Prices,
     follows : 0..MaxPublications, saw : 0..MaxPublications, notified : BOOLEAN]

CalculateRequest ==
    [job : {"load", "compute", "calculate"}, snap : Snapshots, ref : Refs,
     first : Working, loaded : Nat, found : IssueRows]

Acknowledgeable == {k \in Codes : Severity[k] # "BLOCK"}

AcknowledgeRequest ==
    [job : {"acknowledge"}, snap : Snapshots, order : Orders,
     code : Acknowledgeable, row : Nat]

InstructionRequest ==
    [job : {"confirm", "close", "fill", "unfill"}, instruction : Instructions]

TypeOK ==
    /\ active \in Refs
    /\ workings \in [Snapshots -> [Orders -> Working]]
    /\ issues \in [Snapshots -> IssueRows]
    /\ calculated \in [Snapshots -> Nat]
    /\ acks \in [Orders -> [Codes -> Fingerprints \cup {None}]]
    /\ published \in 0..MaxPublications
    /\ publications \in [PublicationIds -> Publication \cup {None}]
    /\ instructions \in [Instructions -> Instruction]
    /\ begun \in Times
    /\ request \in [Requests -> {Idle} \cup PublishRequest \cup CalculateRequest
                                \cup AcknowledgeRequest \cup InstructionRequest]
    /\ torn \in [Snapshots -> BOOLEAN]
    /\ reviews \in SUBSET [order : Orders, code : Acknowledgeable,
                           fingerprint : Fingerprints]

NoIssues == [o \in Orders |-> [k \in Codes |-> "absent"]]

Init ==
    /\ active = InitialRef
    /\ workings = [s \in Snapshots |-> [o \in Orders |-> None]]
    /\ issues = [s \in Snapshots |-> NoIssues]
    /\ calculated = [s \in Snapshots |-> 0]
    /\ acks = [o \in Orders |-> [k \in Codes |-> None]]
    /\ publications = [n \in PublicationIds |-> None] /\ published = 0
    /\ instructions = [i \in Instructions |->
                          [status |-> "DRAFT", publication |-> 0, fills |-> 0]]
    /\ begun = 0
    /\ request = [w \in Requests |-> Idle]
    /\ torn = [s \in Snapshots |-> FALSE]
    /\ reviews = {}

(* A request begins its transaction; now() is that moment from then on.    *)
Begin(w, first) ==
    /\ request[w] = Idle
    /\ begun < MaxBegun
    /\ begun' = begun + 1
    /\ request' = [request EXCEPT ![w] = first]

(* The next statement of a request, which has read what row says. *)
Proceed(w, row) ==
    /\ request' = [request EXCEPT ![w] = row]
    /\ UNCHANGED begun

End(w) == Proceed(w, Idle)

(* A request is refused, fails, is cancelled by the database to break a    *)
(* deadlock, or dies with the process: nothing it did is kept.             *)
Abort(w) ==
    /\ request[w] # Idle
    /\ End(w)
    /\ UNCHANGED <<active, calcVars, reviewVars, pubVars, instructions>>

(* activate_version, as short as it is here; see ReferenceVersions.        *)
ActivateRef(r) ==
    /\ r # active /\ begun < MaxBegun
    /\ active' = r
    /\ begun' = begun + 1
    /\ UNCHANGED <<calcVars, reviewVars, pubVars, instructions, request>>

-----------------------------------------------------------------------------
(* Calculating a snapshot *)

(* get_active_everhealth_config *)
BeginCalculate(w, s) ==
    /\ Begin(w, [job |-> "load", snap |-> s, ref |-> active, first |-> None,
                 loaded |-> 0, found |-> NoIssues])
    /\ UNCHANGED <<active, calcVars, reviewVars, pubVars, instructions>>

(* The line whose workings are written first: its row stays locked until   *)
(* the calculation commits, and keeps every other calculation of the       *)
(* snapshot waiting.                                                       *)
FirstLine(s) ==
    CHOOSE o \in ActiveOrders(BookOf[s]) :
        \A x \in ActiveOrders(BookOf[s]) : LineNo[o] <= LineNo[x]

(* upsert: get_by_order_line_id of the first line *)
LoadFirstWorking(w) ==
    LET rq == request[w]
    IN  /\ rq.job = "load"
        /\ Proceed(w, [rq EXCEPT !.job = "compute",
                                 !.first = workings[rq.snap][FirstLine(rq.snap)],
                                 !.loaded = calculated[rq.snap]])
        /\ UNCHANGED <<active, calcVars, reviewVars, pubVars, instructions>>

Calculating(s) ==
    \E w \in Requests : request[w].job = "calculate" /\ request[w].snap = s

MayBeOutlier(s, r) ==
    {o \in ActiveOrders(BookOf[s]) :
        /\ Quote[BookOf[s][o], r] # None
        /\ \E n \in 1..published :
               LET past == publications[n].prices[SpeciesOf[o]]
               IN  past # None /\ OffBy15Percent(Quote[BookOf[s][o], r], past)}

Found(s, r, o, outliers) ==
    IF BookOf[s][o] = None THEN {}
    ELSE Raises[BookOf[s][o], r] \cup (IF o \in outliers THEN {OutlierCode} ELSE {})

CarriedForward(s, o, k) ==
    Reviewable(k) /\ acks[o][k] = Fingerprint[BookOf[s][o]]

(* The first line's row is locked, or inserted if there was none; a second *)
(* insert of it fails.  What the acknowledgements say of each line is read *)
(* while the lock is held.                                                 *)
ComputeLines(w) ==
    LET rq == request[w]
        s == rq.snap
    IN  /\ rq.job = "compute"
        /\ ~Calculating(s)
        /\ rq.first = None => workings[s][FirstLine(s)] = None
        /\ \E outliers \in SUBSET MayBeOutlier(s, rq.ref) :
               Proceed(w, [rq EXCEPT !.job = "calculate", !.found =
                   [o \in Orders |-> [k \in Codes |->
                       IF k \notin Found(s, rq.ref, o, outliers) THEN "absent"
                       ELSE IF CarriedForward(s, o, k) THEN "acknowledged"
                       ELSE "open"]]])
        /\ UNCHANGED <<active, calcVars, reviewVars, pubVars, instructions>>

(* The UPDATE of a row that was loaded: only the columns that differ.      *)
Merged(new, loaded, row) ==
    IF loaded = None THEN new
    ELSE [price |-> IF new.price = loaded.price THEN row.price ELSE new.price,
          ref |-> IF new.ref = loaded.ref THEN row.ref ELSE new.ref]

CommitCalculate(w) ==
    LET rq == request[w]
        s == rq.snap
        new == [o \in ActiveOrders(BookOf[s]) |->
                   [price |-> Quote[BookOf[s][o], rq.ref], ref |-> rq.ref]]
    IN  /\ rq.job = "calculate"
        /\ workings' = [workings EXCEPT ![s] =
               [o \in Orders |->
                   IF o \notin ActiveOrders(BookOf[s]) THEN workings[s][o]
                   ELSE IF o = FirstLine(s)
                        THEN Merged(new[o], rq.first, workings[s][o])
                        ELSE new[o]]]
        /\ issues' = [issues EXCEPT ![s] = rq.found]
        /\ calculated' = [calculated EXCEPT ![s] = @ + 1]
        /\ torn' = [torn EXCEPT ![s] = rq.loaded # calculated[s]]
        /\ End(w)
        /\ UNCHANGED <<active, reviewVars, pubVars, instructions>>

-----------------------------------------------------------------------------
(* Acknowledging an issue *)

(* A mutant of BeginAcknowledge: anything can be acknowledged.             *)
BeginAcknowledgeAny(w, s, o, k) ==
    /\ issues[s][o][k] # "absent"
    /\ Begin(w, [job |-> "acknowledge", snap |-> s, order |-> o, code |-> k,
                 row |-> calculated[s]])
    /\ UNCHANGED <<active, calcVars, reviewVars, pubVars, instructions>>

(* The issue row is loaded; a calculation will replace it by another row.  *)
BeginAcknowledge(w, s, o, k) ==
    /\ issues[s][o][k] # "absent"
    /\ Severity[k] # "BLOCK"
    /\ Begin(w, [job |-> "acknowledge", snap |-> s, order |-> o, code |-> k,
                 row |-> calculated[s]])
    /\ UNCHANGED <<active, calcVars, reviewVars, pubVars, instructions>>

(* A calculation in progress may have passed this line's acknowledgements  *)
(* and not yet have replaced its issues: the decision is kept, and the     *)
(* issue the calculation puts back does not know of it.  Once the row is   *)
(* replaced, the UPDATE finds nothing and the request fails.               *)
CommitAcknowledge(w) ==
    LET rq == request[w]
        f == Fingerprint[BookOf[rq.snap][rq.order]]
    IN  /\ rq.job = "acknowledge"
        /\ rq.row = calculated[rq.snap]
        /\ issues' = [issues EXCEPT ![rq.snap][rq.order][rq.code] = "acknowledged"]
        /\ acks' = [acks EXCEPT ![rq.order][rq.code] = f]
        /\ reviews' = reviews \cup
               {[order |-> rq.order, code |-> rq.code, fingerprint |-> f]}
        /\ End(w)
        /\ UNCHANGED <<active, workings, calculated, torn, pubVars, instructions>>

-----------------------------------------------------------------------------
(* Publishing *)

(* A mutant of MayPublish: a publish tapped twice is taken twice.          *)
MayPublishAgain(s, i) == i # 0 => InstructionFor[i] = s

(* The instruction, if there is one, is loaded and has to be a draft. *)
MayPublish(s, i) ==
    i # 0 => /\ InstructionFor[i] = s
             /\ instructions[i].status = "DRAFT"

BeginPublish(w, s, i) ==
    /\ MayPublish(s, i)
    /\ Begin(w, [job |-> "gate", snap |-> s, instruction |-> i, at |-> begun + 1,
                 before |-> published, gated |-> 0, undisturbed |-> FALSE,
                 prices |-> NothingPriced, follows |-> 0, saw |-> 0,
                 notified |-> FALSE])
    /\ UNCHANGED <<active, calcVars, reviewVars, pubVars, instructions>>

(* A mutant of Publishable: only what blocks stops a publication.          *)
Unblocked(s) ==
    \A o \in ActiveOrders(BookOf[s]), k \in Codes :
        issues[s][o][k] # "absent" => Severity[k] # "BLOCK"

Publishable(s) ==
    \A o \in ActiveOrders(BookOf[s]), k \in Codes :
        issues[s][o][k] # "absent" =>
            /\ Severity[k] # "BLOCK"
            /\ Reviewable(k) => issues[s][o][k] = "acknowledged"

(* _assert_publishable *)
PassGate(w) ==
    LET rq == request[w]
    IN  /\ rq.job = "gate"
        /\ Publishable(rq.snap)
        /\ Proceed(w, [rq EXCEPT !.job = "price", !.gated = calculated[rq.snap]])
        /\ UNCHANGED <<active, calcVars, reviewVars, pubVars, instructions>>

PricedLines(s) ==
    [o \in Orders |->
        IF o \in ActiveOrders(BookOf[s]) /\ workings[s][o] # None
        THEN workings[s][o].price ELSE None]

(* compute_publication_lines *)
ReadPrices(w) ==
    LET rq == request[w]
        prices == SpeciesPrices(PricedLines(rq.snap))
    IN  /\ rq.job = "price"
        /\ prices # NothingPriced
        /\ Proceed(w, [rq EXCEPT
               !.job = "compare", !.prices = prices,
               !.undisturbed = rq.gated = calculated[rq.snap] /\ ~torn[rq.snap]])
        /\ UNCHANGED <<active, calcVars, reviewVars, pubVars, instructions>>

Unsuperseded == {n \in 1..published : publications[n].supersededBy = 0}

(* get_current_for_org: the one whose transaction began last *)
Current ==
    IF Unsuperseded = {} THEN 0
    ELSE CHOOSE n \in Unsuperseded :
             \A m \in Unsuperseded : publications[m].at <= publications[n].at

PricesOf(n) == IF n = 0 THEN NothingPriced ELSE publications[n].prices

(* A mutant of PricesChanged: a price that falls is not news.              *)
PricesRaised(previous, drafts) ==
    \E sp \in Species :
        /\ drafts[sp] # None
        /\ previous[sp] = None \/ previous[sp] < drafts[sp]

PricesChanged(previous, drafts) == previous # drafts

ReadCurrent(w) ==
    LET rq == request[w]
    IN  /\ rq.job = "compare"
        /\ Proceed(w, [rq EXCEPT
               !.job = "publish", !.follows = Current, !.saw = published,
               !.notified = PricesChanged(PricesOf(Current), rq.prices)])
        /\ UNCHANGED <<active, calcVars, reviewVars, pubVars, instructions>>

(* A mutant of Supersedes: only a publication the buyer hears about        *)
(* replaces another.                                                       *)
SupersedesAloud(rq, n) == n = rq.follows /\ rq.notified

(* Whether the publication of rq replaces publication n. *)
Supersedes(rq, n) == n = rq.follows

CommitPublish(w) ==
    LET rq == request[w]
        new == published + 1
    IN  /\ rq.job = "publish"
        /\ published < MaxPublications
        /\ published' = new
        /\ publications' = [n \in PublicationIds |->
               IF n = new
               THEN [prices |-> rq.prices, supersededBy |-> 0, at |-> rq.at,
                     notified |-> rq.notified, snap |-> rq.snap,
                     instruction |-> rq.instruction, follows |-> rq.follows,
                     before |-> rq.before, saw |-> rq.saw,
                     undisturbed |-> rq.undisturbed]
               ELSE IF n <= published /\ Supersedes(rq, n)
                    THEN [publications[n] EXCEPT !.supersededBy = new]
                    ELSE publications[n]]
        /\ instructions' = [i \in Instructions |->
               IF i = rq.instruction
               THEN [instructions[i] EXCEPT !.status = "ISSUED",
                                            !.publication = new]
               ELSE instructions[i]]
        /\ End(w)
        /\ UNCHANGED <<active, calcVars, reviewVars>>

-----------------------------------------------------------------------------
(* The other transitions of an instruction *)

(* A mutant of AllowedIn: fills need only an instruction that is not closed. *)
AllowedBeforeClose(job) ==
    CASE job = "confirm" -> {"ISSUED"}
      [] job = "close" -> {"ACKNOWLEDGED"}
      [] OTHER -> {"DRAFT", "ISSUED", "ACKNOWLEDGED"}

(* The statuses an instruction may have when the request loads it. *)
AllowedIn(job) ==
    CASE job = "confirm" -> {"ISSUED"}
      [] job = "close" -> {"ACKNOWLEDGED"}
      [] OTHER -> {"ISSUED", "ACKNOWLEDGED"}

BeginInstruction(w, i, job) ==
    /\ instructions[i].status \in AllowedIn(job)
    /\ job = "unfill" => instructions[i].fills > 0
    /\ Begin(w, [job |-> job, instruction |-> i])
    /\ UNCHANGED <<active, calcVars, reviewVars, pubVars, instructions>>

(* acknowledge, reconcile_close, add_fill and remove_fill write what the   *)
(* status they loaded allowed; a fill removed twice is removed once.       *)
CommitInstruction(w) ==
    LET rq == request[w]
        row == instructions[rq.instruction]
    IN  /\ \/ /\ rq.job = "confirm"
              /\ instructions' = [instructions EXCEPT
                     ![rq.instruction].status = "ACKNOWLEDGED"]
           \/ /\ rq.job = "close"
              /\ instructions' = [instructions EXCEPT
                     ![rq.instruction].status = "RECONCILED"]
           \/ /\ rq.job = "fill" /\ row.fills < MaxFills
              /\ instructions' = [instructions EXCEPT
                     ![rq.instruction].fills = row.fills + 1]
           \/ /\ rq.job = "unfill" /\ row.fills > 0
              /\ instructions' = [instructions EXCEPT
                     ![rq.instruction].fills = row.fills - 1]
        /\ End(w)
        /\ UNCHANGED <<active, calcVars, reviewVars, pubVars>>

-----------------------------------------------------------------------------

CalculateStep(w) ==
    \/ \E s \in Snapshots : BeginCalculate(w, s)
    \/ LoadFirstWorking(w)
    \/ ComputeLines(w)
    \/ CommitCalculate(w)

AcknowledgeStep(w) ==
    \/ \E s \in Snapshots, o \in Orders, k \in Codes : BeginAcknowledge(w, s, o, k)
    \/ CommitAcknowledge(w)

PublishStep(w) ==
    \/ \E s \in Snapshots, i \in Instructions \cup {0} : BeginPublish(w, s, i)
    \/ PassGate(w)
    \/ ReadPrices(w)
    \/ ReadCurrent(w)
    \/ CommitPublish(w)

InstructionStep(w) ==
    \/ \E i \in Instructions, job \in {"confirm", "close", "fill", "unfill"} :
           BeginInstruction(w, i, job)
    \/ CommitInstruction(w)

Next ==
    \/ \E r \in Refs : ActivateRef(r)
    \/ \E w \in Requests :
        \/ CalculateStep(w)
        \/ AcknowledgeStep(w)
        \/ PublishStep(w)
        \/ InstructionStep(w)
        \/ Abort(w)

Spec == Init /\ [][Next]_vars

-----------------------------------------------------------------------------
(* Properties *)

(***************************************************************************)
(* Two publications replace the same one only if their requests ran at the *)
(* same time: the later one read the live publication before the earlier   *)
(* one committed.  So two are live only after publishes overlapped, and    *)
(* publishes that do not overlap form a chain.  About publish and          *)
(* get_current_for_org at READ COMMITTED.                                  *)
(***************************************************************************)
OnlyOverlapForks ==
    \A m, n \in 1..published :
        m < n /\ publications[m].follows = publications[n].follows =>
            publications[n].saw < m

(***************************************************************************)
(* As long as the publications form a chain, the last one that alerted the *)
(* buyer shows the live prices, however their requests interleaved up to   *)
(* reading the live publication.  About _prices_changed and buyer_notified *)
(* against the publication actually replaced.                              *)
(***************************************************************************)
Alerts == {n \in 1..published : publications[n].notified}

LastAlert == CHOOSE n \in Alerts : \A m \in Alerts : m <= n

ChainIsHeard ==
    (\A n \in 1..published : publications[n].follows = n - 1) =>
        PricesOf(Current) =
            IF Alerts = {} THEN NothingPriced ELSE publications[LastAlert].prices

(***************************************************************************)
(* A publication during which no calculation of its snapshot committed     *)
(* between the gate and the prices, of workings no two calculations        *)
(* overlapped to write, is one run of the engine in which nothing blocks   *)
(* and every concern was reviewed for that content - whatever versions     *)
(* were activated, calculations restarted and issues acknowledged around   *)
(* it.  About the gate of publish over concurrent requests.                *)
(***************************************************************************)
Cleared(b, r) ==
    \A o \in ActiveOrders(b) : \A k \in Raises[b[o], r] :
        /\ Severity[k] # "BLOCK"
        /\ Reviewable(k) =>
            [order |-> o, code |-> k, fingerprint |-> Fingerprint[b[o]]] \in reviews

IsClearedRun(p) ==
    \E r \in Refs :
        /\ Cleared(BookOf[p.snap], r)
        /\ p.prices = SpeciesPrices(QuotesOf(BookOf[p.snap], r))

UndisturbedPublicationsAreCleared ==
    \A n \in 1..published :
        publications[n].undisturbed => IsClearedRun(publications[n])

(***************************************************************************)
(* An instruction is published twice only by requests that overlapped: the *)
(* second began before the first committed.  About the DRAFT check of      *)
(* buy_instruction_service.publish and the status it writes much later.    *)
(***************************************************************************)
IssuedTwiceOnlyOverlapping ==
    \A m, n \in 1..published :
        /\ m < n
        /\ publications[m].instruction = publications[n].instruction
        /\ publications[n].instruction # 0
        => publications[n].before < m

(***************************************************************************)
(* However the transitions of an instruction overlap, it has left DRAFT    *)
(* exactly when it has a publication, which was made for it, and only such *)
(* an instruction has fills.  About the status checks of                   *)
(* buy_instruction_service, which read the row well before they write it.  *)
(***************************************************************************)
FillsFollowPublication ==
    \A i \in Instructions :
        LET row == instructions[i]
        IN  /\ row.status = "DRAFT" <=> row.publication = 0
            /\ row.publication # 0 =>
                   /\ row.publication <= published
                   /\ publications[row.publication].instruction = i
            /\ row.fills > 0 => row.publication # 0

(***************************************************************************)
(* What publication_service says of its gate: BLOCK issues refuse          *)
(* publication and every warning must be acknowledged first, so whatever   *)
(* is published is a cleared run.                                          *)
(***************************************************************************)
EveryPublicationIsCleared ==
    \A n \in 1..published : IsClearedRun(publications[n])
=============================================================================
