------------------------------ MODULE BuyerSync ------------------------------
(***************************************************************************)
(* Buyers write down what they bought on a phone that is often offline.    *)
(* The phone keeps what it wrote in a queue and flushes the queue, or part *)
(* of it, until the server has confirmed every item.  Answers get lost and *)
(* requests die, so the same item can arrive several times, in requests    *)
(* that overlap.                                                           *)
(*                                                                         *)
(* The phone is not part of this code base: it is modelled from what the   *)
(* endpoints say it does.  Requests run at READ COMMITTED; one action is   *)
(* one statement, or several between which no other commit matters.        *)
(***************************************************************************)
EXTENDS BidCheck, FiniteSetsExt, Sequences

CONSTANTS
    None,
    Species,
    Lots,              \* client_uuids of the purchases
    NoteOf,            \* what the buyer writes under each client_uuid
    CorrectionsOf,     \* what each purchase may be corrected by
    FirstPublications, \* publications there are at the start
    Boards,            \* what can be published next, as the n-th
    Requests,          \* requests the server can have in flight
    DayLength,         \* instants in a day
    Ahead,             \* what the buyers' clocks are ahead of UTC
    MaxPublications,   \* bound: publications
    MaxDisturbances    \* bound: corrections, deletions and faults in all

Note == [species : Species, price : Money, weight : Weight, heads : Nat]
Correction ==  \* None leaves a field alone
    [price : Money \cup {None}, weight : Weight \cup {None}, heads : Nat \cup {None}]
Line == [dnbp : Money, target : Nat \cup {None}]
Board == [Species -> Line \cup {None}]

ASSUME SyncAssumption ==
    /\ NoteOf \in [Lots -> Note]
    /\ CorrectionsOf \in [Lots -> SUBSET Correction]
    /\ IsFiniteSet(Lots)
    /\ Boards \in [1..MaxPublications -> SUBSET Board]
    /\ FirstPublications \in Seq([board : Board, at : Nat, from : Nat])
    /\ Len(FirstPublications) <= MaxPublications
    /\ \A i \in 1..Len(FirstPublications) :
           FirstPublications[i].at = i /\ FirstPublications[i].from = i
    /\ DayLength \in Nat \ {0}
    /\ Ahead \in 0..(DayLength - 1)
    /\ {MaxPublications, MaxDisturbances} \subseteq Nat

VARIABLES
    clock,         \* instants that have passed
    publications,  \* dnbp_publications and their lines, in order of commit
    publishing,    \* a publish that has begun and not committed, or None
    written,       \* when each item was written, and what the phone said of it
    queue,         \* the items the phone has no confirmation of
    entries,       \* buy_entries, by client_uuid
    request,       \* what each request has read and done
    disturbances,  \* corrections, deletions and faults so far
    torn           \* history: rows whose last corrections overlapped

vars == <<clock, publications, publishing, written, queue, entries,
          request, disturbances, torn>>

phoneVars == <<written, queue>>
boardVars == <<clock, publications, publishing>>

-----------------------------------------------------------------------------

Instants == 0..(MaxPublications * 2 + Cardinality(Lots))
PublicationIds == 1..MaxPublications

(* The date of an instant in UTC, which the server goes by, and where the  *)
(* buyers are: what a phone puts down as the trade date.                   *)
UtcDate(t) == t \div DayLength
TradeDate(t) == (t + Ahead) \div DayLength

Publication == [board : Board, at : Instants, from : Instants]
Publishing == [board : Board, at : Instants]

(* What the phone put down besides the note itself.                        *)
Writing ==
    [at : Instants, shown : 0..MaxPublications,
     verdict : {"PASS", "CLOSE", "BREACH", "none"}]

(* A row.  known is history: the publications there were when it was       *)
(* scored.                                                                 *)
Entry ==
    [price : Money, weight : Weight, heads : Nat, at : Instants,
     publication : 1..MaxPublications, breach : BOOLEAN, deleted : BOOLEAN,
     known : 0..MaxPublications]

Idle == [job |-> "idle"]

(* next and row are the item looked up and about to be inserted.           *)
FlushRequest ==
    [job : {"sync", "answer"}, todo : SUBSET Lots, ok : SUBSET Lots,
     next : Lots \cup {None}, row : Entry \cup {None},
     inserted : [Lots -> Entry \cup {None}]]

CorrectRequest ==
    [job : {"correct"}, item : Lots, to : Correction, loaded : Entry]

ASSUME NullAssumption == None \notin Publishing \cup Writing \cup Entry

TypeOK ==
    /\ clock \in Instants
    /\ publications \in Seq(Publication) /\ Len(publications) <= MaxPublications
    /\ publishing \in Publishing \cup {None}
    /\ written \in [Lots -> Writing \cup {None}]
    /\ queue \subseteq Lots
    /\ entries \in [Lots -> Entry \cup {None}]
    /\ request \in [Requests -> {Idle} \cup FlushRequest \cup CorrectRequest]
    /\ disturbances \in 0..MaxDisturbances
    /\ torn \subseteq Lots

Init ==
    /\ clock = Len(FirstPublications)
    /\ publications = FirstPublications
    /\ publishing = None
    /\ written = [u \in Lots |-> None]
    /\ queue = {}
    /\ entries = [u \in Lots |-> None]
    /\ request = [r \in Requests |-> Idle]
    /\ disturbances = 0
    /\ torn = {}

-----------------------------------------------------------------------------
(* Publications.  published_at is the instant the transaction began,       *)
(* effective_from the instant it wrote the row.                            *)

BeginPublish ==
    /\ publishing = None
    /\ Len(publications) < MaxPublications
    /\ \E b \in Boards[Len(publications) + 1] : publishing' = [board |-> b, at |-> clock + 1]
    /\ clock' = clock + 1
    /\ UNCHANGED <<publications, phoneVars, entries, request, disturbances, torn>>

CommitPublish ==
    /\ publishing # None
    /\ publications' =
           Append(publications, [board |-> publishing.board, at |-> publishing.at,
                                 from |-> clock + 1])
    /\ clock' = clock + 1
    /\ publishing' = None
    /\ UNCHANGED <<phoneVars, entries, request, disturbances, torn>>

(* A mutant of EffectiveAsOf: the live publication, whenever the entry was *)
(* written.                                                                *)
LiveInstead(t) == Len(publications)

(* The latest publication published by an instant, or 0.  Publishes do not *)
(* overlap here, so the latest is the last committed.                      *)
EffectiveAsOf(t) ==
    LET past == {p \in 1..Len(publications) : publications[p].at <= t}
    IN  IF past = {} THEN 0 ELSE CHOOSE p \in past : \A q \in past : q <= p

HasLine(p, s) == p # 0 /\ publications[p].board[s] # None
DnbpOf(p, s) == publications[p].board[s].dnbp

(* There is a price a purchase can be scored against.                      *)
Scorable(u) == HasLine(EffectiveAsOf(written[u].at), NoteOf[u].species)

-----------------------------------------------------------------------------
(* Progress of the species that the live publication lists.                *)

Live == Len(publications)

PastOf(s) == {p \in 1..(Live - 1) : HasLine(p, s)}

(* The past publications of a species, in order.                           *)
HistoryOf(s) ==
    [i \in 1..Cardinality(PastOf(s)) |->
        LET p == CHOOSE q \in PastOf(s) :
                     Cardinality({x \in PastOf(s) : x <= q}) = i
        IN  [from |-> publications[p].from,
             target |-> publications[p].board[s].target]]

AnchorOf(s) ==
    ProgressAnchor(HistoryOf(s), Cardinality(PastOf(s)),
                   publications[Live].board[s].target, publications[Live].from)

(* The rows of anyone that count towards the target of a species: their    *)
(* trade dates are compared with the date of the anchor in UTC.            *)
Counted(s) ==
    {u \in Lots : /\ entries[u] # None
                  /\ ~entries[u].deleted
                  /\ NoteOf[u].species = s
                  /\ TradeDate(entries[u].at) >= UtcDate(AnchorOf(s))}

-----------------------------------------------------------------------------
(* The phone.                                                              *)

(* The publication on the screen when something was last written down.     *)
LastShown ==
    LET shown == {written[u].shown : u \in {v \in Lots : written[v] # None}}
    IN  IF shown = {} THEN 0 ELSE Max(shown)

(* The buyer notes something down.  The screen shows the publication the   *)
(* phone last polled, which may have been any since the last note; the     *)
(* phone scores a purchase against its prices, which are rounded down.     *)
WriteDown(u) ==
    /\ written[u] = None
    /\ clock' = clock + 1
    /\ \E shown \in LastShown..Live :
           LET n == NoteOf[u]
           IN  written' =
                   [written EXCEPT ![u] =
                       [at |-> clock + 1, shown |-> shown,
                        verdict |->
                            IF ~HasLine(shown, n.species) THEN "none"
                            ELSE BidStatus(n.price, n.weight,
                                     FloorToCents(DnbpOf(shown, n.species)))]]
    /\ queue' = queue \cup {u}
    /\ UNCHANGED <<publications, publishing, entries, request, disturbances, torn>>

(* One purchase is POSTed by itself, several to the bulk endpoint.  The     *)
(* phone does not wait for the answer to an earlier flush.                 *)
Flush(r, items) ==
    /\ request[r] = Idle
    /\ items # {}
    /\ items \subseteq queue
    /\ request' = [request EXCEPT ![r] =
           [job |-> "sync", todo |-> items, ok |-> {}, next |-> None, row |-> None,
            inserted |-> [u \in Lots |-> None]]]
    /\ UNCHANGED <<boardVars, phoneVars, entries, disturbances, torn>>

-----------------------------------------------------------------------------
(* A flush on the server.                                                  *)

(* The row made of a note, scored as of the instant it was written.        *)
RowOf(u) ==
    LET n == NoteOf[u]
        p == EffectiveAsOf(written[u].at)
    IN  [price |-> n.price, weight |-> n.weight, heads |-> n.heads,
         at |-> written[u].at, publication |-> p,
         breach |-> IsBreach(n.price, n.weight, DnbpOf(p, n.species)),
         deleted |-> FALSE, known |-> Live]

(* A mutant of Look: an item that cannot be scored is confirmed too.       *)
LookLeniently(r, u) ==
    LET q == request[r]
    IN  /\ q.job = "sync" /\ q.next = None /\ u \in q.todo
        /\ request' = [request EXCEPT ![r] =
               IF entries[u] # None \/ ~Scorable(u)
               THEN [q EXCEPT !.todo = @ \ {u}, !.ok = @ \cup {u}]
               ELSE [q EXCEPT !.next = u, !.row = RowOf(u)]]
        /\ UNCHANGED <<boardVars, phoneVars, entries, disturbances, torn>>

(* A mutant of Look: a replay is taken for an error.                       *)
LookOnce(r, u) ==
    LET q == request[r]
    IN  /\ q.job = "sync" /\ q.next = None /\ u \in q.todo
        /\ request' = [request EXCEPT ![r] =
               IF entries[u] # None \/ ~Scorable(u) THEN [q EXCEPT !.todo = @ \ {u}]
               ELSE [q EXCEPT !.next = u, !.row = RowOf(u)]]
        /\ UNCHANGED <<boardVars, phoneVars, entries, disturbances, torn>>

(* An item that is stored already is confirmed as it is, deleted or not;   *)
(* one that cannot be scored is refused; any other is about to be stored.  *)
Look(r, u) ==
    LET q == request[r]
    IN  /\ q.job = "sync" /\ q.next = None /\ u \in q.todo
        /\ request' = [request EXCEPT ![r] =
               IF entries[u] # None
               THEN [q EXCEPT !.todo = @ \ {u}, !.ok = @ \cup {u}]
               ELSE IF ~Scorable(u) THEN [q EXCEPT !.todo = @ \ {u}]
               ELSE [q EXCEPT !.next = u, !.row = RowOf(u)]]
        /\ UNCHANGED <<boardVars, phoneVars, entries, disturbances, torn>>

(* Another transaction has inserted the same client_uuid and is open: the  *)
(* unique index makes this one wait for its end.                           *)
WaitsFor(r, other) ==
    /\ other # r
    /\ request[r].job = "sync" /\ request[r].next # None
    /\ request[other].job = "sync"
    /\ request[other].inserted[request[r].next] # None

(* The insert.  If the other transaction has committed, the insert         *)
(* violates the index: the session takes nothing more, so the remaining    *)
(* items fail, the commit fails, and all there is to answer is an error.   *)
Insert(r) ==
    LET q == request[r]
    IN  /\ q.job = "sync" /\ q.next # None
        /\ \A other \in Requests : ~WaitsFor(r, other)
        /\ request' = [request EXCEPT ![r] =
               IF entries[q.next] # None THEN Idle
               ELSE [q EXCEPT !.todo = @ \ {q.next}, !.ok = @ \cup {q.next},
                              !.inserted[q.next] = q.row,
                              !.next = None, !.row = None]]
        /\ UNCHANGED <<boardVars, phoneVars, entries, disturbances, torn>>

(* Two batches wait for each other: the database aborts one.               *)
BreakDeadlock(r) ==
    /\ \E other \in Requests : WaitsFor(r, other) /\ WaitsFor(other, r)
    /\ request' = [request EXCEPT ![r] = Idle]
    /\ UNCHANGED <<boardVars, phoneVars, entries, disturbances, torn>>

Commit(r) ==
    LET q == request[r]
    IN  /\ q.job = "sync" /\ q.todo = {}
        /\ entries' = [u \in Lots |->
               IF q.inserted[u] # None THEN q.inserted[u] ELSE entries[u]]
        /\ request' = [request EXCEPT ![r] =
               [q EXCEPT !.job = "answer", !.inserted = [u \in Lots |-> None]]]
        /\ UNCHANGED <<boardVars, phoneVars, disturbances, torn>>

(* The phone drops from its queue what is confirmed, item by item.         *)
Answer(r) ==
    /\ request[r].job = "answer"
    /\ queue' = queue \ request[r].ok
    /\ request' = [request EXCEPT ![r] = Idle]
    /\ UNCHANGED <<boardVars, written, entries, disturbances, torn>>

(* A request dies where it is, or its answer is lost.                      *)
Die(r) ==
    /\ request[r] # Idle
    /\ disturbances < MaxDisturbances
    /\ disturbances' = disturbances + 1
    /\ request' = [request EXCEPT ![r] = Idle]
    /\ UNCHANGED <<boardVars, phoneVars, entries, torn>>

-----------------------------------------------------------------------------
(* Correcting and deleting.                                                *)

BeginCorrect(r, u) ==
    /\ request[r] = Idle
    /\ disturbances < MaxDisturbances
    /\ entries[u] # None
    /\ ~entries[u].deleted
    /\ disturbances' = disturbances + 1
    /\ \E c \in CorrectionsOf[u] :
           request' = [request EXCEPT ![r] =
               [job |-> "correct", item |-> u, to |-> c, loaded |-> entries[u]]]
    /\ UNCHANGED <<boardVars, phoneVars, entries, torn>>

OrElse(value, default) == IF value # None THEN value ELSE default

(* Mutants of Corrected: fields that are not sent are emptied; a change of *)
(* the weight is not scored; the entry is frozen anew.                     *)
CorrectedBlank(u, row, c) ==
    [row EXCEPT !.price = OrElse(c.price, @), !.weight = OrElse(c.weight, @),
                !.heads = c.heads]

CorrectedByPrice(u, row, c) ==
    LET price == OrElse(c.price, row.price)
    IN  [row EXCEPT
            !.price = price, !.weight = OrElse(c.weight, @),
            !.heads = OrElse(c.heads, @),
            !.breach = IF c.price # None
                       THEN IsBreach(price, row.weight,
                                     DnbpOf(row.publication, NoteOf[u].species))
                       ELSE @]

CorrectedAnew(u, row, c) ==
    [row EXCEPT !.price = OrElse(c.price, @), !.weight = OrElse(c.weight, @),
                !.heads = OrElse(c.heads, @), !.publication = Live]

(* The row as corrected: a change of price or weight scores it again,      *)
(* against the price it was frozen with.                                   *)
Corrected(u, row, c) ==
    LET price == OrElse(c.price, row.price)
        weight == OrElse(c.weight, row.weight)
    IN  [row EXCEPT
            !.price = price, !.weight = weight, !.heads = OrElse(c.heads, @),
            !.breach = IF c.price # None \/ c.weight # None
                       THEN IsBreach(price, weight,
                                     DnbpOf(row.publication, NoteOf[u].species))
                       ELSE @]

(* The UPDATE names only the columns that differ from what was loaded.     *)
Merged(stored, loaded, new) ==
    [f \in DOMAIN stored |-> IF new[f] # loaded[f] THEN new[f] ELSE stored[f]]

CommitCorrect(r) ==
    LET q == request[r]
        u == q.item
        overlapped == [entries[u] EXCEPT !.deleted = FALSE] # q.loaded
    IN  /\ q.job = "correct"
        /\ entries' = [entries EXCEPT ![u] =
               Merged(@, q.loaded, Corrected(u, q.loaded, q.to))]
        /\ torn' = IF overlapped THEN torn \cup {u}
                   ELSE IF q.to.price # None \/ q.to.weight # None THEN torn \ {u}
                   ELSE torn
        /\ request' = [request EXCEPT ![r] = Idle]
        /\ UNCHANGED <<boardVars, phoneVars, disturbances>>

Delete(u) ==
    /\ entries[u] # None
    /\ disturbances < MaxDisturbances
    /\ disturbances' = disturbances + 1
    /\ entries' = [entries EXCEPT ![u].deleted = TRUE]
    /\ UNCHANGED <<boardVars, phoneVars, request, torn>>

-----------------------------------------------------------------------------

ServerStep(r) ==
    \/ \E u \in Lots : Look(r, u)
    \/ Insert(r)
    \/ BreakDeadlock(r)
    \/ Commit(r)
    \/ Answer(r)
    \/ CommitCorrect(r)

Next ==
    \/ BeginPublish
    \/ CommitPublish
    \/ \E u \in Lots : WriteDown(u)
    \/ \E r \in Requests, items \in SUBSET Lots : Flush(r, items)
    \/ \E r \in Requests : ServerStep(r)
    \/ \E r \in Requests : Die(r)
    \/ \E r \in Requests, u \in Lots : BeginCorrect(r, u)
    \/ \E u \in Lots : Delete(u)

Spec == Init /\ [][Next]_vars

(* A request that runs comes to its end.  The phone sends each item it has *)
(* no confirmation of by itself, again and again: batches alone would not  *)
(* do, two that overlap can abort each other for ever.  Nobody has to      *)
(* publish, write or correct.                                              *)
FairSpec ==
    /\ Spec
    /\ \A r \in Requests : WF_vars(ServerStep(r))
    /\ \A u \in Lots : SF_vars(\E r \in Requests : Flush(r, {u}))

-----------------------------------------------------------------------------
(* What the phone wrote is never lost: until the server has stored it, the *)
(* phone has it in its queue, whatever became of the requests that carried *)
(* it (bulk_sync, create_or_sync_entry).                                   *)
NothingLost ==
    \A u \in Lots : written[u] # None => u \in queue \/ entries[u] # None

(* A purchase stays frozen to the latest publication, of those there were  *)
(* when it was scored, that was published by the time it was written: not  *)
(* to the one live when it arrived, however late or often it arrived and   *)
(* however it was corrected since (section 12.4 of the requirements).      *)
FrozenAsWritten ==
    \A u \in Lots :
        entries[u] # None =>
            LET e == entries[u]
            IN  /\ e.at = written[u].at
                /\ HasLine(e.publication, NoteOf[u].species)
                /\ publications[e.publication].at <= e.at
                /\ \A p \in (e.publication + 1)..e.known : publications[p].at > e.at

(* The breach flag says what the row's own price, weight and frozen        *)
(* ceiling say, unless two corrections of the row overlapped.              *)
ScoresAreTrue ==
    \A u \in Lots \ torn :
        entries[u] # None =>
            (entries[u].breach <=>
                IsBreach(entries[u].price, entries[u].weight,
                         DnbpOf(entries[u].publication, NoteOf[u].species)))

(* What the phone let pass against the publication that the row is frozen  *)
(* to is not held against the buyer later: the server scores the same note *)
(* against the exact price, the phone against the one rounded down.        *)
PassedOnThePhoneIsNoBreach ==
    \A u \in Lots :
        (/\ entries[u] # None
         /\ entries[u].publication = written[u].shown
         /\ written[u].verdict \in {"PASS", "CLOSE"}
         /\ entries[u].price = NoteOf[u].price
         /\ entries[u].weight = NoteOf[u].weight
         /\ u \notin torn)
        => ~entries[u].breach

(* A stored row keeps its publication, instant and deletion for good: no   *)
(* replay of a flush scores it again or brings it back.                    *)
NeverStoredAgain ==
    [][\A u \in Lots :
          entries[u] # None =>
              /\ entries'[u] # None
              /\ entries'[u].publication = entries[u].publication
              /\ entries'[u].at = entries[u].at
              /\ entries[u].deleted => entries'[u].deleted]_vars

(* The publications that list a species.                                   *)
Listings(s) == {p \in 1..Live : HasLine(p, s)}

(* Where the latest publications that list it began to ask for what the    *)
(* live one asks for: publications without the species do not count.       *)
TargetBegan(s) ==
    CHOOSE p \in Listings(s) :
        /\ \A q \in Listings(s) :
               q >= p => publications[q].board[s].target = publications[Live].board[s].target
        /\ \A q \in Listings(s) :
               q < p => \E x \in Listings(s) :
                   /\ q <= x /\ x < p
                   /\ publications[x].board[s].target # publications[Live].board[s].target

(* What was bought of a species since its target began counts towards it,  *)
(* however often it was published since, and also when it was left out in  *)
(* between.  Of what was bought before, nothing counts from before the     *)
(* local day before that: the anchor's date is taken in UTC, a trade date  *)
(* where the buyer is (find_progress_anchor, compute_species_progress).    *)
TargetsCountFromTheirStart ==
    \A s \in Species :
        HasLine(Live, s) =>
            LET began == publications[TargetBegan(s)].from
            IN  /\ \A u \in Lots :
                       (/\ entries[u] # None /\ ~entries[u].deleted
                        /\ NoteOf[u].species = s
                        /\ entries[u].at >= began) => u \in Counted(s)
                /\ \A u \in Counted(s) :
                       TradeDate(entries[u].at) >= TradeDate(began) - 1

(* Every item is confirmed to the phone in the end, as long as it can be   *)
(* scored at all.                                                          *)
EventuallyConfirmed ==
    \A u \in Lots : (u \in queue) ~> (u \notin queue \/ ~Scorable(u))
=============================================================================
