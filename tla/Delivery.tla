------------------------------- MODULE Delivery -------------------------------
(***************************************************************************)
(* How a published price reaches the buyers: by Web Push, which rings a    *)
(* phone that is asleep, by WebSocket, and by the poll of the app.  A      *)
(* publication is committed first and fanned out afterwards, by the same   *)
(* process and from memory: if the process stops, nobody resumes.  What a  *)
(* buyer has seen is acknowledged by a request of its own.                 *)
(*                                                                         *)
(* The polls pass the rate limiter, two commands to Redis: one counts, the *)
(* other gives the counter its time to live.                               *)
(*                                                                         *)
(* The phones, the push service and the network are external.  A phone     *)
(* shows what it heard last; while the app is open it polls for ever.      *)
(* Push and screen meet only in what is published, so a buyer's app is     *)
(* either open all the time or closed all the time.                        *)
(***************************************************************************)
EXTENDS Naturals, FiniteSets, FiniteSetsExt

CONSTANTS
    Buyers,
    Prices,
    Limit,            \* requests a minute the limiter admits
    MaxPublications,  \* bound: publish requests
    MaxEndpoints,     \* bound: push subscriptions a phone makes
    MaxAcks           \* bound: acknowledgements a phone sends

ASSUME DeliveryAssumption ==
    /\ Limit \in Nat \ {0}
    /\ 0 \notin Prices  \* 0 stands for no price yet
    /\ MaxPublications \in Nat /\ MaxEndpoints \in Nat /\ MaxAcks \in Nat

Publications == 1..MaxPublications
Endpoints == 1..MaxEndpoints

VARIABLES
    publish,      \* the publish requests, by published_at
    awake,        \* the buyers with the app open
    superseded,   \* publications with superseded_by set
    overlapped,   \* history: two publish requests have overlapped
    subscribed,   \* push_subscriptions: endpoints on file for each buyer
    phone,        \* each phone: its endpoint, and what has become of it
    alert,        \* history: what has become of each push each phone is due
    heard,        \* history: the publication each phone last rang for, or 0
    link,         \* each phone's WebSocket
    shown,        \* the publication each phone shows, or 0
    poll,         \* each phone's poll
    counter,      \* each buyer's key of the rate limiter
    stopped,      \* history: the process has stopped amid the limiter
    rows,         \* dnbp_publication_deliveries: rows per buyer, publication
    acking,       \* acknowledgements that have found no row
    sent,         \* acknowledgements sent so far
    doubled       \* history: acknowledgements that have overlapped

publishVars == <<publish, superseded, overlapped, awake>>
pushVars == <<subscribed, phone, alert, heard>>
pollVars == <<poll, counter, stopped>>
ackVars == <<rows, acking, sent, doubled>>
vars == <<publishVars, pushVars, link, shown, pollVars, ackVars>>

-----------------------------------------------------------------------------

Stages == {"new", "started", "decided", "alerting", "closing", "done", "dead"}

PublishRequest ==
    [stage : Stages, price : Prices \cup {0}, prior : 0..MaxPublications,
     notified : BOOLEAN, todo : SUBSET Buyers, gone : SUBSET (Buyers \X Endpoints)]

TypeOK ==
    /\ publish \in [Publications -> PublishRequest]
    /\ awake \subseteq Buyers
    /\ superseded \subseteq Publications
    /\ overlapped \in BOOLEAN
    /\ subscribed \in [Buyers -> SUBSET Endpoints]
    /\ phone \in [Buyers -> [endpoint : 0..MaxEndpoints, push : {"off", "on", "gone"}]]
    /\ alert \in [Buyers -> [Publications -> {"none", "owed", "rung", "missed"}]]
    /\ heard \in [Buyers -> 0..MaxPublications]
    /\ link \in [Buyers -> {"off", "on"}]
    /\ shown \in [Buyers -> 0..MaxPublications]
    /\ poll \in [Buyers -> [stage : {"idle", "counted", "admitted", "answered"},
                            got : 0..MaxPublications]]
    /\ counter \in [Buyers -> [count : 0..Limit + 1, timed : BOOLEAN]]
    /\ stopped \subseteq Buyers
    /\ rows \in [Buyers -> [Publications -> 0..MaxAcks]]
    /\ acking \in [Buyers -> [Publications -> 0..MaxAcks]]
    /\ sent \in [Buyers -> 0..MaxAcks]
    /\ doubled \subseteq Buyers \X Publications

Init ==
    /\ publish = [p \in Publications |->
           [stage |-> "new", price |-> 0, prior |-> 0,
            notified |-> FALSE, todo |-> {}, gone |-> {}]]
    /\ awake \in SUBSET Buyers
    /\ superseded = {}
    /\ overlapped = FALSE
    /\ subscribed = [b \in Buyers |-> {}]
    /\ phone = [b \in Buyers |-> [endpoint |-> 0, push |-> "off"]]
    /\ alert = [b \in Buyers |-> [p \in Publications |-> "none"]]
    /\ heard = [b \in Buyers |-> 0]
    /\ link = [b \in Buyers |-> "off"]
    /\ shown = [b \in Buyers |-> 0]
    /\ poll = [b \in Buyers |-> [stage |-> "idle", got |-> 0]]
    /\ counter = [b \in Buyers |-> [count |-> 0, timed |-> FALSE]]
    /\ stopped = {}
    /\ rows = [b \in Buyers |-> [p \in Publications |-> 0]]
    /\ acking = [b \in Buyers |-> [p \in Publications |-> 0]]
    /\ sent = [b \in Buyers |-> 0]
    /\ doubled = {}

-----------------------------------------------------------------------------
(* Publishing.                                                             *)

Stage(p) == publish[p].stage
Published == {p \in Publications : Stage(p) \in {"alerting", "closing", "done", "dead"}
                                   /\ publish[p].price # 0}

(* The live publication: published_at is when its transaction began.       *)
Current == LET standing == Published \ superseded
           IN  IF standing = {} THEN 0 ELSE Max(standing)

Undecided == {p \in Publications : Stage(p) \in {"started", "decided"}}

Begin(p) ==
    /\ Stage(p) = "new"
    /\ p > 1 => Stage(p - 1) # "new"
    /\ publish' = [publish EXCEPT ![p].stage = "started"]
    /\ overlapped' = (overlapped \/ Undecided # {})
    /\ UNCHANGED <<awake, superseded, pushVars, link, shown, pollVars, ackVars>>

(* A mutant of Changed: only the species are compared, not their prices.   *)
ChangedSpecies(prior, price) == prior = 0

(* Whether there is something new for the buyers.                          *)
Changed(prior, price) == prior = 0 \/ publish[prior].price # price

Decide(p, price) ==
    /\ Stage(p) = "started"
    /\ publish' = [publish EXCEPT ![p].stage = "decided", ![p].price = price,
                       ![p].prior = Current, ![p].notified = Changed(Current, price)]
    /\ UNCHANGED <<awake, superseded, overlapped, pushVars, link, shown, pollVars, ackVars>>

(* A mutant of Superseding: the first publication supersedes nothing, too. *)
SupersedingNothing(p) == {publish[p].prior}

Superseding(p) == {publish[p].prior} \ {0}

(* The publication is there.  The phones with a working subscription are   *)
(* due an alert, if there is something new.                                *)
Commit(p) ==
    /\ Stage(p) = "decided"
    /\ publish' = [publish EXCEPT ![p].stage = "alerting",
                       ![p].todo = IF publish[p].notified THEN Buyers ELSE {}]
    /\ superseded' = superseded \cup Superseding(p)
    /\ alert' = [b \in Buyers |->
           IF publish[p].notified /\ phone[b].push = "on"
           THEN [alert[b] EXCEPT ![p] = "owed"] ELSE alert[b]]
    /\ UNCHANGED <<awake, overlapped, subscribed, phone, heard, link, shown, pollVars, ackVars>>

-----------------------------------------------------------------------------
(* Fan-out.                                                                *)

Works(b, e) == phone[b].push = "on" /\ phone[b].endpoint = e

(* A mutant of Prunable: whatever could not be sent to is dropped.         *)
PrunableOnFailure(b, works) == {e \in subscribed[b] : ~Works(b, e) \/ ~works}

(* The endpoints the push service answers 404 or 410 for.                  *)
Prunable(b, works) == {e \in subscribed[b] : ~Works(b, e)}

(* The pushes to one buyer, who hears them or, if the service fails for    *)
(* some other reason, does not.                                            *)
PushTo(p, b, works) ==
    LET reached == \E e \in subscribed[b] : Works(b, e)
    IN  /\ Stage(p) = "alerting"
        /\ b \in publish[p].todo
        /\ alert' = [alert EXCEPT ![b][p] =
               IF ~reached THEN @ ELSE IF works THEN "rung" ELSE "missed"]
        /\ heard' = IF reached /\ works THEN [heard EXCEPT ![b] = p] ELSE heard
        /\ publish' = [publish EXCEPT ![p].todo = @ \ {b},
                           ![p].gone = @ \cup ({b} \X Prunable(b, works))]
        /\ UNCHANGED <<awake, superseded, overlapped, subscribed, phone, link, shown,
                       pollVars, ackVars>>

(* The event goes to the sockets that listen; some of them break instead.  *)
Relay(p, broken) ==
    LET listening == {b \in Buyers : link[b] = "on"}
    IN  /\ Stage(p) = "alerting"
        /\ publish[p].todo = {}
        /\ broken \subseteq listening
        /\ publish' = [publish EXCEPT ![p].stage = "closing"]
        /\ shown' = [b \in Buyers |-> IF b \in listening \ broken THEN p ELSE shown[b]]
        /\ link' = [b \in Buyers |-> IF b \in broken THEN "off" ELSE link[b]]
        /\ UNCHANGED <<awake, superseded, overlapped, pushVars, pollVars, ackVars>>

(* The subscriptions found gone are deleted for good.                      *)
Close(p) ==
    /\ Stage(p) = "closing"
    /\ publish' = [publish EXCEPT ![p].stage = "done", ![p].gone = {}]
    /\ subscribed' = [b \in Buyers |-> {e \in subscribed[b] : <<b, e>> \notin publish[p].gone}]
    /\ UNCHANGED <<awake, superseded, overlapped, phone, alert, heard, link, shown,
                   pollVars, ackVars>>

(* The process stops.  What was not committed is gone; nobody resumes: who *)
(* had not been pushed to stays in todo for good.                          *)
Stop(p) ==
    /\ Stage(p) \in {"started", "decided", "alerting", "closing"}
    /\ publish' = [publish EXCEPT ![p].stage = "dead", ![p].gone = {},
                       ![p].price = IF p \in Published THEN @ ELSE 0]
    /\ UNCHANGED <<awake, superseded, overlapped, pushVars, link, shown, pollVars, ackVars>>

-----------------------------------------------------------------------------
(* Push subscriptions.                                                     *)

(* What a phone is due it misses, once its endpoint no longer works.       *)
Missed(b) == [alert EXCEPT ![b] =
    [p \in Publications |-> IF @[p] = "owed" THEN "missed" ELSE @[p]]]

(* The browser makes a new endpoint and tells the server.                  *)
Subscribe(b) ==
    /\ b \notin awake
    /\ phone[b].push # "on"
    /\ phone[b].endpoint < MaxEndpoints
    /\ phone' = [phone EXCEPT ![b].endpoint = @ + 1, ![b].push = "on"]
    /\ subscribed' = [subscribed EXCEPT ![b] = @ \cup {phone[b].endpoint + 1}]
    /\ UNCHANGED <<publishVars, alert, heard, link, shown, pollVars, ackVars>>

Unsubscribe(b) ==
    /\ phone[b].push = "on"
    /\ phone' = [phone EXCEPT ![b].push = "off"]
    /\ subscribed' = [subscribed EXCEPT ![b] = @ \ {phone[b].endpoint}]
    /\ alert' = Missed(b)
    /\ UNCHANGED <<publishVars, heard, link, shown, pollVars, ackVars>>

(* The push service drops the endpoint.                                    *)
Lapse(b) ==
    /\ phone[b].push = "on"
    /\ phone' = [phone EXCEPT ![b].push = "gone"]
    /\ alert' = Missed(b)
    /\ UNCHANGED <<publishVars, subscribed, heard, link, shown, pollVars, ackVars>>

-----------------------------------------------------------------------------
(* WebSocket.                                                              *)

(* A ticket is issued and consumed, the socket accepted, and only then the *)
(* server subscribes to the channel: whoever connects again has missed     *)
(* what was published meanwhile.                                           *)
Connect(b) ==
    /\ b \in awake
    /\ link[b] = "off"
    /\ link' = [link EXCEPT ![b] = "on"]
    /\ UNCHANGED <<publishVars, pushVars, shown, pollVars, ackVars>>

Break(b) ==
    /\ link[b] = "on"
    /\ link' = [link EXCEPT ![b] = "off"]
    /\ UNCHANGED <<publishVars, pushVars, shown, pollVars, ackVars>>

-----------------------------------------------------------------------------
(* Polling, through the rate limiter.                                      *)

(* INCR.  A count above the limit is a count above the limit.              *)
Count(b) ==
    LET count == Min({counter[b].count + 1, Limit + 1})
    IN  /\ b \in awake
        /\ poll[b].stage = "idle"
        /\ counter' = [counter EXCEPT ![b].count = count]
        /\ poll' = [poll EXCEPT ![b].stage =
               CASE count = 1 -> "counted"
                 [] count \in 2..Limit -> "admitted"
                 [] OTHER -> "idle"]
        /\ UNCHANGED <<publishVars, pushVars, link, shown, stopped, ackVars>>

(* A mutant of Armed: the counter is never given its time to live.         *)
ArmedForEver(key) == key

(* EXPIRE.                                                                 *)
Armed(key) == [key EXCEPT !.timed = TRUE]

Arm(b) ==
    /\ poll[b].stage = "counted"
    /\ counter' = [counter EXCEPT ![b] = Armed(@)]
    /\ poll' = [poll EXCEPT ![b].stage = "admitted"]
    /\ UNCHANGED <<publishVars, pushVars, link, shown, stopped, ackVars>>

(* The process stops between the two commands.                             *)
StopAmid(b) ==
    /\ poll[b].stage = "counted"
    /\ poll' = [poll EXCEPT ![b].stage = "idle"]
    /\ stopped' = stopped \cup {b}
    /\ UNCHANGED <<publishVars, pushVars, link, shown, counter, ackVars>>

(* The minute is over.                                                     *)
WindowEnds(b) ==
    /\ counter[b].timed
    /\ counter' = [counter EXCEPT ![b] = [count |-> 0, timed |-> FALSE]]
    /\ UNCHANGED <<publishVars, pushVars, link, shown, poll, stopped, ackVars>>

(* Without a live publication the answer is 404.                           *)
Read(b) ==
    /\ poll[b].stage = "admitted"
    /\ poll' = [poll EXCEPT ![b] =
           IF Current = 0 THEN [stage |-> "idle", got |-> 0]
           ELSE [stage |-> "answered", got |-> Current]]
    /\ UNCHANGED <<publishVars, pushVars, link, shown, counter, stopped, ackVars>>

Receive(b) ==
    /\ poll[b].stage = "answered"
    /\ shown' = [shown EXCEPT ![b] = poll[b].got]
    /\ poll' = [poll EXCEPT ![b] = [stage |-> "idle", got |-> 0]]
    /\ UNCHANGED <<publishVars, pushVars, link, counter, stopped, ackVars>>

LoseAnswer(b) ==
    /\ poll[b].stage = "answered"
    /\ poll' = [poll EXCEPT ![b] = [stage |-> "idle", got |-> 0]]
    /\ UNCHANGED <<publishVars, pushVars, link, shown, counter, stopped, ackVars>>

-----------------------------------------------------------------------------
(* Acknowledgements.                                                       *)

(* A mutant of FindsNone: every acknowledgement makes a row.               *)
FindsNoneEver(b, p) == TRUE

FindsNone(b, p) == rows[b][p] = 0

(* get_or_create.  A row that is there has been acknowledged before, for   *)
(* no other request commits one; two rows are an error.                    *)
BeginAck(b) ==
    LET p == shown[b]
    IN  /\ p # 0
        /\ sent[b] < MaxAcks
        /\ sent' = [sent EXCEPT ![b] = @ + 1]
        /\ acking' = IF FindsNone(b, p) THEN [acking EXCEPT ![b][p] = @ + 1] ELSE acking
        /\ doubled' = IF acking[b][p] > 0 THEN doubled \cup {<<b, p>>} ELSE doubled
        /\ UNCHANGED <<publishVars, pushVars, link, shown, pollVars, rows>>

CommitAck(b, p) ==
    /\ acking[b][p] > 0
    /\ acking' = [acking EXCEPT ![b][p] = @ - 1]
    /\ rows' = [rows EXCEPT ![b][p] = @ + 1]
    /\ UNCHANGED <<publishVars, pushVars, link, shown, pollVars, sent, doubled>>

LoseAck(b, p) ==
    /\ acking[b][p] > 0
    /\ acking' = [acking EXCEPT ![b][p] = @ - 1]
    /\ UNCHANGED <<publishVars, pushVars, link, shown, pollVars, rows, sent, doubled>>

-----------------------------------------------------------------------------

Next ==
    \/ \E p \in Publications :
           \/ Begin(p)
           \/ \E price \in Prices : Decide(p, price)
           \/ Commit(p)
           \/ \E b \in Buyers, works \in BOOLEAN : PushTo(p, b, works)
           \/ \E broken \in SUBSET Buyers : Relay(p, broken)
           \/ Close(p)
           \/ Stop(p)
    \/ \E b \in Buyers :
           \/ Subscribe(b)
           \/ Unsubscribe(b)
           \/ Lapse(b)
           \/ Connect(b)
           \/ Break(b)
           \/ Count(b)
           \/ Arm(b)
           \/ StopAmid(b)
           \/ WindowEnds(b)
           \/ Read(b)
           \/ Receive(b)
           \/ LoseAnswer(b)
           \/ BeginAck(b)
           \/ \E p \in Publications : CommitAck(b, p) \/ LoseAck(b, p)

Spec == Init /\ [][Next]_vars

(* The app polls on a timer, Redis expires keys, the server answers, and   *)
(* not every answer is lost.  Nothing is asked of the fan-out.             *)
FairSpec ==
    /\ Spec
    /\ \A b \in Buyers :
           /\ WF_vars(Count(b)) /\ WF_vars(Arm(b)) /\ WF_vars(Read(b))
           /\ WF_vars(WindowEnds(b))
           /\ SF_vars(Receive(b))

-----------------------------------------------------------------------------
(* Why a buyer's phone may not have last rung for a publication with a new *)
(* price.                                                                  *)
Excused(b, p) ==
    \/ b \in publish[p].todo    \* its turn has not come, or the process has stopped
    \/ alert[b][p] = "none"     \* no working subscription when it was published
    \/ alert[b][p] = "missed"   \* the endpoint ceased to work, or the service failed
    \/ alert[b][p] = "rung"     \* an older publication's alert came in after it

(* The last alert a phone rang for was about the live price, or else it is *)
(* excused for a publication with a new price since.  Same-price           *)
(* publications are silent, so a silent one must not be the first with its *)
(* price; and a fan-out must not pass over a phone that can hear it.  A    *)
(* process that stops after the commit (publications.py, publish) leaves   *)
(* phones that never learn of the price: silent publications of it do not  *)
(* make up for that.  Publish requests that overlapped are left aside.     *)
AlertsKeepUp ==
    \A b \in Buyers :
        (Current # 0 /\ ~overlapped) =>
            \/ heard[b] # 0 /\ publish[heard[b]].price = publish[Current].price
            \/ \E p \in Published :
                   p > heard[b] /\ publish[p].notified /\ Excused(b, p)

(* A phone that subscribed, and whose endpoint the push service honours,   *)
(* stays on file: failing to reach it is no reason to drop it, whichever   *)
(* fan-out prunes what (fan_out, delete_by_endpoint).                      *)
SubscriptionsSurvive ==
    \A b \in Buyers : phone[b].push = "on" => phone[b].endpoint \in subscribed[b]

(* One row per publication and buyer, unless two of the buyer's            *)
(* acknowledgements overlapped: no constraint of the table says so         *)
(* (DnbpPublicationDelivery, get_or_create).                               *)
OneRowUnlessTwice ==
    \A b \in Buyers, p \in Publications : rows[b][p] > 1 => <<b, p>> \in doubled

(* Whatever push, socket and fan-out have come to, in the end each phone   *)
(* shows the live publication and keeps showing it, unless the process     *)
(* stopped between the limiter's two commands, which locks the buyer out   *)
(* for ever (GET /buyer/dnbp/current, core.rate_limit.enforce).            *)
EventuallyShown ==
    \A b \in Buyers :
        b \in awake => <>[](shown[b] = Current) \/ <>(b \in stopped)
=============================================================================
