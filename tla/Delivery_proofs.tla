---------------------------- MODULE Delivery_proofs ----------------------------
(***************************************************************************)
(* What delivery promises for any number of buyers, publish requests,      *)
(* subscriptions and acknowledgements.                                     *)
(***************************************************************************)
EXTENDS Delivery, WellFoundedInduction, TLAPS

(* Any set of naturals up to some bound has a greatest one, and that is    *)
(* its Max.                                                                *)
LEMMA MaxIsGreatest ==
    ASSUME NEW n \in Nat, NEW T \in SUBSET (0..n), T # {}
    PROVE  /\ Max(T) \in T
           /\ \A y \in T : y <= Max(T)
           /\ \A x \in T : (\A y \in T : y <= x) => Max(T) = x
<1> DEFINE R == {ss \in Nat \X Nat : ss[1] < ss[2]}
           D == {n - x : x \in T}
<1>1. IsWellFoundedOn(R, Nat)
  BY NatLessThanWellFounded DEF OpToRel
<1>2. D \subseteq Nat /\ D # {}
  <2>1. \A x \in T : n - x \in Nat
    OBVIOUS
  <2> QED BY <2>1
<1>3. PICK d \in D : \A y \in D : ~(<<y, d>> \in R)
  <2> HIDE DEF R, D
  <2> QED BY <1>1, <1>2, WFMin
<1>4. PICK x \in T : d = n - x
  OBVIOUS
<1>5. ASSUME NEW y \in T
      PROVE  x >= y
  <2>1. <<n - y, d>> \in Nat \X Nat /\ ~(<<n - y, d>> \in R)
    BY <1>2, <1>3
  <2>2. ~(n - y < n - x)
    BY <1>4, <2>1
  <2> QED BY <2>2
<1>6. Max(T) \in T /\ \A y \in T : Max(T) >= y
  BY <1>5 DEF Max
<1>7. ASSUME NEW z \in T, \A y \in T : y <= z
      PROVE  Max(T) = z
  <2>1. PICK m \in T : m = Max(T)
    BY <1>6
  <2>2. m \in Nat /\ z \in Nat
    BY <1>7
  <2>3. m >= z /\ m <= z
    BY <1>6, <1>7, <2>1
  <2> QED BY <2>1, <2>2, <2>3
<1>8. \A y \in T : y <= Max(T)
  BY <1>6
<1> QED BY <1>6, <1>7, <1>8

-----------------------------------------------------------------------------
(* Typing.                                                                 *)

(* Each row, and each acknowledgement under way, is one that was sent.     *)
AcksWereSent ==
    \A b \in Buyers, p \in Publications : rows[b][p] + acking[b][p] <= sent[b]

Typing == TypeOK /\ AcksWereSent

LEMMA CurrentIsLast ==
    ASSUME TypeOK
    PROVE  /\ Current \in 0..MaxPublications
           /\ Published \ superseded = {} => Current = 0
           /\ Published \ superseded # {} =>
                  /\ Current \in Published \ superseded
                  /\ \A p \in Published \ superseded : p <= Current
<1> DEFINE standing == Published \ superseded
<1>1. standing \in SUBSET (0..MaxPublications) /\ MaxPublications \in Nat
  BY DeliveryAssumption DEF Published, Publications
<1>2. Current = IF standing = {} THEN 0 ELSE Max(standing)
  BY DEF Current
<1> HIDE DEF standing
<1>3. standing # {} => Max(standing) \in standing /\ \A p \in standing : p <= Max(standing)
  BY <1>1, MaxIsGreatest
<1> QED BY <1>1, <1>2, <1>3 DEF standing

(* A step that leaves everything else alone.                               *)
LEMMA TypingOfPublish ==
    ASSUME Typing, NEW p \in Publications, NEW what \in PublishRequest,
           publish' = [publish EXCEPT ![p] = what],
           awake' = awake, superseded' \subseteq Publications, overlapped' \in BOOLEAN,
           subscribed' \in [Buyers -> SUBSET Endpoints], phone' = phone,
           alert' \in [Buyers -> [Publications -> {"none", "owed", "rung", "missed"}]],
           heard' \in [Buyers -> 0..MaxPublications],
           link' \in [Buyers -> {"off", "on"}], shown' \in [Buyers -> 0..MaxPublications],
           UNCHANGED <<pollVars, ackVars>>
    PROVE  Typing'
BY DEF Typing, TypeOK, AcksWereSent, pollVars, ackVars

(* What becomes of the publish request an action is of, and of the others. *)
LEMMA PublishWritten ==
    ASSUME TypeOK, NEW p \in Publications, NEW what \in PublishRequest,
           publish' = [publish EXCEPT ![p] = what]
    PROVE  /\ publish'[p] = what
           /\ \A q \in Publications \ {p} : publish'[q] = publish[q]
BY DEF TypeOK

LEMMA TypingOfBegin ==
    ASSUME Typing, NEW p \in Publications, Begin(p)
    PROVE  /\ Typing'
           /\ publish'[p] = [publish[p] EXCEPT !.stage = "started"]
           /\ \A q \in Publications \ {p} : publish'[q] = publish[q]
<1>p. publish[p] \in PublishRequest /\ publish \in [Publications -> PublishRequest]
  BY DEF Typing, TypeOK
<1> DEFINE what == [publish[p] EXCEPT !.stage = "started"]
<1>1. what \in PublishRequest /\ publish' = [publish EXCEPT ![p] = what]
  <2>1. what \in PublishRequest
    BY <1>p DEF PublishRequest, Stages
  <2>2. publish' = [publish EXCEPT ![p] = what]
    BY <1>p DEF Begin
  <2> QED BY <2>1, <2>2
<1> HIDE DEF what
<1>2. /\ overlapped' \in BOOLEAN /\ superseded' = superseded /\ awake' = awake
      /\ UNCHANGED <<pushVars, link, shown, pollVars, ackVars>>
  BY DEF Begin, Typing, TypeOK
<1>3. Typing'
  BY <1>1, <1>2, TypingOfPublish DEF Typing, TypeOK, pushVars
<1> QED BY <1>1, <1>3, PublishWritten DEF Typing, what

LEMMA TypingOfDecide ==
    ASSUME Typing, NEW p \in Publications, NEW price \in Prices, Decide(p, price)
    PROVE  /\ Typing'
           /\ publish'[p] = [publish[p] EXCEPT !.stage = "decided", !.price = price,
                                !.prior = Current, !.notified = Changed(Current, price)]
           /\ \A q \in Publications \ {p} : publish'[q] = publish[q]
<1>p. publish[p] \in PublishRequest /\ publish \in [Publications -> PublishRequest]
  BY DEF Typing, TypeOK
<1>1. Current \in 0..MaxPublications /\ Changed(Current, price) \in BOOLEAN
  BY CurrentIsLast DEF Typing, Changed
<1> DEFINE current == Current
           changed == Changed(current, price)
<1>2. publish' = [publish EXCEPT ![p].stage = "decided", ![p].price = price,
                      ![p].prior = current, ![p].notified = changed]
  BY DEF Decide
<1>3. UNCHANGED <<awake, superseded, overlapped, pushVars, link, shown, pollVars, ackVars>>
  BY DEF Decide
<1> HIDE DEF current, changed
<1> DEFINE what == [publish[p] EXCEPT !.stage = "decided", !.price = price,
                                      !.prior = current, !.notified = changed]
<1>4. what \in PublishRequest /\ publish' = [publish EXCEPT ![p] = what]
  <2>1. what \in PublishRequest
    BY <1>1, <1>2, <1>p DEF current, changed, PublishRequest, Stages
  <2>2. publish' = [publish EXCEPT ![p] = what]
    BY <1>1, <1>2, <1>p
  <2> QED BY <2>1, <2>2
<1> HIDE DEF what
<1>5. Typing'
  BY <1>3, <1>4, TypingOfPublish DEF Typing, TypeOK, pushVars
<1> QED BY <1>4, <1>5, PublishWritten DEF Typing, current, changed, what

LEMMA TypingOfCommit ==
    ASSUME Typing, NEW p \in Publications, Commit(p)
    PROVE  /\ Typing'
           /\ publish'[p] = [publish[p] EXCEPT !.stage = "alerting",
                                !.todo = IF publish[p].notified THEN Buyers ELSE {}]
           /\ \A q \in Publications \ {p} : publish'[q] = publish[q]
           /\ \A b \in Buyers, q \in Publications :
                  alert'[b][q] = IF q = p /\ publish[p].notified /\ phone[b].push = "on"
                                 THEN "owed" ELSE alert[b][q]
<1>p. publish[p] \in PublishRequest /\ publish \in [Publications -> PublishRequest]
  BY DEF Typing, TypeOK
<1> DEFINE what == [publish[p] EXCEPT !.stage = "alerting",
                         !.todo = IF publish[p].notified THEN Buyers ELSE {}]
<1>1. what \in PublishRequest /\ publish' = [publish EXCEPT ![p] = what]
  <2>1. what \in PublishRequest
    BY <1>p DEF PublishRequest, Stages
  <2>2. publish' = [publish EXCEPT ![p] = what]
    BY <1>p DEF Commit
  <2> QED BY <2>1, <2>2
<1> HIDE DEF what
<1>2. superseded' \subseteq Publications
  BY DEF Commit, Superseding, Typing, TypeOK, PublishRequest, Publications
<1>3. /\ alert' \in [Buyers -> [Publications -> {"none", "owed", "rung", "missed"}]]
      /\ \A b \in Buyers, q \in Publications :
             alert'[b][q] = IF q = p /\ publish[p].notified /\ phone[b].push = "on"
                            THEN "owed" ELSE alert[b][q]
  BY DEF Commit, Typing, TypeOK
<1>4. UNCHANGED <<awake, overlapped, subscribed, phone, heard, link, shown, pollVars, ackVars>>
  BY DEF Commit
<1>5. Typing'
  BY <1>1, <1>2, <1>3, <1>4, TypingOfPublish DEF Typing, TypeOK
<1> QED BY <1>1, <1>3, <1>5, PublishWritten DEF Typing, what

(* What a push to a buyer finds to be pruned.                              *)
Dead(b, works) == {b} \X Prunable(b, works)

LEMMA TypingOfPushTo ==
    ASSUME Typing, NEW p \in Publications, NEW b \in Buyers, NEW works, PushTo(p, b, works)
    PROVE  Typing'
<1> DEFINE dead == Dead(b, works)
           reached == \E e \in subscribed[b] : Works(b, e)
<1>p. publish[p] \in PublishRequest /\ publish \in [Publications -> PublishRequest]
  BY DEF Typing, TypeOK
<1>1. dead \subseteq Buyers \X Endpoints
  BY DEF Dead, Prunable, Typing, TypeOK
<1>2. publish' = [publish EXCEPT ![p].todo = @ \ {b}, ![p].gone = @ \cup dead]
  BY DEF PushTo, Dead
<1>3. /\ alert' = [alert EXCEPT ![b][p] =
                   IF ~reached THEN @ ELSE IF works THEN "rung" ELSE "missed"]
      /\ heard' = IF reached /\ works THEN [heard EXCEPT ![b] = p] ELSE heard
  BY DEF PushTo
<1> HIDE DEF dead, reached
<1> DEFINE what == [publish[p] EXCEPT !.todo = @ \ {b}, !.gone = @ \cup dead]
<1>4. what \in PublishRequest /\ publish' = [publish EXCEPT ![p] = what]
  <2>1. what \in PublishRequest
    BY <1>1, <1>p DEF PublishRequest
  <2>2. publish' = [publish EXCEPT ![p] = what]
    BY <1>2, <1>p
  <2> QED BY <2>1, <2>2
<1> HIDE DEF what
<1>5. /\ alert' \in [Buyers -> [Publications -> {"none", "owed", "rung", "missed"}]]
      /\ heard' \in [Buyers -> 0..MaxPublications]
  BY <1>3, DeliveryAssumption DEF Typing, TypeOK, Publications
<1>6. UNCHANGED <<awake, superseded, overlapped, subscribed, phone, link, shown, pollVars, ackVars>>
  BY DEF PushTo
<1> QED BY <1>4, <1>5, <1>6, TypingOfPublish DEF Typing, TypeOK

LEMMA TypingOfRelay ==
    ASSUME Typing, NEW p \in Publications, NEW broken \in SUBSET Buyers, Relay(p, broken)
    PROVE  /\ Typing'
           /\ publish'[p] = [publish[p] EXCEPT !.stage = "closing"]
           /\ \A q \in Publications \ {p} : publish'[q] = publish[q]
<1>p. publish[p] \in PublishRequest /\ publish \in [Publications -> PublishRequest]
  BY DEF Typing, TypeOK
<1> DEFINE what == [publish[p] EXCEPT !.stage = "closing"]
<1>1. what \in PublishRequest /\ publish' = [publish EXCEPT ![p] = what]
  <2>1. what \in PublishRequest
    BY <1>p DEF PublishRequest, Stages
  <2>2. publish' = [publish EXCEPT ![p] = what]
    BY <1>p DEF Relay
  <2> QED BY <2>1, <2>2
<1> HIDE DEF what
<1>2. shown' \in [Buyers -> 0..MaxPublications] /\ link' \in [Buyers -> {"off", "on"}]
  BY DeliveryAssumption DEF Relay, Typing, TypeOK, Publications
<1>3. UNCHANGED <<awake, superseded, overlapped, pushVars, pollVars, ackVars>>
  BY DEF Relay
<1>4. Typing'
  BY <1>1, <1>2, <1>3, TypingOfPublish DEF Typing, TypeOK, pushVars
<1> QED BY <1>1, <1>4, PublishWritten DEF Typing, what

LEMMA TypingOfClose ==
    ASSUME Typing, NEW p \in Publications, Close(p)
    PROVE  /\ Typing'
           /\ publish'[p] = [publish[p] EXCEPT !.stage = "done", !.gone = {}]
           /\ \A q \in Publications \ {p} : publish'[q] = publish[q]
           /\ \A b \in Buyers :
                  subscribed'[b] = {e \in subscribed[b] : <<b, e>> \notin publish[p].gone}
<1>p. publish[p] \in PublishRequest /\ publish \in [Publications -> PublishRequest]
  BY DEF Typing, TypeOK
<1> DEFINE what == [publish[p] EXCEPT !.stage = "done", !.gone = {}]
<1>1. what \in PublishRequest /\ publish' = [publish EXCEPT ![p] = what]
  <2>1. what \in PublishRequest
    BY <1>p DEF PublishRequest, Stages
  <2>2. publish' = [publish EXCEPT ![p] = what]
    BY <1>p DEF Close
  <2> QED BY <2>1, <2>2
<1> HIDE DEF what
<1>2. /\ subscribed' \in [Buyers -> SUBSET Endpoints]
      /\ \A b \in Buyers :
             subscribed'[b] = {e \in subscribed[b] : <<b, e>> \notin publish[p].gone}
  BY DEF Close, Typing, TypeOK
<1>3. UNCHANGED <<awake, superseded, overlapped, phone, alert, heard, link, shown,
                  pollVars, ackVars>>
  BY DEF Close
<1>4. Typing'
  BY <1>1, <1>2, <1>3, TypingOfPublish DEF Typing, TypeOK
<1> QED BY <1>1, <1>2, <1>4, PublishWritten DEF Typing, what

LEMMA TypingOfStop ==
    ASSUME Typing, NEW p \in Publications, Stop(p)
    PROVE  /\ Typing'
           /\ publish'[p] = [publish[p] EXCEPT !.stage = "dead", !.gone = {},
                                !.price = IF p \in Published THEN @ ELSE 0]
           /\ \A q \in Publications \ {p} : publish'[q] = publish[q]
<1>p. publish[p] \in PublishRequest /\ publish \in [Publications -> PublishRequest]
  BY DEF Typing, TypeOK
<1> DEFINE out == p \in Published
<1>1. publish' = [publish EXCEPT ![p].stage = "dead", ![p].gone = {},
                      ![p].price = IF out THEN @ ELSE 0]
  BY DEF Stop
<1> HIDE DEF out
<1> DEFINE what == [publish[p] EXCEPT !.stage = "dead", !.gone = {},
                                      !.price = IF out THEN @ ELSE 0]
<1>2. what \in PublishRequest /\ publish' = [publish EXCEPT ![p] = what]
  <2>1. what \in PublishRequest
    BY <1>1, <1>p DEF PublishRequest, Stages
  <2>2. publish' = [publish EXCEPT ![p] = what]
    BY <1>1, <1>p
  <2> QED BY <2>1, <2>2
<1> HIDE DEF what
<1>3. UNCHANGED <<awake, superseded, overlapped, pushVars, link, shown, pollVars, ackVars>>
  BY DEF Stop
<1>4. Typing'
  BY <1>2, <1>3, TypingOfPublish DEF Typing, TypeOK, pushVars
<1> QED BY <1>2, <1>4, PublishWritten DEF Typing, out, what

(* A step that leaves the publish requests alone.                          *)
LEMMA TypingOfPush ==
    ASSUME Typing, NEW b \in Buyers, Subscribe(b) \/ Unsubscribe(b) \/ Lapse(b)
    PROVE  /\ Typing' /\ UNCHANGED <<publishVars, heard>>
           /\ \A c \in Buyers \ {b} : phone'[c] = phone[c] /\ subscribed'[c] = subscribed[c]
           /\ \/ /\ phone[b].push # "on" /\ phone'[b].push = "on"
                 /\ phone'[b].endpoint = phone[b].endpoint + 1
                 /\ subscribed'[b] = subscribed[b] \cup {phone'[b].endpoint}
                 /\ alert' = alert
              \/ /\ phone'[b].push # "on" /\ phone'[b].endpoint = phone[b].endpoint
                 /\ subscribed'[b] \subseteq subscribed[b]
                 /\ \A p \in Publications : alert'[b][p] # "owed"
                 /\ \A c \in Buyers \ {b} : alert'[c] = alert[c]
<1>t. /\ phone \in [Buyers -> [endpoint : 0..MaxEndpoints, push : {"off", "on", "gone"}]]
      /\ subscribed \in [Buyers -> SUBSET Endpoints]
      /\ alert \in [Buyers -> [Publications -> {"none", "owed", "rung", "missed"}]]
      /\ MaxEndpoints \in Nat
  BY DeliveryAssumption DEF Typing, TypeOK
<1> DEFINE Shape(ph, s, a) ==
             /\ ph \in [Buyers -> [endpoint : 0..MaxEndpoints, push : {"off", "on", "gone"}]]
             /\ s \in [Buyers -> SUBSET Endpoints]
             /\ a \in [Buyers -> [Publications -> {"none", "owed", "rung", "missed"}]]
<1>1. ASSUME UNCHANGED <<publishVars, heard, link, shown, pollVars, ackVars>>,
             Shape(phone', subscribed', alert')
      PROVE  Typing'
  BY <1>1 DEF Typing, TypeOK, AcksWereSent, publishVars, pollVars, ackVars
<1>m. ASSUME alert' = Missed(b)
      PROVE  /\ alert' \in [Buyers -> [Publications -> {"none", "owed", "rung", "missed"}]]
             /\ \A p \in Publications : alert'[b][p] # "owed"
             /\ \A c \in Buyers \ {b} : alert'[c] = alert[c]
  BY <1>m, <1>t DEF Missed
<1>2. CASE Subscribe(b)
  <2>1. /\ phone[b].push # "on" /\ phone[b].endpoint < MaxEndpoints
        /\ phone' = [phone EXCEPT ![b].endpoint = @ + 1, ![b].push = "on"]
        /\ subscribed' = [subscribed EXCEPT ![b] = @ \cup {phone[b].endpoint + 1}]
        /\ UNCHANGED <<publishVars, alert, heard, link, shown, pollVars, ackVars>>
    BY <1>2 DEF Subscribe
  <2>2. phone[b].endpoint + 1 \in Endpoints
    BY <1>t, <2>1 DEF Endpoints
  <2>3. Shape(phone', subscribed', alert')
    BY <1>t, <2>1, <2>2 DEF Endpoints
  <2>4. /\ phone'[b].push = "on" /\ phone'[b].endpoint = phone[b].endpoint + 1
        /\ subscribed'[b] = subscribed[b] \cup {phone'[b].endpoint}
        /\ \A c \in Buyers \ {b} : phone'[c] = phone[c] /\ subscribed'[c] = subscribed[c]
    BY <1>t, <2>1
  <2> HIDE DEF Shape
  <2> QED BY <1>1, <2>1, <2>3, <2>4
<1>3. CASE Unsubscribe(b) \/ Lapse(b)
  <2>1. /\ \/ phone' = [phone EXCEPT ![b].push = "off"]
           \/ phone' = [phone EXCEPT ![b].push = "gone"]
        /\ \/ subscribed' = [subscribed EXCEPT ![b] = @ \ {phone[b].endpoint}]
           \/ subscribed' = subscribed
        /\ alert' = Missed(b)
        /\ UNCHANGED <<publishVars, heard, link, shown, pollVars, ackVars>>
    BY <1>3 DEF Unsubscribe, Lapse
  <2>2. Shape(phone', subscribed', alert')
    <3>1. phone' \in [Buyers -> [endpoint : 0..MaxEndpoints, push : {"off", "on", "gone"}]]
      BY <1>t, <2>1
    <3>2. subscribed' \in [Buyers -> SUBSET Endpoints]
      BY <1>t, <2>1
    <3> QED BY <1>m, <2>1, <3>1, <3>2
  <2>3. /\ phone'[b].push # "on" /\ phone'[b].endpoint = phone[b].endpoint
        /\ subscribed'[b] \subseteq subscribed[b]
        /\ \A c \in Buyers \ {b} : phone'[c] = phone[c] /\ subscribed'[c] = subscribed[c]
    BY <1>t, <2>1
  <2> HIDE DEF Shape
  <2> QED BY <1>1, <1>m, <2>1, <2>2, <2>3
<1> QED BY <1>2, <1>3

(* The sockets and the polls.                                              *)
Listens(b) ==
    \/ Connect(b) \/ Break(b) \/ Count(b) \/ Arm(b) \/ StopAmid(b) \/ WindowEnds(b)
    \/ Read(b) \/ Receive(b) \/ LoseAnswer(b)

LEMMA TypingOfPolls ==
    ASSUME Typing, NEW b \in Buyers, Listens(b)
    PROVE  Typing' /\ UNCHANGED <<publishVars, pushVars, ackVars>>
<1>t. /\ link \in [Buyers -> {"off", "on"}] /\ shown \in [Buyers -> 0..MaxPublications]
      /\ poll \in [Buyers -> [stage : {"idle", "counted", "admitted", "answered"},
                              got : 0..MaxPublications]]
      /\ counter \in [Buyers -> [count : 0..Limit + 1, timed : BOOLEAN]]
      /\ stopped \subseteq Buyers
      /\ Limit \in Nat /\ MaxPublications \in Nat
  BY DeliveryAssumption DEF Typing, TypeOK
<1> DEFINE Shape ==
             /\ link' \in [Buyers -> {"off", "on"}] /\ shown' \in [Buyers -> 0..MaxPublications]
             /\ poll' \in [Buyers -> [stage : {"idle", "counted", "admitted", "answered"},
                                      got : 0..MaxPublications]]
             /\ counter' \in [Buyers -> [count : 0..Limit + 1, timed : BOOLEAN]]
             /\ stopped' \subseteq Buyers
<1>1. UNCHANGED <<publishVars, pushVars, ackVars>>
  BY DEF Listens, Connect, Break, Count, Arm, StopAmid, WindowEnds, Read, Receive, LoseAnswer
<1>2. ASSUME Shape PROVE Typing'
  BY <1>1, <1>2 DEF Typing, TypeOK, AcksWereSent, publishVars, pushVars, ackVars
<1>3. CASE Count(b)
  <2> DEFINE T == {counter[b].count + 1, Limit + 1}
             count == Min(T)
  <2>1. counter[b].count + 1 \in Nat /\ Limit + 1 \in Nat
    BY <1>t
  <2>2. \E x \in T : \A y \in T : x =< y
    BY <2>1
  <2>3. count \in T /\ \A y \in T : count =< y
    BY <2>2 DEF Min
  <2>4. count \in 0..Limit + 1
    BY <1>t, <2>1, <2>3
  <2>5. /\ counter' = [counter EXCEPT ![b].count = count]
        /\ poll' = [poll EXCEPT ![b].stage = CASE count = 1 -> "counted"
                                               [] count \in 2..Limit -> "admitted"
                                               [] OTHER -> "idle"]
        /\ UNCHANGED <<link, shown, stopped>>
    BY <1>3 DEF Count
  <2> HIDE DEF count
  <2>6. (CASE count = 1 -> "counted" [] count \in 2..Limit -> "admitted" [] OTHER -> "idle")
            \in {"counted", "admitted", "idle"}
    BY <1>t
  <2>7. counter' \in [Buyers -> [count : 0..Limit + 1, timed : BOOLEAN]]
    BY <1>t, <2>4, <2>5
  <2>8. poll' \in [Buyers -> [stage : {"idle", "counted", "admitted", "answered"},
                              got : 0..MaxPublications]]
    <3> DEFINE st == CASE count = 1 -> "counted" [] count \in 2..Limit -> "admitted"
                       [] OTHER -> "idle"
    <3>1. poll' = [poll EXCEPT ![b].stage = st] /\ st \in {"counted", "admitted", "idle"}
      BY <2>5, <2>6
    <3> HIDE DEF st
    <3> QED BY <1>t, <3>1
  <2>9. Shape
    BY <1>t, <2>5, <2>7, <2>8
  <2> HIDE DEF Shape
  <2> QED BY <1>1, <1>2, <2>9
<1>4. CASE Read(b)
  <2>1. Current \in 0..MaxPublications
    BY CurrentIsLast DEF Typing
  <2> DEFINE current == Current
  <2>2. /\ poll' = [poll EXCEPT ![b] = IF current = 0 THEN [stage |-> "idle", got |-> 0]
                                       ELSE [stage |-> "answered", got |-> current]]
        /\ UNCHANGED <<link, shown, counter, stopped>>
    BY <1>4 DEF Read
  <2> HIDE DEF current
  <2>3. Shape
    BY <1>t, <2>1, <2>2 DEF current
  <2> HIDE DEF Shape
  <2> QED BY <1>1, <1>2, <2>3
<1>5. CASE Connect(b) \/ Break(b)
  <2>1. Shape
    BY <1>t, <1>5 DEF Connect, Break, pollVars
  <2> HIDE DEF Shape
  <2> QED BY <1>1, <1>2, <2>1
<1>6. CASE Arm(b)
  <2>1. /\ counter' = [counter EXCEPT ![b].timed = TRUE]
        /\ poll' = [poll EXCEPT ![b].stage = "admitted"]
        /\ UNCHANGED <<link, shown, stopped>>
    BY <1>6 DEF Arm, Armed
  <2>2. counter' \in [Buyers -> [count : 0..Limit + 1, timed : BOOLEAN]]
    BY <1>t, <2>1
  <2>3. poll' \in [Buyers -> [stage : {"idle", "counted", "admitted", "answered"},
                              got : 0..MaxPublications]]
    BY <1>t, <2>1
  <2>4. Shape
    BY <1>t, <2>1, <2>2, <2>3
  <2> HIDE DEF Shape
  <2> QED BY <1>1, <1>2, <2>4
<1>9. CASE StopAmid(b)
  <2>1. /\ poll' = [poll EXCEPT ![b].stage = "idle"] /\ stopped' = stopped \cup {b}
        /\ UNCHANGED <<link, shown, counter>>
    BY <1>9 DEF StopAmid
  <2>2. poll' \in [Buyers -> [stage : {"idle", "counted", "admitted", "answered"},
                              got : 0..MaxPublications]]
    BY <1>t, <2>1
  <2>3. Shape
    BY <1>t, <2>1, <2>2
  <2> HIDE DEF Shape
  <2> QED BY <1>1, <1>2, <2>3
<1>7. CASE WindowEnds(b)
  <2>1. Shape
    BY <1>t, <1>7 DEF WindowEnds
  <2> HIDE DEF Shape
  <2> QED BY <1>1, <1>2, <2>1
<1>8. CASE Receive(b) \/ LoseAnswer(b)
  <2>1. poll' \in [Buyers -> [stage : {"idle", "counted", "admitted", "answered"},
                              got : 0..MaxPublications]]
    BY <1>t, <1>8 DEF Receive, LoseAnswer
  <2>2. poll[b].got \in 0..MaxPublications
    BY <1>t
  <2>3. shown' \in [Buyers -> 0..MaxPublications]
    BY <1>t, <1>8, <2>2 DEF Receive, LoseAnswer
  <2>4. Shape
    BY <1>t, <1>8, <2>1, <2>3 DEF Receive, LoseAnswer
  <2> HIDE DEF Shape
  <2> QED BY <1>1, <1>2, <2>4
<1> QED BY <1>3, <1>4, <1>5, <1>6, <1>7, <1>8, <1>9 DEF Listens

LEMMA CellWritten ==
    ASSUME NEW X, NEW Y, NEW S, NEW f \in [X -> [Y -> S]], NEW x \in X, NEW y \in Y, NEW v \in S
    PROVE  LET g == [f EXCEPT ![x][y] = v]
           IN  /\ g \in [X -> [Y -> S]]
               /\ \A a \in X, c \in Y : g[a][c] = IF a = x /\ c = y THEN v ELSE f[a][c]
OBVIOUS

LEMMA TypingOfAcks ==
    ASSUME Typing, NEW b \in Buyers,
           BeginAck(b) \/ \E p \in Publications : CommitAck(b, p) \/ LoseAck(b, p)
    PROVE  Typing' /\ UNCHANGED <<publishVars, pushVars>>
<1>t. /\ rows \in [Buyers -> [Publications -> 0..MaxAcks]]
      /\ acking \in [Buyers -> [Publications -> 0..MaxAcks]]
      /\ sent \in [Buyers -> 0..MaxAcks]
      /\ doubled \subseteq Buyers \X Publications
      /\ shown \in [Buyers -> 0..MaxPublications]
      /\ MaxAcks \in Nat /\ MaxPublications \in Nat
      /\ \A c \in Buyers, q \in Publications : rows[c][q] + acking[c][q] <= sent[c]
  BY DeliveryAssumption DEF Typing, TypeOK, AcksWereSent
<1>1. UNCHANGED <<publishVars, pushVars, link, shown, pollVars>>
  BY DEF BeginAck, CommitAck, LoseAck
<1> DEFINE Shape ==
             /\ rows' \in [Buyers -> [Publications -> 0..MaxAcks]]
             /\ acking' \in [Buyers -> [Publications -> 0..MaxAcks]]
             /\ sent' \in [Buyers -> 0..MaxAcks]
             /\ doubled' \subseteq Buyers \X Publications
             /\ \A c \in Buyers, q \in Publications : rows'[c][q] + acking'[c][q] <= sent'[c]
<1>2. ASSUME Shape PROVE Typing'
  BY <1>1, <1>2 DEF Typing, TypeOK, AcksWereSent, publishVars, pushVars, pollVars
<1>3. ASSUME BeginAck(b) PROVE Shape
  <2> DEFINE p == shown[b]
  <2>1. /\ p # 0 /\ sent[b] < MaxAcks /\ rows' = rows
        /\ sent' = [sent EXCEPT ![b] = @ + 1]
        /\ acking' = acking \/ acking' = [acking EXCEPT ![b][p] = @ + 1]
        /\ doubled' = doubled \/ doubled' = doubled \cup {<<b, p>>}
    BY <1>3 DEF BeginAck
  <2>2. p \in Publications
    BY <1>t, <2>1 DEF Publications
  <2> HIDE DEF p
  <2>3. acking[b][p] + 1 \in 0..MaxAcks /\ sent[b] + 1 \in 0..MaxAcks
    BY <1>t, <2>1, <2>2
  <2>4. /\ acking' \in [Buyers -> [Publications -> 0..MaxAcks]]
        /\ \A c \in Buyers, q \in Publications :
               \/ acking'[c][q] = acking[c][q]
               \/ acking'[c][q] = acking[c][q] + 1 /\ c = b
    <3>1. CASE acking' = acking
      BY <1>t, <3>1
    <3>2. CASE acking' = [acking EXCEPT ![b][p] = acking[b][p] + 1]
      <4> DEFINE v == acking[b][p] + 1
      <4>1. /\ acking' = [acking EXCEPT ![b][p] = v] /\ v \in 0..MaxAcks
            /\ acking \in [Buyers -> [Publications -> 0..MaxAcks]]
        BY <1>t, <2>3, <3>2
      <4> HIDE DEF v
      <4>2. /\ acking' \in [Buyers -> [Publications -> 0..MaxAcks]]
            /\ \A c \in Buyers, q \in Publications :
                   acking'[c][q] = IF c = b /\ q = p THEN v ELSE acking[c][q]
        BY ONLY <2>2, <4>1, CellWritten, b \in Buyers
      <4> QED BY <4>2 DEF v
    <3> QED BY <2>1, <3>1, <3>2
  <2>6. sent' \in [Buyers -> 0..MaxAcks]
    BY <1>t, <2>1, <2>3
  <2>5. ASSUME NEW c \in Buyers, NEW q \in Publications
        PROVE  rows'[c][q] + acking'[c][q] <= sent'[c]
    <3>1. /\ rows[c][q] \in Nat /\ acking[c][q] \in Nat /\ sent[c] \in Nat
          /\ rows[c][q] + acking[c][q] <= sent[c]
      BY <1>t
    <3>2. /\ rows'[c][q] = rows[c][q]
          /\ sent'[c] = IF c = b THEN sent[c] + 1 ELSE sent[c]
          /\ \/ acking'[c][q] = acking[c][q]
             \/ acking'[c][q] = acking[c][q] + 1 /\ c = b
      BY <1>t, <2>1, <2>2, <2>4
    <3> QED BY <3>1, <3>2
  <2> QED BY <1>t, <2>1, <2>2, <2>4, <2>5, <2>6
<1>4. ASSUME NEW p \in Publications, CommitAck(b, p) \/ LoseAck(b, p) PROVE Shape
  <2>1. /\ acking[b][p] > 0 /\ sent' = sent /\ doubled' = doubled
        /\ acking' = [acking EXCEPT ![b][p] = @ - 1]
        /\ rows' = rows \/ rows' = [rows EXCEPT ![b][p] = @ + 1]
    BY <1>4 DEF CommitAck, LoseAck
  <2>2. /\ rows[b][p] \in Nat /\ acking[b][p] \in Nat /\ sent[b] \in Nat /\ sent[b] <= MaxAcks
        /\ rows[b][p] + acking[b][p] <= sent[b] /\ acking[b][p] <= MaxAcks
    BY <1>t
  <2>3. rows[b][p] + 1 \in 0..MaxAcks /\ acking[b][p] - 1 \in 0..MaxAcks
    BY <1>t, <2>1, <2>2
  <2>4. /\ acking' \in [Buyers -> [Publications -> 0..MaxAcks]]
        /\ \A c \in Buyers, q \in Publications :
               acking'[c][q] = IF c = b /\ q = p THEN acking[c][q] - 1 ELSE acking[c][q]
    <3> DEFINE v == acking[b][p] - 1
    <3>1. acking' = [acking EXCEPT ![b][p] = v] /\ v \in 0..MaxAcks
      BY <2>1, <2>3
    <3>2. acking \in [Buyers -> [Publications -> 0..MaxAcks]]
      BY <1>t
    <3> HIDE DEF v
    <3>3. /\ acking' \in [Buyers -> [Publications -> 0..MaxAcks]]
          /\ \A c \in Buyers, q \in Publications :
                 acking'[c][q] = IF c = b /\ q = p THEN v ELSE acking[c][q]
      BY ONLY <3>1, <3>2, CellWritten, b \in Buyers, p \in Publications
    <3> QED BY <3>3 DEF v
  <2>6. /\ rows' \in [Buyers -> [Publications -> 0..MaxAcks]]
        /\ \A c \in Buyers, q \in Publications :
               \/ rows'[c][q] = rows[c][q]
               \/ rows'[c][q] = rows[c][q] + 1 /\ c = b /\ q = p
    <3>1. CASE rows' = rows
      BY <1>t, <3>1
    <3>2. CASE rows' = [rows EXCEPT ![b][p] = rows[b][p] + 1]
      <4> DEFINE v == rows[b][p] + 1
      <4>1. /\ rows' = [rows EXCEPT ![b][p] = v] /\ v \in 0..MaxAcks
            /\ rows \in [Buyers -> [Publications -> 0..MaxAcks]]
        BY <1>t, <2>3, <3>2
      <4> HIDE DEF v
      <4>2. /\ rows' \in [Buyers -> [Publications -> 0..MaxAcks]]
            /\ \A c \in Buyers, q \in Publications :
                   rows'[c][q] = IF c = b /\ q = p THEN v ELSE rows[c][q]
        BY ONLY <4>1, CellWritten, b \in Buyers, p \in Publications
      <4> QED BY <4>2 DEF v
    <3> QED BY <2>1, <3>1, <3>2
  <2>5. ASSUME NEW c \in Buyers, NEW q \in Publications
        PROVE  rows'[c][q] + acking'[c][q] <= sent'[c]
    <3>1. /\ rows[c][q] \in Nat /\ acking[c][q] \in Nat /\ sent[c] \in Nat
          /\ rows[c][q] + acking[c][q] <= sent[c]
      BY <1>t
    <3>2. /\ sent'[c] = sent[c]
          /\ \/ rows'[c][q] = rows[c][q] /\ acking'[c][q] = acking[c][q]
             \/ rows'[c][q] \in {rows[c][q], rows[c][q] + 1} /\ acking'[c][q] = acking[c][q] - 1
      BY <2>1, <2>4, <2>6
    <3> QED BY <3>1, <3>2
  <2> QED BY <1>t, <2>1, <2>4, <2>5, <2>6
<1> HIDE DEF Shape
<1> QED BY <1>1, <1>2, <1>3, <1>4

(* The actions, by what they change.                                       *)
Publishes(p) ==
    \/ Begin(p)
    \/ \E price \in Prices : Decide(p, price)
    \/ Commit(p)
    \/ \E b \in Buyers, works \in BOOLEAN : PushTo(p, b, works)
    \/ \E broken \in SUBSET Buyers : Relay(p, broken)
    \/ Close(p)
    \/ Stop(p)

Subscribes(b) == Subscribe(b) \/ Unsubscribe(b) \/ Lapse(b)

Acknowledges(b) == BeginAck(b) \/ \E p \in Publications : CommitAck(b, p) \/ LoseAck(b, p)

LEMMA NextByPart ==
    Next <=> \/ \E p \in Publications : Publishes(p)
             \/ \E b \in Buyers : Subscribes(b) \/ Listens(b) \/ Acknowledges(b)
BY DEF Next, Publishes, Subscribes, Listens, Acknowledges

LEMMA TypingHolds ==
    ASSUME Typing, [Next]_vars
    PROVE  Typing'
<1>1. ASSUME NEW p \in Publications, Publishes(p) PROVE Typing'
  BY <1>1, TypingOfBegin, TypingOfDecide, TypingOfCommit, TypingOfPushTo, TypingOfRelay,
     TypingOfClose, TypingOfStop DEF Publishes
<1>2. ASSUME NEW b \in Buyers, Subscribes(b) \/ Listens(b) \/ Acknowledges(b) PROVE Typing'
  BY <1>2, TypingOfPush, TypingOfPolls, TypingOfAcks DEF Subscribes, Acknowledges
<1>3. CASE UNCHANGED vars
  BY <1>3 DEF vars, publishVars, pushVars, pollVars, ackVars, Typing, TypeOK, AcksWereSent
<1> QED BY <1>1, <1>2, <1>3, NextByPart

LEMMA FirstTyping == Init => Typing
<1> SUFFICES ASSUME Init PROVE Typing
  OBVIOUS
<1>1. publish \in [Publications -> PublishRequest]
  BY DeliveryAssumption DEF Init, PublishRequest, Stages
<1>2. /\ alert \in [Buyers -> [Publications -> {"none", "owed", "rung", "missed"}]]
      /\ rows \in [Buyers -> [Publications -> 0..MaxAcks]]
      /\ acking \in [Buyers -> [Publications -> 0..MaxAcks]]
      /\ sent \in [Buyers -> 0..MaxAcks]
      /\ AcksWereSent
  BY DeliveryAssumption DEF Init, AcksWereSent
<1>3. /\ awake \subseteq Buyers /\ superseded \subseteq Publications /\ overlapped \in BOOLEAN
      /\ stopped \subseteq Buyers /\ doubled \subseteq Buyers \X Publications
      /\ subscribed \in [Buyers -> SUBSET Endpoints] /\ link \in [Buyers -> {"off", "on"}]
  BY DEF Init
<1>6. phone \in [Buyers -> [endpoint : 0..MaxEndpoints, push : {"off", "on", "gone"}]]
  BY DeliveryAssumption DEF Init
<1>7. shown \in [Buyers -> 0..MaxPublications] /\ heard \in [Buyers -> 0..MaxPublications]
  BY DeliveryAssumption DEF Init
<1>4. poll \in [Buyers -> [stage : {"idle", "counted", "admitted", "answered"},
                           got : 0..MaxPublications]]
  BY DeliveryAssumption DEF Init
<1>5. counter \in [Buyers -> [count : 0..Limit + 1, timed : BOOLEAN]]
  BY DeliveryAssumption DEF Init
<1> QED BY <1>1, <1>2, <1>3, <1>4, <1>5, <1>6, <1>7 DEF Typing, TypeOK

(* Counters, rows, subscriptions and publish requests have their shape,    *)
(* and no buyer has more rows than acknowledgements sent                   *)
(* (DnbpPublicationDelivery, PushSubscription, core.rate_limit.enforce).   *)
THEOREM TypesHold == Spec => []TypeOK
<1>1. Typing /\ [Next]_vars => Typing'
  BY TypingHolds
<1>2. Typing => TypeOK
  BY DEF Typing
<1> QED BY FirstTyping, <1>1, <1>2, PTL DEF Spec

-----------------------------------------------------------------------------
(* Acknowledgements.                                                       *)

OneAtATime ==
    \A b \in Buyers, p \in Publications :
        <<b, p>> \in doubled \/ rows[b][p] + acking[b][p] <= 1

LEMMA AcksStayOne ==
    ASSUME Typing, OneAtATime, NEW b \in Buyers, Acknowledges(b)
    PROVE  OneAtATime'
<1>t. /\ rows \in [Buyers -> [Publications -> Nat]] /\ acking \in [Buyers -> [Publications -> Nat]]
      /\ shown \in [Buyers -> 0..MaxPublications] /\ MaxPublications \in Nat
  BY DeliveryAssumption DEF Typing, TypeOK
<1> SUFFICES ASSUME NEW c \in Buyers, NEW q \in Publications
             PROVE  <<c, q>> \in doubled' \/ rows'[c][q] + acking'[c][q] <= 1
  BY DEF OneAtATime
<1>1. /\ rows[c][q] \in Nat /\ acking[c][q] \in Nat
      /\ <<c, q>> \in doubled \/ rows[c][q] + acking[c][q] <= 1
  BY <1>t DEF OneAtATime
<1>2. CASE BeginAck(b)
  <2> DEFINE p == shown[b]
  <2>1. /\ p \in Publications /\ rows' = rows
        /\ acking' = IF rows[b][p] = 0 THEN [acking EXCEPT ![b][p] = @ + 1] ELSE acking
        /\ doubled' = IF acking[b][p] > 0 THEN doubled \cup {<<b, p>>} ELSE doubled
    BY <1>2, <1>t DEF BeginAck, FindsNone, Publications
  <2> HIDE DEF p
  <2>2. CASE c = b /\ q = p
    <3>1. acking'[c][q] = IF rows[c][q] = 0 THEN acking[c][q] + 1 ELSE acking[c][q]
      BY <1>t, <2>1, <2>2
    <3>2. acking[c][q] > 0 => <<c, q>> \in doubled'
      BY <2>1, <2>2
    <3>3. acking[c][q] = 0 => doubled' = doubled
      BY <2>1, <2>2
    <3> QED BY <1>1, <2>1, <3>1, <3>2, <3>3
  <2>3. CASE ~(c = b /\ q = p)
    <3>1. acking'[c][q] = acking[c][q]
      BY <1>t, <2>1, <2>3
    <3> QED BY <1>1, <2>1, <3>1
  <2> QED BY <2>2, <2>3
<1>3. ASSUME NEW p \in Publications, CommitAck(b, p) \/ LoseAck(b, p)
      PROVE  <<c, q>> \in doubled' \/ rows'[c][q] + acking'[c][q] <= 1
  <2>1. /\ acking[b][p] > 0 /\ doubled' = doubled
        /\ acking' = [acking EXCEPT ![b][p] = @ - 1]
        /\ rows' = rows \/ rows' = [rows EXCEPT ![b][p] = @ + 1]
    BY <1>3 DEF CommitAck, LoseAck
  <2>2. \/ rows'[c][q] = rows[c][q] /\ acking'[c][q] = acking[c][q]
        \/ rows'[c][q] \in {rows[c][q], rows[c][q] + 1} /\ acking'[c][q] = acking[c][q] - 1
    BY <1>t, <2>1
  <2> QED BY <1>1, <2>1, <2>2
<1> QED BY <1>2, <1>3 DEF Acknowledges

(* A buyer has one row per publication, unless two acknowledgements of it  *)
(* overlapped (get_or_create, DnbpPublicationDelivery).                    *)
THEOREM OneRowHolds == Spec => []OneRowUnlessTwice
<1>1. Init => OneAtATime
  BY DEF Init, OneAtATime
<1>2. ASSUME Typing, OneAtATime, [Next]_vars
      PROVE  OneAtATime'
  <2>1. ASSUME NEW p \in Publications, Publishes(p) PROVE UNCHANGED ackVars
    BY <2>1 DEF Publishes, Begin, Decide, Commit, PushTo, Relay, Close, Stop
  <2>2. ASSUME NEW b \in Buyers, Subscribes(b) \/ Listens(b)
        PROVE  UNCHANGED ackVars
    BY <1>2, <2>2, TypingOfPolls DEF Subscribes, Subscribe, Unsubscribe, Lapse
  <2>3. CASE UNCHANGED ackVars
    BY <1>2, <2>3 DEF ackVars, OneAtATime
  <2>4. UNCHANGED vars => UNCHANGED ackVars
    BY DEF vars
  <2>5. ASSUME NEW b \in Buyers, Acknowledges(b) PROVE OneAtATime'
    BY <1>2, <2>5, AcksStayOne
  <2> QED BY <1>2, <2>1, <2>2, <2>3, <2>4, <2>5, NextByPart
<1>3. Typing /\ OneAtATime => OneRowUnlessTwice
  <2> SUFFICES ASSUME Typing, OneAtATime, NEW b \in Buyers, NEW p \in Publications,
                      rows[b][p] > 1
               PROVE  <<b, p>> \in doubled
    BY DEF OneRowUnlessTwice
  <2>1. rows[b][p] \in Nat /\ acking[b][p] \in Nat
    BY DeliveryAssumption DEF Typing, TypeOK
  <2> QED BY <2>1 DEF OneAtATime
<1>4. Typing /\ OneAtATime /\ [Next]_vars => Typing' /\ OneAtATime'
  BY <1>2, TypingHolds
<1> QED BY FirstTyping, <1>1, <1>3, <1>4, PTL DEF Spec

-----------------------------------------------------------------------------
(* Subscriptions.                                                          *)

(* A phone's working endpoint is on file and in no list of what to prune;  *)
(* and the endpoints on file or in a list are ones the phone has had.      *)
OnFile ==
    \A b \in Buyers :
        /\ phone[b].push = "on" => phone[b].endpoint \in subscribed[b]
        /\ \A e \in subscribed[b] : e <= phone[b].endpoint
        /\ \A p \in Publications, e \in Endpoints : <<b, e>> \in publish[p].gone =>
               e <= phone[b].endpoint /\ ~Works(b, e)

(* What prunes: a push finds endpoints that do not work, and Close drops   *)
(* what was found.                                                         *)
LEMMA PruningSteps ==
    ASSUME Typing, NEW p \in Publications, Publishes(p)
    PROVE  /\ phone' = phone
           /\ \A q \in Publications \ {p} : publish'[q] = publish[q]
           /\ \A b \in Buyers :
                  /\ \A e \in Endpoints : <<b, e>> \in publish'[p].gone =>
                         <<b, e>> \in publish[p].gone \/ (e \in subscribed[b] /\ ~Works(b, e))
                  /\ \/ subscribed'[b] = subscribed[b]
                     \/ subscribed'[b] = {e \in subscribed[b] : <<b, e>> \notin publish[p].gone}
<1>p. publish[p] \in PublishRequest
  BY DEF Typing, TypeOK
<1>1. CASE Begin(p) \/ (\E price \in Prices : Decide(p, price)) \/ Commit(p)
           \/ \E broken \in SUBSET Buyers : Relay(p, broken)
  <2>1. publish'[p].gone = publish[p].gone /\ \A q \in Publications \ {p} : publish'[q] = publish[q]
    <3>1. CASE Begin(p)
      BY <1>p, <3>1, TypingOfBegin DEF PublishRequest
    <3>2. ASSUME NEW price \in Prices, Decide(p, price)
          PROVE  /\ publish'[p].gone = publish[p].gone
                 /\ \A q \in Publications \ {p} : publish'[q] = publish[q]
      BY <1>p, <3>2, TypingOfDecide DEF PublishRequest
    <3>3. CASE Commit(p)
      BY <1>p, <3>3, TypingOfCommit DEF PublishRequest
    <3>4. ASSUME NEW broken \in SUBSET Buyers, Relay(p, broken)
          PROVE  /\ publish'[p].gone = publish[p].gone
                 /\ \A q \in Publications \ {p} : publish'[q] = publish[q]
      BY <1>p, <3>4, TypingOfRelay DEF PublishRequest
    <3> QED BY <1>1, <3>1, <3>2, <3>3, <3>4
  <2>2. phone' = phone /\ subscribed' = subscribed
    BY <1>1 DEF Begin, Decide, Commit, Relay, pushVars
  <2> QED BY <2>1, <2>2
<1>2. ASSUME NEW c \in Buyers, NEW works, PushTo(p, c, works)
      PROVE  /\ phone' = phone /\ subscribed' = subscribed
             /\ \A q \in Publications \ {p} : publish'[q] = publish[q]
             /\ \A b \in Buyers, e \in Endpoints : <<b, e>> \in publish'[p].gone =>
                    <<b, e>> \in publish[p].gone \/ (e \in subscribed[b] /\ ~Works(b, e))
  <2> DEFINE dead == Dead(c, works)
  <2>0. publish' = [publish EXCEPT ![p].todo = @ \ {c}, ![p].gone = @ \cup dead]
    BY <1>2 DEF PushTo, Dead
  <2>d. \A b \in Buyers, e \in Endpoints : <<b, e>> \in dead =>
            e \in subscribed[b] /\ ~Works(b, e)
    BY DEF Dead, Prunable
  <2> HIDE DEF dead
  <2>1. publish'[p].gone = publish[p].gone \cup dead
    BY <1>p, <2>0 DEF Typing, TypeOK, PublishRequest
  <2>3. \A q \in Publications \ {p} : publish'[q] = publish[q]
    BY <2>0 DEF Typing, TypeOK
  <2>2. phone' = phone /\ subscribed' = subscribed
    BY <1>2 DEF PushTo
  <2> QED BY <2>1, <2>2, <2>3, <2>d
<1>3. CASE Close(p)
  <2>1. /\ publish'[p] = [publish[p] EXCEPT !.stage = "done", !.gone = {}]
        /\ \A q \in Publications \ {p} : publish'[q] = publish[q]
        /\ \A b \in Buyers :
               subscribed'[b] = {e \in subscribed[b] : <<b, e>> \notin publish[p].gone}
    BY <1>3, TypingOfClose
  <2>2. publish'[p].gone = {} /\ phone' = phone
    BY <1>p, <1>3, <2>1 DEF PublishRequest, Close
  <2> QED BY <2>1, <2>2
<1>4. CASE Stop(p)
  <2> DEFINE price == IF p \in Published THEN publish[p].price ELSE 0
  <2>1. /\ publish'[p] = [publish[p] EXCEPT !.stage = "dead", !.gone = {}, !.price = price]
        /\ \A q \in Publications \ {p} : publish'[q] = publish[q]
    BY <1>4, TypingOfStop
  <2> HIDE DEF price
  <2>2. publish'[p].gone = {} /\ phone' = phone /\ subscribed' = subscribed
    BY <1>p, <1>4, <2>1 DEF PublishRequest, Stop, pushVars
  <2> QED BY <2>1, <2>2
<1> QED BY <1>1, <1>2, <1>3, <1>4 DEF Publishes

LEMMA StaysOnFile ==
    ASSUME Typing, OnFile, [Next]_vars
    PROVE  OnFile'
<1>t. \A b \in Buyers : phone[b].endpoint \in Nat /\ subscribed[b] \subseteq Endpoints
  BY DeliveryAssumption DEF Typing, TypeOK, Endpoints
<1>e. Endpoints \subseteq Nat
  BY DEF Endpoints
<1>1. ASSUME NEW p \in Publications, Publishes(p) PROVE OnFile'
  <2> SUFFICES ASSUME NEW b \in Buyers
               PROVE  /\ phone'[b].push = "on" => phone'[b].endpoint \in subscribed'[b]
                      /\ \A e \in subscribed'[b] : e <= phone'[b].endpoint
                      /\ \A q \in Publications, e \in Endpoints : <<b, e>> \in publish'[q].gone =>
                             /\ e <= phone'[b].endpoint
                             /\ ~(phone'[b].push = "on" /\ phone'[b].endpoint = e)
    BY DEF OnFile, Works
  <2>1. /\ phone' = phone
        /\ \A q \in Publications \ {p} : publish'[q] = publish[q]
        /\ \A e \in Endpoints : <<b, e>> \in publish'[p].gone =>
               <<b, e>> \in publish[p].gone \/ (e \in subscribed[b] /\ ~Works(b, e))
        /\ \/ subscribed'[b] = subscribed[b]
           \/ subscribed'[b] = {e \in subscribed[b] : <<b, e>> \notin publish[p].gone}
    BY <1>1, PruningSteps
  <2>2. phone'[b].push = "on" => phone'[b].endpoint \in subscribed'[b]
    BY <1>t, <2>1 DEF OnFile, Works
  <2>3. \A e \in subscribed'[b] : e <= phone'[b].endpoint
    BY <2>1 DEF OnFile
  <2>4. ASSUME NEW q \in Publications, NEW e \in Endpoints, <<b, e>> \in publish'[q].gone
        PROVE  e <= phone[b].endpoint /\ ~Works(b, e)
    BY <2>1, <2>4 DEF OnFile
  <2> QED BY <2>1, <2>2, <2>3, <2>4 DEF Works
<1>2. ASSUME NEW b \in Buyers, Subscribes(b) PROVE OnFile'
  <2>1. /\ publish' = publish
        /\ \A c \in Buyers \ {b} : phone'[c] = phone[c] /\ subscribed'[c] = subscribed[c]
        /\ \/ /\ phone[b].push # "on" /\ phone'[b].push = "on"
              /\ phone'[b].endpoint = phone[b].endpoint + 1
              /\ subscribed'[b] = subscribed[b] \cup {phone'[b].endpoint}
           \/ /\ phone'[b].push # "on" /\ phone'[b].endpoint = phone[b].endpoint
              /\ subscribed'[b] \subseteq subscribed[b]
    BY <1>2, TypingOfPush DEF Subscribes, publishVars
  <2> SUFFICES ASSUME NEW c \in Buyers
               PROVE  /\ phone'[c].push = "on" => phone'[c].endpoint \in subscribed'[c]
                      /\ \A e \in subscribed'[c] : e <= phone'[c].endpoint
                      /\ \A q \in Publications, e \in Endpoints : <<c, e>> \in publish'[q].gone =>
                             /\ e <= phone'[c].endpoint
                             /\ ~(phone'[c].push = "on" /\ phone'[c].endpoint = e)
    BY DEF OnFile, Works
  <2>2. CASE c # b
    BY <2>1, <2>2 DEF OnFile, Works
  <2>3. CASE c = b
    <3>1. /\ phone[b].endpoint \in Nat
          /\ \A e \in subscribed[b] : e \in Nat /\ e <= phone[b].endpoint
          /\ \A q \in Publications, e \in Endpoints : <<b, e>> \in publish[q].gone =>
                 e \in Nat /\ e <= phone[b].endpoint
      BY <1>t, <1>e DEF OnFile
    <3>2. CASE phone'[b].push = "on"
      BY <2>1, <2>3, <3>1, <3>2
    <3>3. CASE phone'[b].push # "on"
      BY <2>1, <2>3, <3>1, <3>3
    <3> QED BY <3>2, <3>3
  <2> QED BY <2>2, <2>3
<1>3. ASSUME UNCHANGED <<publishVars, pushVars>> PROVE OnFile'
  BY <1>3 DEF OnFile, Works, publishVars, pushVars
<1>4. ASSUME NEW b \in Buyers, Listens(b) \/ Acknowledges(b)
      PROVE  UNCHANGED <<publishVars, pushVars>>
  BY <1>4, TypingOfPolls, TypingOfAcks DEF Acknowledges
<1>5. UNCHANGED vars => UNCHANGED <<publishVars, pushVars>>
  BY DEF vars
<1> QED BY <1>1, <1>2, <1>3, <1>4, <1>5, NextByPart

LEMMA FirstOnFile == Init => OnFile
BY DEF Init, OnFile, Endpoints

(* No fan-out, however many overlap and whatever each found gone, drops a  *)
(* subscription that works (fan_out, delete_by_endpoint).                  *)
THEOREM SubscriptionsHold == Spec => []SubscriptionsSurvive
<1>1. Typing /\ OnFile /\ [Next]_vars => Typing' /\ OnFile'
  BY TypingHolds, StaysOnFile
<1>2. OnFile => SubscriptionsSurvive
  BY DEF OnFile, SubscriptionsSurvive
<1> QED BY FirstTyping, FirstOnFile, <1>1, <1>2, PTL DEF Spec

-----------------------------------------------------------------------------
(* Fan-out: a phone still waiting for an alert is one that the fan-out has *)
(* still to come to, or had when the process stopped.                      *)

Owing ==
    \A b \in Buyers, p \in Publications :
        alert[b][p] = "owed" =>
            phone[b].push = "on" /\ Stage(p) \in {"alerting", "dead"} /\ b \in publish[p].todo

LEMMA OwingToPublish ==
    ASSUME Typing, OnFile, Owing, NEW p \in Publications, Publishes(p)
    PROVE  Owing'
<1>p. publish[p] \in PublishRequest
  BY DEF Typing, TypeOK
<1>o. \A b \in Buyers, q \in Publications : alert[b][q] = "owed" =>
          /\ phone[b].push = "on" /\ publish[q].stage \in {"alerting", "dead"}
          /\ b \in publish[q].todo
  BY DEF Owing, Stage
<1> USE DEF Stage
<1> DEFINE Others == \A q \in Publications \ {p} : publish'[q] = publish[q]
<1>1. ASSUME phone' = phone, Others,
             \A b \in Buyers, q \in Publications \ {p} : alert'[b][q] = alert[b][q],
             \A b \in Buyers : alert'[b][p] = "owed" =>
                 /\ phone[b].push = "on" /\ publish'[p].stage \in {"alerting", "dead"}
                 /\ b \in publish'[p].todo
      PROVE  Owing'
  BY <1>o, <1>1 DEF Owing
<1>2. CASE Begin(p) \/ (\E price \in Prices : Decide(p, price)) \/ Close(p)
  <2>1. phone' = phone /\ alert' = alert /\ Others
    BY <1>2, TypingOfBegin, TypingOfDecide, TypingOfClose DEF Begin, Decide, Close, pushVars
  <2>2. publish[p].stage \notin {"alerting", "dead"}
    BY <1>2 DEF Begin, Decide, Close
  <2> HIDE DEF Others
  <2> QED BY <1>1, <1>o, <2>1, <2>2
<1>3. CASE Commit(p)
  <2> DEFINE todo == IF publish[p].notified THEN Buyers ELSE {}
  <2>1. /\ phone' = phone /\ Others /\ publish[p].stage = "decided"
        /\ publish'[p] = [publish[p] EXCEPT !.stage = "alerting", !.todo = todo]
        /\ \A b \in Buyers, q \in Publications :
               alert'[b][q] = IF q = p /\ publish[p].notified /\ phone[b].push = "on"
                              THEN "owed" ELSE alert[b][q]
    BY <1>3, TypingOfCommit DEF Commit
  <2> HIDE DEF todo, Others
  <2>2. publish'[p].stage = "alerting" /\ publish'[p].todo = todo
    BY <1>p, <2>1 DEF PublishRequest
  <2>3. \A b \in Buyers : alert'[b][p] = "owed" =>
            phone[b].push = "on" /\ b \in todo
    BY <1>o, <2>1 DEF todo
  <2>4. \A b \in Buyers, q \in Publications \ {p} : alert'[b][q] = alert[b][q]
    BY <2>1
  <2> QED BY <1>1, <2>1, <2>2, <2>3, <2>4
<1>4. ASSUME NEW c \in Buyers, NEW works \in BOOLEAN, PushTo(p, c, works) PROVE Owing'
  <2> DEFINE dead == Dead(c, works)
             reached == \E e \in subscribed[c] : Works(c, e)
             new == IF ~reached THEN alert[c][p] ELSE IF works THEN "rung" ELSE "missed"
  <2>1. /\ publish' = [publish EXCEPT ![p].todo = @ \ {c}, ![p].gone = @ \cup dead]
        /\ alert' = [alert EXCEPT ![c][p] = new]
        /\ phone' = phone /\ publish[p].stage = "alerting"
    BY <1>4 DEF PushTo, Dead
  <2>2. new # "owed"
    <3>1. phone[c].push = "on" => reached
      BY DEF OnFile, Works
    <3> HIDE DEF reached
    <3>2. CASE reached
      BY <3>2
    <3>3. CASE ~reached
      BY <1>o, <3>1, <3>3
    <3> QED BY <3>2, <3>3
  <2> HIDE DEF dead, new
  <2>3. /\ publish'[p].todo = publish[p].todo \ {c} /\ publish'[p].stage = "alerting"
        /\ Others
    BY <1>p, <2>1 DEF Typing, TypeOK, PublishRequest
  <2>4. \A b \in Buyers, q \in Publications :
            alert'[b][q] = IF b = c /\ q = p THEN new ELSE alert[b][q]
    BY <2>1 DEF Typing, TypeOK
  <2> HIDE DEF Others
  <2>5. ASSUME NEW b \in Buyers, alert'[b][p] = "owed"
        PROVE  phone[b].push = "on" /\ b \in publish'[p].todo
    <3>1. b # c /\ alert[b][p] = "owed"
      BY <2>2, <2>4, <2>5
    <3> QED BY <1>o, <2>3, <3>1
  <2>6. \A b \in Buyers, q \in Publications \ {p} : alert'[b][q] = alert[b][q]
    BY <2>4
  <2> QED BY <1>1, <2>1, <2>3, <2>5, <2>6
<1>5. ASSUME NEW broken \in SUBSET Buyers, Relay(p, broken) PROVE Owing'
  <2>1. phone' = phone /\ alert' = alert /\ Others
    BY <1>5, TypingOfRelay DEF Relay, pushVars
  <2>2. publish[p].todo = {}
    BY <1>5 DEF Relay
  <2> HIDE DEF Others
  <2> QED BY <1>1, <1>o, <2>1, <2>2
<1>6. CASE Stop(p)
  <2> DEFINE price == IF p \in Published THEN publish[p].price ELSE 0
  <2>1. /\ phone' = phone /\ alert' = alert /\ Others
        /\ publish'[p] = [publish[p] EXCEPT !.stage = "dead", !.gone = {}, !.price = price]
    BY <1>6, TypingOfStop DEF Stop, pushVars
  <2> HIDE DEF price
  <2>2. publish'[p].stage = "dead" /\ publish'[p].todo = publish[p].todo
    BY <1>p, <2>1 DEF PublishRequest
  <2> HIDE DEF Others
  <2> QED BY <1>1, <1>o, <2>1, <2>2
<1> QED BY <1>2, <1>3, <1>4, <1>5, <1>6 DEF Publishes

LEMMA OwingStays ==
    ASSUME Typing, OnFile, Owing, [Next]_vars
    PROVE  Owing'
<1>1. ASSUME NEW p \in Publications, Publishes(p) PROVE Owing'
  BY <1>1, OwingToPublish
<1>2. ASSUME NEW b \in Buyers, Subscribes(b) PROVE Owing'
  <2>1. /\ publish' = publish
        /\ \A c \in Buyers \ {b} : phone'[c] = phone[c]
        /\ \/ /\ phone[b].push # "on" /\ alert' = alert
           \/ /\ \A p \in Publications : alert'[b][p] # "owed"
              /\ \A c \in Buyers \ {b} : alert'[c] = alert[c]
    BY <1>2, TypingOfPush DEF Subscribes, publishVars
  <2> QED BY <2>1 DEF Owing, Stage
<1>3. ASSUME UNCHANGED <<publishVars, pushVars>> PROVE Owing'
  BY <1>3 DEF Owing, Stage, publishVars, pushVars
<1>4. ASSUME NEW b \in Buyers, Listens(b) \/ Acknowledges(b)
      PROVE  UNCHANGED <<publishVars, pushVars>>
  BY <1>4, TypingOfPolls, TypingOfAcks DEF Acknowledges
<1>5. UNCHANGED vars => UNCHANGED <<publishVars, pushVars>>
  BY DEF vars
<1> QED BY <1>1, <1>2, <1>3, <1>4, <1>5, NextByPart

-----------------------------------------------------------------------------
(* The order of publish requests.                                          *)

(* What an action makes of its publish request, as far as the order and    *)
(* the prices of publications go.                                          *)
Kept(p) ==
    /\ publish'[p].price = publish[p].price /\ publish'[p].prior = publish[p].prior
    /\ publish'[p].notified = publish[p].notified

Starts(p) ==
    /\ Stage(p) = "new" /\ publish'[p].stage = "started"
    /\ p > 1 => Stage(p - 1) # "new"
    /\ overlapped \/ Undecided # {} => overlapped'
    /\ superseded' = superseded

Decides(p) ==
    /\ Stage(p) = "started" /\ publish'[p].stage = "decided"
    /\ publish'[p].price \in Prices /\ publish'[p].prior = Current
    /\ publish'[p].notified <=> Changed(Current, publish'[p].price)
    /\ (overlapped => overlapped') /\ superseded' = superseded

Commits(p) ==
    /\ Stage(p) = "decided" /\ publish'[p].stage = "alerting" /\ Kept(p)
    /\ (overlapped => overlapped') /\ superseded' = superseded \cup ({publish[p].prior} \ {0})

FansOut(p) ==
    /\ Stage(p) \in {"alerting", "closing"}
    /\ publish'[p].stage \in {"alerting", "closing", "done", "dead"} /\ Kept(p)
    /\ (overlapped => overlapped') /\ superseded' = superseded

Abandons(p) ==
    /\ Stage(p) \in {"started", "decided"} /\ publish'[p].stage = "dead"
    /\ publish'[p].price = 0
    /\ (overlapped => overlapped') /\ superseded' = superseded

LEMMA StageSteps ==
    ASSUME Typing, NEW p \in Publications, Publishes(p)
    PROVE  /\ \A q \in Publications \ {p} : publish'[q] = publish[q]
           /\ Starts(p) \/ Decides(p) \/ Commits(p) \/ FansOut(p) \/ Abandons(p)
<1>p. publish[p] \in PublishRequest
  BY DEF Typing, TypeOK
<1>o. \A q \in Publications \ {p} : publish'[q] = publish[q]
  BY PruningSteps
<1>1. CASE Begin(p)
  <2>1. publish'[p].stage = "started"
    BY <1>p, <1>1, TypingOfBegin DEF PublishRequest
  <2> QED BY <1>1, <1>o, <2>1 DEF Begin, Starts
<1>2. ASSUME NEW price \in Prices, Decide(p, price) PROVE Decides(p)
  <2> DEFINE current == Current
             changed == Changed(current, price)
  <2>1. publish'[p] = [publish[p] EXCEPT !.stage = "decided", !.price = price,
                          !.prior = current, !.notified = changed]
    BY <1>2, TypingOfDecide
  <2> HIDE DEF current, changed
  <2>2. /\ publish'[p].stage = "decided" /\ publish'[p].price = price
        /\ publish'[p].prior = current /\ publish'[p].notified = changed
    BY <1>p, <2>1 DEF PublishRequest
  <2> QED BY <1>2, <2>2 DEF Decide, Decides, current, changed
<1>3. CASE Commit(p)
  <2> DEFINE todo == IF publish[p].notified THEN Buyers ELSE {}
  <2>1. publish'[p] = [publish[p] EXCEPT !.stage = "alerting", !.todo = todo]
    BY <1>3, TypingOfCommit
  <2> HIDE DEF todo
  <2>2. publish'[p].stage = "alerting" /\ Kept(p)
    BY <1>p, <2>1 DEF PublishRequest, Kept
  <2> QED BY <1>3, <1>o, <2>2 DEF Commit, Commits, Superseding
<1>4. ASSUME NEW c \in Buyers, NEW works \in BOOLEAN, PushTo(p, c, works) PROVE FansOut(p)
  <2> DEFINE dead == Dead(c, works)
  <2>1. publish' = [publish EXCEPT ![p].todo = @ \ {c}, ![p].gone = @ \cup dead]
    BY <1>4 DEF PushTo, Dead
  <2> HIDE DEF dead
  <2>2. publish'[p].stage = publish[p].stage /\ Kept(p)
    BY <1>p, <2>1 DEF Typing, TypeOK, PublishRequest, Kept
  <2> QED BY <1>4, <2>2 DEF PushTo, FansOut, Stage
<1>5. ASSUME NEW broken \in SUBSET Buyers, Relay(p, broken) PROVE FansOut(p)
  <2>1. publish'[p] = [publish[p] EXCEPT !.stage = "closing"]
    BY <1>5, TypingOfRelay
  <2>2. publish'[p].stage = "closing" /\ Kept(p)
    BY <1>p, <2>1 DEF PublishRequest, Kept
  <2> QED BY <1>5, <2>2 DEF Relay, FansOut
<1>6. CASE Close(p)
  <2>1. publish'[p] = [publish[p] EXCEPT !.stage = "done", !.gone = {}]
    BY <1>6, TypingOfClose
  <2>2. publish'[p].stage = "done" /\ Kept(p)
    BY <1>p, <2>1 DEF PublishRequest, Kept
  <2>3. FansOut(p)
    BY <1>6, <2>2 DEF Close, FansOut
  <2> QED BY <1>o, <2>3
<1>7. CASE Stop(p)
  <2> DEFINE price == IF p \in Published THEN publish[p].price ELSE 0
  <2>1. publish'[p] = [publish[p] EXCEPT !.stage = "dead", !.gone = {}, !.price = price]
    BY <1>7, TypingOfStop
  <2> HIDE DEF price
  <2>2. /\ publish'[p].stage = "dead" /\ publish'[p].price = price
        /\ publish'[p].prior = publish[p].prior /\ publish'[p].notified = publish[p].notified
    BY <1>p, <2>1 DEF PublishRequest
  <2>3. overlapped' = overlapped /\ superseded' = superseded
    BY <1>7 DEF Stop
  <2>4. CASE Stage(p) \in {"started", "decided"}
    <3>1. price = 0
      BY <2>4 DEF price, Published
    <3> QED BY <1>o, <2>2, <2>3, <2>4, <3>1 DEF Abandons
  <2>5. CASE Stage(p) \in {"alerting", "closing"}
    <3>1. price = publish[p].price
      BY <2>5 DEF price, Published
    <3> QED BY <1>o, <2>2, <2>3, <2>5, <3>1 DEF FansOut, Kept
  <2> QED BY <1>7, <2>4, <2>5 DEF Stop
<1> QED BY <1>o, <1>1, <1>2, <1>3, <1>4, <1>5, <1>6, <1>7 DEF Publishes

(* Publish requests begin in order, and a decided one has its price.       *)
InOrder ==
    /\ \A p, q \in Publications : q < p /\ Stage(p) # "new" => Stage(q) # "new"
    /\ \A p \in Publications : Stage(p) = "decided" => publish[p].price \in Prices

(* Without overlaps: at most the last request that began is undecided, and *)
(* what it read is still so; all but the last publication are superseded;  *)
(* and the last that was announced has the price of the live one.          *)
Alone ==
    \A p \in Undecided :
        /\ \A q \in Publications : q > p => Stage(q) = "new"
        /\ Stage(p) = "decided" =>
               /\ publish[p].prior = Current
               /\ (publish[p].notified <=> Changed(Current, publish[p].price))

LastStands ==
    /\ superseded \subseteq Published
    /\ \A p \in Published : p \in superseded <=> \E q \in Published : q > p

Announced ==
    Published # {} =>
        \E n \in Published :
            /\ publish[n].notified
            /\ \A q \in Published : publish[q].notified => q <= n
            /\ publish[Current].price = publish[n].price

KeepingUp == InOrder /\ (overlapped \/ (Alone /\ LastStands /\ Announced))

LEMMA LastIsCurrent ==
    ASSUME TypeOK, LastStands
    PROVE  /\ Published = {} => Current = 0
           /\ \A m \in Published : (\A q \in Published : q <= m) => Current = m
           /\ Published # {} => Current \in Published /\ \A q \in Published : q <= Current
<1>1. Published \in SUBSET (0..MaxPublications) /\ MaxPublications \in Nat
  BY DeliveryAssumption DEF Published, Publications
<1>2. Published \subseteq Nat
  BY <1>1
<1>3. ASSUME NEW m \in Published, \A q \in Published : q <= m
      PROVE  Current = m
  <2>1. m \notin superseded
    <3>1. ~\E q \in Published : q > m
      BY <1>2, <1>3
    <3> QED BY <3>1 DEF LastStands
  <2>2. m \in Published \ superseded
    BY <2>1
  <2>3. Current \in Published /\ m <= Current
    BY <2>2, CurrentIsLast
  <2>4. Current <= m
    BY <1>3, <2>3
  <2>5. Current \in Nat /\ m \in Nat
    BY <1>2, <2>3
  <2> QED BY <2>3, <2>4, <2>5
<1>4. ASSUME Published # {}
      PROVE  \E m \in Published : \A q \in Published : q <= m
  <2> DEFINE T == Published
  <2>1. T \in SUBSET (0..MaxPublications) /\ T # {}
    BY <1>1, <1>4
  <2> HIDE DEF T
  <2>2. Max(T) \in T /\ \A q \in T : q <= Max(T)
    BY <1>1, <2>1, MaxIsGreatest
  <2> QED BY <2>2 DEF T
<1>5. Published = {} => Current = 0
  BY CurrentIsLast
<1> QED BY <1>3, <1>4, <1>5

(* What each action does to the sets that the order is about.              *)
LEMMA OrderSteps ==
    ASSUME Typing, NEW p \in Publications, InOrder,
           \A q \in Publications \ {p} : publish'[q] = publish[q]
    PROVE  /\ Starts(p) =>
                  /\ Published' = Published /\ p \notin Published
                  /\ Undecided' = Undecided \cup {p}
           /\ Decides(p) =>
                  /\ Published' = Published /\ p \notin Published
                  /\ Undecided' = Undecided /\ p \in Undecided
           /\ Commits(p) =>
                  /\ Published' = Published \cup {p} /\ p \notin Published
                  /\ Undecided' = Undecided \ {p} /\ p \in Undecided
           /\ FansOut(p) => Published' = Published /\ Undecided' = Undecided /\ p \notin Undecided
           /\ Abandons(p) =>
                  /\ Published' = Published /\ p \notin Published
                  /\ Undecided' = Undecided \ {p} /\ p \in Undecided
<1>1. Stage(p) = "decided" => publish[p].price # 0
  BY DeliveryAssumption DEF InOrder
<1>2. \A q \in Publications : q # p => Stage(q)' = Stage(q)
  BY DEF Stage
<1>3. ASSUME Starts(p)
      PROVE  /\ Published' = Published /\ p \notin Published
             /\ Undecided' = Undecided \cup {p}
  BY <1>2, <1>3 DEF Starts, Published, Undecided, Stage
<1>4. ASSUME Decides(p)
      PROVE  /\ Published' = Published /\ p \notin Published
             /\ Undecided' = Undecided /\ p \in Undecided
  BY <1>2, <1>4 DEF Decides, Published, Undecided, Stage
<1>5. ASSUME Commits(p)
      PROVE  /\ Published' = Published \cup {p} /\ p \notin Published
             /\ Undecided' = Undecided \ {p} /\ p \in Undecided
  BY <1>1, <1>2, <1>5 DEF Commits, Kept, Published, Undecided, Stage
<1>6. ASSUME FansOut(p)
      PROVE  Published' = Published /\ Undecided' = Undecided /\ p \notin Undecided
  BY <1>2, <1>6 DEF FansOut, Kept, Published, Undecided, Stage
<1>7. ASSUME Abandons(p)
      PROVE  /\ Published' = Published /\ p \notin Published
             /\ Undecided' = Undecided \ {p} /\ p \in Undecided
  BY <1>2, <1>7 DEF Abandons, Published, Undecided, Stage
<1> QED BY <1>3, <1>4, <1>5, <1>6, <1>7

LEMMA OrderStays ==
    ASSUME Typing, InOrder, NEW p \in Publications, Publishes(p)
    PROVE  InOrder'
<1>s. /\ \A q \in Publications \ {p} : publish'[q] = publish[q]
      /\ Starts(p) \/ Decides(p) \/ Commits(p) \/ FansOut(p) \/ Abandons(p)
  BY StageSteps
<1>n. Publications \subseteq Nat
  BY DEF Publications
<1>1. publish'[p].stage # "new"
  BY <1>s DEF Starts, Decides, Commits, FansOut, Abandons
<1>2. \A q \in Publications : q < p => publish[q].stage # "new"
  <2>1. CASE Stage(p) # "new"
    BY <2>1 DEF InOrder, Stage
  <2>2. CASE Stage(p) = "new"
    <3>1. p > 1 => Stage(p - 1) # "new"
      BY <1>s, <2>2 DEF Starts, Decides, Commits, FansOut, Abandons
    <3>2. ASSUME NEW q \in Publications, q < p PROVE publish[q].stage # "new"
      <4>1. p > 1 /\ p - 1 \in Publications /\ (q = p - 1 \/ q < p - 1)
        BY <3>2, DeliveryAssumption DEF Publications
      <4> QED BY <3>1, <4>1 DEF InOrder, Stage
    <3> QED BY <3>2
  <2> QED BY <2>1, <2>2
<1>3. publish'[p].stage = "decided" => publish'[p].price \in Prices
  BY <1>s DEF Starts, Decides, Commits, FansOut, Abandons
<1>4. ASSUME NEW x \in Publications, NEW q \in Publications, q < x, publish'[x].stage # "new"
      PROVE  publish'[q].stage # "new"
  BY <1>1, <1>2, <1>4, <1>s DEF InOrder, Stage
<1>5. ASSUME NEW x \in Publications, publish'[x].stage = "decided"
      PROVE  publish'[x].price \in Prices
  BY <1>3, <1>5, <1>s DEF InOrder, Stage
<1> QED BY <1>4, <1>5 DEF InOrder, Stage

LEMMA KeepingUpToPublish ==
    ASSUME Typing, KeepingUp, NEW p \in Publications, Publishes(p)
    PROVE  KeepingUp'
<1>s. /\ \A q \in Publications \ {p} : publish'[q] = publish[q]
      /\ Starts(p) \/ Decides(p) \/ Commits(p) \/ FansOut(p) \/ Abandons(p)
  BY StageSteps
<1>o. InOrder /\ InOrder' /\ TypeOK /\ TypeOK'
  BY OrderStays, TypingHolds, NextByPart DEF KeepingUp, Typing
<1>n. Publications \subseteq Nat /\ 0 \notin Publications /\ Published \subseteq Publications
  BY DEF Publications, Published
<1> SUFFICES ASSUME ~overlapped'
             PROVE  Alone' /\ LastStands' /\ Announced'
  BY <1>o DEF KeepingUp
<1>a. ~overlapped /\ Alone /\ LastStands /\ Announced
  BY <1>s DEF KeepingUp, Starts, Decides, Commits, FansOut, Abandons
<1>c. /\ Published = {} => Current = 0
      /\ Published # {} => Current \in Published /\ \A q \in Published : q <= Current
  BY <1>a, <1>o, LastIsCurrent
<1>e. \A q \in Publications : q # p => Stage(q)' = Stage(q)
  BY <1>s DEF Stage
<1>k. ASSUME Published' = Published, superseded' = superseded,
             \A q \in Published : publish'[q].price = publish[q].price
                                  /\ publish'[q].notified = publish[q].notified
      PROVE  /\ LastStands' /\ Announced' /\ Current' = Current
             /\ Current # 0 => publish'[Current].price = publish[Current].price
  <2>1. Current' = Current
    BY <1>k DEF Current
  <2>2. LastStands'
    BY <1>a, <1>k DEF LastStands
  <2>3. Current # 0 => publish'[Current].price = publish[Current].price
    BY <1>c, <1>k
  <2>4. Announced'
    BY <1>a, <1>c, <1>k, <2>1, <2>3 DEF Announced
  <2> QED BY <2>1, <2>2, <2>3, <2>4
<1>u. ASSUME NEW x \in Undecided, x # p, Stage(p) # "new"
      PROVE  x > p
  BY <1>a, <1>n, <1>u DEF Alone, Undecided
<1>1. CASE Starts(p)
  <2>1. /\ Published' = Published /\ p \notin Published /\ superseded' = superseded
        /\ Undecided = {} /\ Undecided' = {p}
        /\ Stage(p) = "new" /\ publish'[p].stage = "started"
    BY <1>1, <1>o, <1>s, OrderSteps DEF Starts
  <2>2. LastStands' /\ Announced'
    BY <1>k, <1>n, <1>s, <2>1
  <2>3. \A q \in Publications : q > p => Stage(q)' = "new"
    BY <1>e, <1>n, <1>o, <2>1 DEF InOrder
  <2>4. Alone'
    BY <2>1, <2>3 DEF Alone, Stage
  <2> QED BY <2>2, <2>4
<1>2. CASE Decides(p)
  <2>1. /\ Published' = Published /\ p \notin Published /\ superseded' = superseded
        /\ Undecided' = Undecided /\ p \in Undecided
    BY <1>2, <1>o, <1>s, OrderSteps DEF Decides
  <2>2. /\ LastStands' /\ Announced' /\ Current' = Current
        /\ Current # 0 => publish'[Current].price = publish[Current].price
    BY <1>k, <1>n, <1>s, <2>1
  <2>3. Undecided = {p}
    <3>1. ASSUME NEW x \in Undecided, x # p PROVE FALSE
      <4>1. x > p /\ x \in Publications /\ Stage(x) # "new"
        BY <1>2, <1>u, <3>1 DEF Decides, Undecided
      <4> QED BY <1>a, <2>1, <4>1 DEF Alone
    <3> QED BY <2>1, <3>1
  <2>4. \A q \in Publications : q > p => Stage(q)' = "new"
    BY <1>a, <1>e, <1>n, <2>1 DEF Alone
  <2>5. /\ publish'[p].prior = Current'
        /\ (publish'[p].notified <=> Changed(Current, publish'[p].price))
    BY <1>2, <2>2 DEF Decides
  <2>6. Changed(Current, publish'[p].price) <=> Changed(Current, publish[p].price)'
    BY <2>2 DEF Changed
  <2>7. Alone'
    BY <2>1, <2>3, <2>4, <2>5, <2>6 DEF Alone
  <2> QED BY <2>2, <2>7
<1>3. CASE Commits(p)
  <2>1. /\ Published' = Published \cup {p} /\ p \notin Published
        /\ Undecided' = Undecided \ {p} /\ p \in Undecided
        /\ superseded' = superseded \cup ({Current} \ {0})
        /\ Stage(p) = "decided" /\ publish[p].prior = Current
        /\ (publish[p].notified <=> Changed(Current, publish[p].price))
        /\ publish'[p].price = publish[p].price /\ publish'[p].notified = publish[p].notified
    BY <1>3, <1>a, <1>o, <1>s, OrderSteps DEF Commits, Kept, Alone
  <2>2. Undecided' = {}
    <3>1. ASSUME NEW x \in Undecided, x # p PROVE FALSE
      <4>1. x > p /\ x \in Publications /\ Stage(x) # "new"
        BY <1>u, <2>1, <3>1 DEF Undecided
      <4> QED BY <1>a, <2>1, <4>1 DEF Alone
    <3> QED BY <2>1, <3>1
  <2>3. ASSUME NEW q \in Published PROVE q < p
    <3>1. Stage(q) # "new" /\ q # p /\ q \in Publications
      BY <2>1 DEF Published
    <3>2. ~(q > p)
      BY <1>a, <2>1, <3>1 DEF Alone
    <3> QED BY <1>n, <3>1, <3>2
  <2>4. LastStands'
    <3>1. superseded' \subseteq Published'
      BY <1>a, <1>c, <2>1 DEF LastStands
    <3>2. p \notin superseded' /\ ~\E q \in Published' : q > p
      <4>1. p \notin superseded /\ p # Current
        BY <1>a, <1>c, <1>n, <2>1 DEF LastStands
      <4>2. ASSUME NEW q \in Published', q > p PROVE FALSE
        BY <1>n, <2>1, <2>3, <4>2
      <4> QED BY <2>1, <4>1, <4>2
    <3>3. ASSUME NEW x \in Published
          PROVE  x \in superseded' /\ \E q \in Published' : q > x
      <4>1. x < p /\ p \in Published' /\ p \in Nat /\ x \in Nat
        BY <1>n, <2>1, <2>3
      <4>2. CASE x = Current
        BY <1>n, <2>1, <4>1, <4>2
      <4>3. CASE x # Current
        <5>1. Current \in Published /\ x <= Current /\ Current \in Nat
          BY <1>c, <1>n
        <5>2. Current > x
          BY <4>1, <4>3, <5>1
        <5>3. x \in superseded
          BY <1>a, <5>1, <5>2 DEF LastStands
        <5> QED BY <2>1, <4>1, <5>3
      <4> QED BY <4>2, <4>3
    <3> QED BY <2>1, <3>1, <3>2, <3>3 DEF LastStands
  <2>5. Current' = p
    <3>1. p \in Published' /\ \A q \in Published' : q <= p
      BY <1>n, <2>1, <2>3
    <3>2. (\A m \in Published : (\A q \in Published : q <= m) => Current = m)'
      BY <1>o, <2>4, LastIsCurrent, PTL
    <3> QED BY <3>1, <3>2
  <2>6. \A q \in Published : publish'[q].price = publish[q].price
                             /\ publish'[q].notified = publish[q].notified
    BY <1>n, <1>s, <2>1
  <2>7. Announced'
    <3>1. CASE publish[p].notified
      <4>1. /\ p \in Published' /\ publish'[p].notified
            /\ \A q \in Published' : q <= p
        BY <1>n, <2>1, <2>3, <3>1
      <4> QED BY <2>5, <4>1 DEF Announced
    <3>2. CASE ~publish[p].notified
      <4>1. Current # 0 /\ publish[Current].price = publish[p].price
        BY <2>1, <3>2 DEF Changed
      <4>2. PICK n \in Published : /\ publish[n].notified
                                   /\ \A q \in Published : publish[q].notified => q <= n
                                   /\ publish[Current].price = publish[n].price
        BY <1>a, <1>c, <4>1 DEF Announced
      <4>3. /\ n \in Published' /\ publish'[n].notified
            /\ \A q \in Published' : publish'[q].notified => q <= n
            /\ publish'[p].price = publish'[n].price
        BY <2>1, <2>6, <3>2, <4>1, <4>2
      <4> QED BY <2>5, <4>3 DEF Announced
    <3> QED BY <3>1, <3>2
  <2>8. Alone'
    BY <2>2 DEF Alone
  <2> QED BY <2>4, <2>7, <2>8
<1>4. CASE FansOut(p)
  <2>1. /\ Published' = Published /\ superseded' = superseded
        /\ Undecided' = Undecided /\ p \notin Undecided /\ Kept(p) /\ Stage(p) # "new"
    BY <1>4, <1>o, <1>s, OrderSteps DEF FansOut
  <2>2. /\ LastStands' /\ Announced' /\ Current' = Current
        /\ Current # 0 => publish'[Current].price = publish[Current].price
    BY <1>k, <1>n, <1>s, <2>1 DEF Kept
  <2>3. ASSUME NEW x \in Undecided
        PROVE  /\ \A q \in Publications : q > x => Stage(q)' = "new"
               /\ Stage(x)' = "decided" =>
                      /\ publish'[x].prior = Current'
                      /\ (publish'[x].notified <=> Changed(Current, publish[x].price)')
    <3>1. x # p /\ x \in Publications /\ publish'[x] = publish[x]
      BY <1>s, <2>1 DEF Undecided
    <3>2. Changed(Current, publish[x].price)' <=> Changed(Current, publish[x].price)
      BY <2>2, <3>1 DEF Changed
    <3>3. ~(p > x)
      BY <1>a, <2>1 DEF Alone
    <3> QED BY <1>a, <1>e, <2>2, <3>1, <3>2, <3>3 DEF Alone, Stage
  <2>4. Alone'
    BY <2>1, <2>3 DEF Alone
  <2> QED BY <2>2, <2>4
<1>5. CASE Abandons(p)
  <2>1. /\ Published' = Published /\ p \notin Published /\ superseded' = superseded
        /\ Undecided' = Undecided \ {p} /\ p \in Undecided /\ Stage(p) # "new"
    BY <1>5, <1>o, <1>s, OrderSteps DEF Abandons
  <2>2. LastStands' /\ Announced'
    BY <1>k, <1>n, <1>s, <2>1
  <2>3. ASSUME NEW x \in Undecided, x # p PROVE FALSE
    <3>1. x > p /\ x \in Publications /\ Stage(x) # "new"
      BY <1>u, <2>1, <2>3 DEF Undecided
    <3> QED BY <1>a, <2>1, <3>1 DEF Alone
  <2>4. Alone'
    BY <2>1, <2>3 DEF Alone
  <2> QED BY <2>2, <2>4
<1> QED BY <1>s, <1>1, <1>2, <1>3, <1>4, <1>5

LEMMA KeepingUpStays ==
    ASSUME Typing, KeepingUp, [Next]_vars
    PROVE  KeepingUp'
<1>1. ASSUME NEW p \in Publications, Publishes(p) PROVE KeepingUp'
  BY <1>1, KeepingUpToPublish
<1>2. ASSUME UNCHANGED publishVars PROVE KeepingUp'
  <2>1. Published' = Published /\ Undecided' = Undecided
    BY <1>2 DEF Published, Undecided, Stage, publishVars
  <2>2. publish' = publish /\ superseded' = superseded /\ overlapped' = overlapped
    BY <1>2 DEF publishVars
  <2>3. Current' = Current
    BY <2>1, <2>2 DEF Current
  <2>4. InOrder'
    BY <2>2 DEF KeepingUp, InOrder, Stage
  <2>5. Alone => Alone'
    BY <2>1, <2>2, <2>3 DEF Alone, Stage, Changed
  <2>6. LastStands => LastStands'
    BY <2>1, <2>2 DEF LastStands
  <2>7. Announced => Announced'
    BY <2>1, <2>2, <2>3 DEF Announced
  <2> QED BY <2>2, <2>4, <2>5, <2>6, <2>7 DEF KeepingUp
<1>3. ASSUME NEW b \in Buyers, Subscribes(b) \/ Listens(b) \/ Acknowledges(b)
      PROVE  UNCHANGED publishVars
  BY <1>3, TypingOfPush, TypingOfPolls, TypingOfAcks DEF Subscribes, Acknowledges
<1>4. UNCHANGED vars => UNCHANGED publishVars
  BY DEF vars
<1> QED BY <1>1, <1>2, <1>3, <1>4, NextByPart

(* Only buyers of whom a publication has something new are pushed to, and  *)
(* what a phone rang for is published, with a new price.                   *)
Ringing ==
    /\ \A p \in Publications : Stage(p) = "alerting" => p \in Published
    /\ \A b \in Buyers, p \in Publications :
           b \in publish[p].todo => Stage(p) \in {"alerting", "dead"} /\ publish[p].notified
    /\ \A b \in Buyers :
           heard[b] # 0 => heard[b] \in Published /\ publish[heard[b]].notified

LEMMA RingingToPublish ==
    ASSUME Typing, InOrder, Ringing, NEW p \in Publications, Publishes(p)
    PROVE  Ringing'
<1>p. publish[p] \in PublishRequest
  BY DEF Typing, TypeOK
<1>s. /\ \A q \in Publications \ {p} : publish'[q] = publish[q]
      /\ Starts(p) \/ Decides(p) \/ Commits(p) \/ FansOut(p) \/ Abandons(p)
  BY StageSteps
<1>1. /\ Published \subseteq Published'
      /\ \A q \in Published : publish'[q].notified = publish[q].notified
      /\ publish'[p].stage = "alerting" => p \in Published'
  <2>1. \A q \in Published : q \in Publications
    BY DEF Published
  <2>2. CASE Starts(p)
    BY <1>s, <2>1, <2>2, OrderSteps DEF Starts
  <2>3. CASE Decides(p)
    BY <1>s, <2>1, <2>3, OrderSteps DEF Decides
  <2>4. CASE Commits(p)
    BY <1>s, <2>1, <2>4, OrderSteps
  <2>5. CASE FansOut(p)
    <3>1. publish[p].stage = "alerting" => p \in Published
      BY DEF Ringing, Stage
    <3>2. Published' = Published /\ Kept(p)
      BY <1>s, <2>5, OrderSteps DEF FansOut
    <3>3. publish'[p].stage = "alerting" => p \in Published'
      <4>1. CASE Stage(p) = "alerting"
        BY <3>1, <3>2, <4>1 DEF Stage
      <4>2. CASE Stage(p) = "closing"
        BY <1>p, <2>5, <4>2, TypingOfClose, TypingOfStop
           DEF Publishes, Begin, Decide, Commit, PushTo, Relay, PublishRequest, Stage
      <4> QED BY <2>5, <4>1, <4>2 DEF FansOut
    <3> QED BY <1>s, <2>1, <3>2, <3>3 DEF Kept
  <2>6. CASE Abandons(p)
    BY <1>s, <2>1, <2>6, OrderSteps DEF Abandons
  <2> QED BY <1>s, <2>2, <2>3, <2>4, <2>5, <2>6
<1>r. \A b \in Buyers : b \in publish[p].todo =>
          publish[p].stage \in {"alerting", "dead"} /\ publish[p].notified
  BY DEF Ringing, Stage
<1>2. \A b \in Buyers : b \in publish'[p].todo =>
          publish'[p].stage \in {"alerting", "dead"} /\ publish'[p].notified
  <2>1. CASE Begin(p)
    <3>1. publish'[p].todo = publish[p].todo
      BY <1>p, <2>1, TypingOfBegin DEF PublishRequest
    <3> QED BY <1>r, <2>1, <3>1 DEF Begin, Stage
  <2>2. ASSUME NEW price \in Prices, Decide(p, price)
        PROVE  publish'[p].todo = publish[p].todo /\ publish[p].stage = "started"
    <3> DEFINE current == Current
               changed == Changed(current, price)
    <3>1. publish'[p] = [publish[p] EXCEPT !.stage = "decided", !.price = price,
                            !.prior = current, !.notified = changed]
      BY <2>2, TypingOfDecide
    <3> HIDE DEF current, changed
    <3>2. publish'[p].todo = publish[p].todo
      BY <1>p, <3>1 DEF PublishRequest
    <3> QED BY <2>2, <3>2 DEF Decide, Stage
  <2>3. CASE Commit(p)
    <3> DEFINE todo == IF publish[p].notified THEN Buyers ELSE {}
    <3>1. publish'[p] = [publish[p] EXCEPT !.stage = "alerting", !.todo = todo]
      BY <2>3, TypingOfCommit
    <3> HIDE DEF todo
    <3>2. /\ publish'[p].stage = "alerting" /\ publish'[p].todo = todo
          /\ publish'[p].notified = publish[p].notified
      BY <1>p, <3>1 DEF PublishRequest
    <3> QED BY <3>2 DEF todo
  <2>4. ASSUME NEW c \in Buyers, NEW works \in BOOLEAN, PushTo(p, c, works)
        PROVE  /\ publish'[p].todo \subseteq publish[p].todo
               /\ publish'[p].stage = publish[p].stage
               /\ publish'[p].notified = publish[p].notified
    <3> DEFINE dead == Dead(c, works)
    <3>1. publish' = [publish EXCEPT ![p].todo = @ \ {c}, ![p].gone = @ \cup dead]
      BY <2>4 DEF PushTo, Dead
    <3> HIDE DEF dead
    <3> QED BY <1>p, <3>1 DEF Typing, TypeOK, PublishRequest
  <2>5. ASSUME NEW broken \in SUBSET Buyers, Relay(p, broken)
        PROVE  publish'[p].todo = {}
    BY <1>p, <2>5, TypingOfRelay DEF Relay, PublishRequest
  <2>6. CASE Close(p)
    <3>1. publish'[p].todo = publish[p].todo /\ publish[p].stage = "closing"
      <4>1. publish'[p] = [publish[p] EXCEPT !.stage = "done", !.gone = {}]
        BY <2>6, TypingOfClose
      <4>2. publish'[p].todo = publish[p].todo
        BY <1>p, <4>1 DEF PublishRequest
      <4> QED BY <2>6, <4>2 DEF Close, Stage
    <3> QED BY <1>r, <3>1
  <2>7. CASE Stop(p)
    <3> DEFINE price == IF p \in Published THEN publish[p].price ELSE 0
    <3>1. publish'[p] = [publish[p] EXCEPT !.stage = "dead", !.gone = {}, !.price = price]
      BY <2>7, TypingOfStop
    <3> HIDE DEF price
    <3>2. /\ publish'[p].todo = publish[p].todo /\ publish'[p].stage = "dead"
          /\ publish'[p].notified = publish[p].notified
      BY <1>p, <3>1 DEF PublishRequest
    <3> QED BY <1>r, <3>2
  <2> QED BY <1>r, <2>1, <2>2, <2>3, <2>4, <2>5, <2>6, <2>7 DEF Publishes
<1>3. \A b \in Buyers :
          \/ heard'[b] = heard[b]
          \/ heard'[b] = p /\ p \in Published /\ publish[p].notified
  <2>1. ASSUME NEW c \in Buyers, NEW works \in BOOLEAN, PushTo(p, c, works)
        PROVE  /\ p \in Published /\ publish[p].notified
               /\ heard' = heard \/ heard' = [heard EXCEPT ![c] = p]
    BY <1>r, <2>1 DEF PushTo, Ringing
  <2>2. heard \in [Buyers -> 0..MaxPublications]
    BY DEF Typing, TypeOK
  <2>3. \/ heard' = heard
        \/ \E c \in Buyers, works \in BOOLEAN : PushTo(p, c, works)
    BY DEF Publishes, Begin, Decide, Commit, Relay, Close, Stop, pushVars
  <2> QED BY <2>1, <2>2, <2>3
<1>4. \A b \in Buyers :
          heard'[b] # 0 => heard'[b] \in Published' /\ publish'[heard'[b]].notified
  BY <1>1, <1>3 DEF Ringing
<1>5. ASSUME NEW q \in Publications \ {p}
      PROVE  /\ publish'[q].stage = "alerting" => q \in Published'
             /\ \A b \in Buyers : b \in publish'[q].todo =>
                    publish'[q].stage \in {"alerting", "dead"} /\ publish'[q].notified
  BY <1>1, <1>s DEF Ringing, Stage
<1> QED BY <1>1, <1>2, <1>4, <1>5 DEF Ringing, Stage

LEMMA RingingStays ==
    ASSUME Typing, InOrder, Ringing, [Next]_vars
    PROVE  Ringing'
<1>1. ASSUME NEW p \in Publications, Publishes(p) PROVE Ringing'
  BY <1>1, RingingToPublish
<1>2. ASSUME UNCHANGED <<publishVars, heard>> PROVE Ringing'
  BY <1>2 DEF Ringing, Published, Stage, publishVars
<1>3. ASSUME NEW b \in Buyers, Subscribes(b) \/ Listens(b) \/ Acknowledges(b)
      PROVE  UNCHANGED <<publishVars, heard>>
  BY <1>3, TypingOfPush, TypingOfPolls, TypingOfAcks DEF Subscribes, Acknowledges, pushVars
<1>4. UNCHANGED vars => UNCHANGED <<publishVars, heard>>
  BY DEF vars, pushVars
<1> QED BY <1>1, <1>2, <1>3, <1>4, NextByPart

(* However many fan-outs overlap and wherever the process stops: the last  *)
(* alert a phone rang for was about the live price, or it is excused for a *)
(* publication with a new price since, unless publish requests overlapped  *)
(* (publish, _prices_changed, fan_out).                                    *)
THEOREM AlertsHold == Spec => []AlertsKeepUp
<1>1. Init => Owing /\ KeepingUp /\ Ringing
  BY DEF Init, Owing, KeepingUp, InOrder, Alone, LastStands, Announced, Ringing, Undecided,
         Published, Stage
<1>2. Typing /\ OnFile /\ Owing /\ KeepingUp /\ Ringing /\ [Next]_vars =>
          Typing' /\ OnFile' /\ Owing' /\ KeepingUp' /\ Ringing'
  BY TypingHolds, StaysOnFile, OwingStays, KeepingUpStays, RingingStays DEF KeepingUp
<1>3. Typing /\ Owing /\ KeepingUp /\ Ringing => AlertsKeepUp
  <2> SUFFICES ASSUME Typing, Owing, KeepingUp, Ringing, ~overlapped, Current # 0,
                      NEW b \in Buyers
               PROVE  \/ /\ heard[b] # 0
                         /\ publish[heard[b]].price = publish[Current].price
                      \/ \E p \in Published :
                            p > heard[b] /\ publish[p].notified /\ Excused(b, p)
    BY DEF AlertsKeepUp
  <2>1. Published # {}
    BY CurrentIsLast DEF Typing
  <2>2. PICK n \in Published : /\ publish[n].notified
                               /\ \A q \in Published : publish[q].notified => q <= n
                               /\ publish[Current].price = publish[n].price
    BY <2>1 DEF KeepingUp, Announced
  <2>3. n \in Publications /\ n \in Nat /\ heard[b] \in Nat
    BY DEF Published, Publications, Typing, TypeOK
  <2>4. CASE heard[b] = n
    BY <2>2, <2>3, <2>4 DEF Publications
  <2>5. CASE heard[b] # n
    <3>1. n > heard[b]
      BY <2>2, <2>3, <2>5 DEF Ringing, Publications
    <3>2. alert[b][n] \in {"none", "owed", "rung", "missed"}
      BY <2>3 DEF Typing, TypeOK
    <3>3. Excused(b, n)
      BY <2>3, <3>2 DEF Excused, Owing
    <3> QED BY <2>2, <3>1, <3>3
  <2> QED BY <2>4, <2>5
<1> QED BY FirstTyping, FirstOnFile, <1>1, <1>2, <1>3, PTL DEF Spec
=============================================================================
