--------------------------- MODULE BuyerSync_proofs ---------------------------
(***************************************************************************)
(* What the bid check promises for every price, weight and ceiling, and    *)
(* what the synchronisation promises for any number of purchases,          *)
(* publications and requests.                                              *)
(***************************************************************************)
EXTENDS BuyerSync, FiniteSetTheorems, WellFoundedInduction, TLAPS

(* Rounding down never goes up, and loses less than a cent.                *)
LEMMA FloorIsBelow ==
    ASSUME NEW x \in Nat
    PROVE  /\ FloorToCents(x) \in Nat
           /\ FloorToCents(x) <= x
           /\ x < FloorToCents(x) + Cent
  <1> DEFINE q == x \div Cent
             r == x % Cent
  <1>1. q \in Nat /\ r \in 0..(Cent - 1) /\ x = q * Cent + r
    BY BidCheckAssumption
  <1>2. q * Cent \in Nat
    BY <1>1, BidCheckAssumption
  <1> QED
    BY <1>1, <1>2, BidCheckAssumption DEF FloorToCents

(* A whole number of cents is within a limit iff it is within the limit    *)
(* rounded down.                                                           *)
LEMMA WholeCents ==
    ASSUME NEW x \in Nat, NEW c \in Nat
    PROVE  c * Cent <= x <=> c * Cent <= FloorToCents(x)
  <1> DEFINE q == x \div Cent
  <1>1. q \in Nat /\ FloorToCents(x) = q * Cent
    BY BidCheckAssumption DEF FloorToCents
  <1>2. FloorToCents(x) <= x /\ x < q * Cent + Cent /\ FloorToCents(x) \in Nat
    BY FloorIsBelow, <1>1
  <1>3. c * Cent \in Nat /\ q * Cent \in Nat
    BY <1>1, BidCheckAssumption
  <1>4. CASE c <= q
    <2>1. c * Cent <= q * Cent
      BY <1>1, <1>4, BidCheckAssumption
    <2> QED
      BY <2>1, <1>1, <1>2, <1>3
  <1>5. CASE q + 1 <= c
    <2>1. (q + 1) * Cent <= c * Cent
      BY <1>1, <1>5, BidCheckAssumption
    <2>2. (q + 1) * Cent = q * Cent + Cent
      BY <1>1, BidCheckAssumption
    <2> QED
      BY <2>1, <2>2, <1>1, <1>2, <1>3, BidCheckAssumption
  <1> QED
    BY <1>1, <1>4, <1>5

(* The reverse mode of the calculator is exact: a bid of whole cents is    *)
(* not a breach iff it is at most the maximum the screen gives             *)
(* (domain/buyer/bidcheck.py, max_price_per_head against is_breach).       *)
THEOREM MaxPriceIsExact ==
    ASSUME NEW c \in Nat, NEW w \in Nat \ {0}, NEW d \in Nat
    PROVE  ~IsBreach(c * Cent, w, d) <=> c * Cent <= MaxPricePerHead(w, d)
  <1>1. d * w \in Nat /\ c * Cent \in Nat
    BY BidCheckAssumption
  <1>2. IsBreach(c * Cent, w, d) <=> c * Cent > d * w
    BY DEF IsBreach
  <1>3. MaxPricePerHead(w, d) = FloorToCents(d * w)
    BY DEF MaxPricePerHead
  <1> QED
    BY <1>1, <1>2, <1>3, WholeCents

(* A phone scores against the ceiling rounded down for its screen, the     *)
(* server against the exact one: what the phone lets pass, the server does *)
(* not call a breach.                                                      *)
THEOREM PhoneIsConservative ==
    ASSUME NEW p \in Nat, NEW w \in Int, NEW d \in Nat,
           ~IsBreach(p, w, FloorToCents(d))
    PROVE  ~IsBreach(p, w, d)
  <1>1. w > 0 /\ p <= FloorToCents(d) * w
    BY FloorIsBelow DEF IsBreach
  <1>2. FloorToCents(d) \in Nat /\ FloorToCents(d) <= d
    BY FloorIsBelow
  <1>3. FloorToCents(d) * w <= d * w
    BY <1>1, <1>2
  <1>4. FloorToCents(d) * w \in Nat /\ d * w \in Nat
    BY <1>1, <1>2
  <1> QED
    BY <1>1, <1>3, <1>4 DEF IsBreach

-----------------------------------------------------------------------------
(* Typing.                                                                 *)

Started == {u \in Lots : written[u] # None}

(* Every instant is a step of a publish or a note.                         *)
Timing ==
    /\ publishing # None => Len(publications) < MaxPublications
    /\ Len(FirstPublications) <= Len(publications)
    /\ clock = 2 * Len(publications) - Len(FirstPublications)
                   + (IF publishing = None THEN 0 ELSE 1) + Cardinality(Started)

(* What requests and the queue refer to has been written.                  *)
Referring ==
    /\ \A u \in Lots : written[u] # None => written[u].shown <= Len(publications)
    /\ \A u \in queue : written[u] # None
    /\ \A r \in Requests :
           /\ request[r].job = "sync" =>
                  /\ \A u \in request[r].todo : written[u] # None
                  /\ request[r].next # None =>
                         request[r].next \in request[r].todo /\ request[r].row # None
           /\ request[r].job = "correct" => entries[request[r].item] # None

Typing == TypeOK /\ Timing /\ Referring

(* What is known of a request by its job.                                  *)
LEMMA RequestShapes ==
    ASSUME TypeOK, NEW r \in Requests
    PROVE  /\ request[r] = Idle <=> request[r].job = "idle"
           /\ request[r].job \in {"sync", "answer"} =>
                  /\ request[r] \in FlushRequest
                  /\ request[r].todo \subseteq Lots /\ request[r].ok \subseteq Lots
                  /\ request[r].next \in Lots \cup {None}
                  /\ request[r].row \in Entry \cup {None}
                  /\ request[r].inserted \in [Lots -> Entry \cup {None}]
           /\ request[r].job = "correct" =>
                  /\ request[r].item \in Lots
                  /\ request[r].to \in Correction /\ request[r].loaded \in Entry
BY DEF TypeOK, FlushRequest, CorrectRequest, Idle

(* A request that starts, goes on or ends is the only one that changes.    *)
LEMMA RequestWritten ==
    ASSUME TypeOK, NEW r \in Requests,
           NEW what \in {Idle} \cup FlushRequest \cup CorrectRequest,
           request' = [request EXCEPT ![r] = what]
    PROVE  /\ request' \in [Requests -> {Idle} \cup FlushRequest \cup CorrectRequest]
           /\ request'[r] = what
           /\ \A o \in Requests \ {r} : request'[o] = request[o]
BY DEF TypeOK

(* There is room for another instant while there is a publish to begin or  *)
(* commit, or a note to write.                                             *)
LEMMA ClockHasRoom ==
    ASSUME TypeOK, Timing
    PROVE  /\ clock \in Nat /\ clock \in Instants
           /\ publishing = None /\ Len(publications) < MaxPublications => clock + 1 \in Instants
           /\ publishing # None => clock + 1 \in Instants
           /\ \A u \in Lots : written[u] = None => clock + 1 \in Instants
<1>1. /\ Len(publications) \in Nat /\ Len(FirstPublications) \in Nat
      /\ Len(publications) <= MaxPublications /\ MaxPublications \in Nat
      /\ Len(FirstPublications) <= Len(publications)
      /\ publishing # None => Len(publications) + 1 <= MaxPublications
  BY SyncAssumption DEF TypeOK, Timing
<1>2. /\ IsFiniteSet(Lots) /\ Cardinality(Lots) \in Nat /\ Started \subseteq Lots
      /\ Cardinality(Started) \in Nat /\ Cardinality(Started) <= Cardinality(Lots)
  BY SyncAssumption, FS_Subset, FS_CardinalityType DEF Started
<1>3. ASSUME NEW u \in Lots, written[u] = None
      PROVE  Cardinality(Started) + 1 <= Cardinality(Lots)
  <2>1. Started # Lots
    BY <1>3 DEF Started
  <2>2. Cardinality(Started) # Cardinality(Lots)
    BY <1>2, <2>1, FS_Subset
  <2> QED BY <1>2, <2>2
<1>4. /\ clock \in Nat
      /\ clock = 2 * Len(publications) - Len(FirstPublications)
                     + (IF publishing = None THEN 0 ELSE 1) + Cardinality(Started)
  BY DEF TypeOK, Instants, Timing
<1>5. Instants = 0..(MaxPublications * 2 + Cardinality(Lots))
  BY DEF Instants
<1>6. clock \in Instants
  BY DEF TypeOK
<1>7. \A u \in Lots : written[u] = None => Cardinality(Started) + 1 <= Cardinality(Lots)
  BY <1>3
<1> DEFINE c == Cardinality(Started)
           n == Cardinality(Lots)
           p == Len(publications)
           f == Len(FirstPublications)
<1>8. /\ c \in Nat /\ n \in Nat /\ p \in Nat /\ f \in Nat /\ c <= n /\ f <= p
      /\ p <= MaxPublications /\ (publishing # None => p + 1 <= MaxPublications)
      /\ clock = 2 * p - f + (IF publishing = None THEN 0 ELSE 1) + c
  BY <1>1, <1>2, <1>4
<1>9. \A u \in Lots : written[u] = None => c + 1 <= n
  BY <1>7
<1> HIDE DEF Started, c, n, p, f
<1>10. /\ publishing # None => clock + 1 <= 2 * MaxPublications + n
       /\ publishing = None /\ p < MaxPublications => clock + 1 <= 2 * MaxPublications + n
  BY <1>1, <1>8
<1>11. c + 1 <= n => clock + 1 <= 2 * MaxPublications + n
  BY <1>1, <1>8
<1>12. clock + 1 <= 2 * MaxPublications + n => clock + 1 \in Instants
  BY <1>1, <1>4, <1>5, <1>8 DEF n
<1> QED BY <1>4, <1>6, <1>9, <1>10, <1>11, <1>12 DEF p

(* Any set of naturals up to some bound has a greatest one.                *)
LEMMA HasGreatest ==
    ASSUME NEW n \in Nat, NEW T \in SUBSET (0..n), T # {}
    PROVE  \E x \in T : \A y \in T : y <= x
<1> DEFINE R == {ss \in Nat \X Nat : ss[1] < ss[2]}
           D == {n - x : x \in T}
<1>1. IsWellFoundedOn(R, Nat)
  BY NatLessThanWellFounded DEF OpToRel
<1>2. D \subseteq Nat /\ D # {}
  <2>1. \A x \in T : n - x \in Nat
    OBVIOUS
  <2> QED BY <2>1
<1>3. PICK d \in D : \A y \in D : ~(<<y, d>> \in R)
  <2> HIDE DEF R, D
  <2> QED BY <1>1, <1>2, WFMin
<1>4. PICK x \in T : d = n - x
  OBVIOUS
<1>5. ASSUME NEW y \in T
      PROVE  y <= x
  <2>1. <<n - y, d>> \in Nat \X Nat /\ ~(<<n - y, d>> \in R)
    BY <1>2, <1>3
  <2>2. ~(n - y < n - x)
    BY <1>4, <2>1
  <2> QED BY <2>2
<1> QED BY <1>5

(* The publication effective at an instant is the latest one published by  *)
(* then.                                                                   *)
LEMMA EffectiveIsLatest ==
    ASSUME TypeOK, NEW t \in Nat
    PROVE  /\ EffectiveAsOf(t) \in 0..Len(publications)
           /\ EffectiveAsOf(t) # 0 => publications[EffectiveAsOf(t)].at <= t
           /\ \A p \in (EffectiveAsOf(t) + 1)..Len(publications) : publications[p].at > t
<1> DEFINE n == Len(publications)
           past == {p \in 1..n : publications[p].at <= t}
<1>1. /\ n \in Nat
      /\ \A p \in 1..n : publications[p].at \in Nat
  <2>1. publications \in Seq(Publication)
    BY DEF TypeOK
  <2>2. n \in Nat /\ \A p \in 1..n : publications[p] \in Publication
    BY <2>1
  <2> QED BY <2>2 DEF Publication, Instants
<1>2. EffectiveAsOf(t) = IF past = {} THEN 0 ELSE CHOOSE p \in past : \A q \in past : q <= p
  BY DEF EffectiveAsOf
<1>3. CASE past = {}
  <2>1. EffectiveAsOf(t) = 0
    BY <1>2, <1>3
  <2>2. \A p \in 1..n : publications[p].at > t
    BY <1>1, <1>3
  <2> QED BY <1>1, <2>1, <2>2
<1>4. CASE past # {}
  <2>1. \E p \in past : \A q \in past : q <= p
    <3>1. past \in SUBSET (0..n)
      OBVIOUS
    <3> HIDE DEF past, n
    <3> QED BY <1>1, <1>4, <3>1, HasGreatest
  <2>2. EffectiveAsOf(t) \in past /\ \A q \in past : q <= EffectiveAsOf(t)
    <3> HIDE DEF past
    <3> QED BY <1>2, <1>4, <2>1
  <2> QED BY <1>1, <2>2
<1> QED BY <1>3, <1>4

(* A row made of a note is a row, of a publication that has been.          *)
LEMMA RowOfIsEntry ==
    ASSUME Typing, NEW u \in Lots, written[u] # None, Scorable(u)
    PROVE  /\ RowOf(u) \in Entry /\ RowOf(u) # None
           /\ RowOf(u).publication = EffectiveAsOf(written[u].at)
           /\ RowOf(u).publication \in 1..Len(publications)
           /\ RowOf(u).known = Len(publications)
<1>1. NoteOf[u] \in Note /\ written[u] \in Writing
  BY SyncAssumption DEF Typing, TypeOK
<1>2. written[u].at \in Nat /\ written[u].at \in Instants
  BY <1>1 DEF Writing, Instants
<1>3. EffectiveAsOf(written[u].at) \in 1..Len(publications)
  <2>1. EffectiveAsOf(written[u].at) \in 0..Len(publications)
    BY <1>2, EffectiveIsLatest DEF Typing
  <2>2. EffectiveAsOf(written[u].at) # 0
    BY DEF Scorable, HasLine
  <2> QED BY <2>1, <2>2
<1>4. Len(publications) \in 0..MaxPublications /\ Len(publications) \in Nat
  BY SyncAssumption DEF Typing, TypeOK
<1> DEFINE p == EffectiveAsOf(written[u].at)
<1>5. p \in 1..MaxPublications
  BY <1>3, <1>4, SyncAssumption
<1>6. IsBreach(NoteOf[u].price, NoteOf[u].weight, DnbpOf(p, NoteOf[u].species)) \in BOOLEAN
  BY DEF IsBreach
<1> HIDE DEF p
<1>7. RowOf(u) = [price |-> NoteOf[u].price, weight |-> NoteOf[u].weight,
                  heads |-> NoteOf[u].heads, at |-> written[u].at, publication |-> p,
                  breach |-> IsBreach(NoteOf[u].price, NoteOf[u].weight,
                                      DnbpOf(p, NoteOf[u].species)),
                  deleted |-> FALSE, known |-> Len(publications)]
  BY DEF RowOf, p, Live
<1>8. RowOf(u) \in Entry
  BY <1>1, <1>2, <1>4, <1>5, <1>6, <1>7 DEF Note, Entry
<1>9. RowOf(u) # None
  BY <1>8, NullAssumption
<1>10. RowOf(u).publication = p /\ RowOf(u).known = Len(publications)
  BY <1>7
<1> QED BY <1>3, <1>8, <1>9, <1>10 DEF p

(* Requests and rows change while the board and the notes stay.            *)
LEMMA TypingOfRequests ==
    ASSUME Typing, UNCHANGED boardVars, written' = written, queue' \subseteq queue,
           entries' \in [Lots -> Entry \cup {None}],
           \A u \in Lots : entries[u] # None => entries'[u] # None,
           request' \in [Requests -> {Idle} \cup FlushRequest \cup CorrectRequest],
           \A r \in Requests :
               \/ request'[r] \in {Idle, request[r]}
               \/ /\ request'[r].job = "sync" =>
                         /\ \A u \in request'[r].todo : written[u] # None
                         /\ request'[r].next # None =>
                                /\ request'[r].next \in request'[r].todo
                                /\ request'[r].row # None
                  /\ request'[r].job = "correct" =>
                         request'[r].item \in Lots /\ entries[request'[r].item] # None,
           disturbances' \in 0..MaxDisturbances, torn' \subseteq Lots
    PROVE  Typing'
<1>1. TypeOK'
  BY DEF Typing, TypeOK, boardVars, Instants
<1>2. Timing'
  BY DEF Typing, Timing, boardVars, Started
<1>3. ASSUME NEW r \in Requests
      PROVE  /\ request'[r].job = "sync" =>
                    /\ \A u \in request'[r].todo : written'[u] # None
                    /\ request'[r].next # None =>
                           request'[r].next \in request'[r].todo /\ request'[r].row # None
             /\ request'[r].job = "correct" => entries'[request'[r].item] # None
  <2>1. CASE request'[r] = Idle
    BY <2>1 DEF Idle
  <2>2. CASE request'[r] = request[r]
    BY <2>2, RequestShapes DEF Typing, Referring
  <2>3. CASE request'[r] \notin {Idle, request[r]}
    BY <2>3
  <2> QED BY <2>1, <2>2, <2>3
<1>4. /\ \A u \in Lots : written'[u] # None => written'[u].shown <= Len(publications')
      /\ \A u \in queue' : written'[u] # None
  BY DEF Typing, Referring, boardVars
<1>5. Referring'
  BY <1>3, <1>4 DEF Referring
<1> QED BY <1>1, <1>2, <1>5 DEF Typing

LEMMA TypingOfPublishing ==
    ASSUME Typing, BeginPublish \/ CommitPublish
    PROVE  /\ Typing'
           /\ Len(publications) <= Len(publications')
           /\ \A p \in 1..Len(publications) : publications'[p] = publications[p]
<1>0. /\ publications \in Seq(Publication) /\ Len(publications) \in Nat
      /\ Len(publications) <= MaxPublications
      /\ MaxPublications \in Nat
      /\ clock \in Nat
      /\ publishing \in Publishing \cup {None}
      /\ written \in [Lots -> Writing \cup {None}]
      /\ Len(FirstPublications) \in Nat
      /\ Cardinality(Started) \in Nat
  <2>1. Started \subseteq Lots
    BY DEF Started
  <2>2. Cardinality(Started) \in Nat
    BY <2>1, SyncAssumption, FS_Subset, FS_CardinalityType
  <2> QED BY <2>2, SyncAssumption DEF Typing, TypeOK, Instants
<1>1. CASE BeginPublish
  <2>1. PICK b \in Boards[Len(publications) + 1] : publishing' = [board |-> b, at |-> clock + 1]
    BY <1>1 DEF BeginPublish
  <2>2. /\ publishing = None /\ Len(publications) < MaxPublications
        /\ clock' = clock + 1
        /\ UNCHANGED <<publications, phoneVars, entries, request, disturbances, torn>>
    BY <1>1 DEF BeginPublish
  <2>3. clock' \in Instants
    BY <2>2, ClockHasRoom DEF Typing
  <2>4. publishing' \in Publishing
    <3>1. Len(publications) + 1 \in 1..MaxPublications
      BY <1>0, <2>2
    <3>2. b \in Board
      BY <3>1, SyncAssumption
    <3> QED BY <2>1, <2>2, <2>3, <3>2 DEF Publishing
  <2>5. TypeOK'
    BY <2>2, <2>3, <2>4 DEF Typing, TypeOK, phoneVars, Instants
  <2>6. Timing'
    <3>1. publishing' # None
      BY <2>4, NullAssumption
    <3>2. Started' = Started
      BY <2>2 DEF Started, phoneVars
    <3> QED BY <1>0, <2>2, <3>1, <3>2 DEF Typing, Timing
  <2>7. Referring'
    BY <2>2 DEF Typing, Referring, phoneVars
  <2> QED BY <1>0, <2>2, <2>5, <2>6, <2>7 DEF Typing
<1>2. CASE CommitPublish
  <2> DEFINE new == [board |-> publishing.board, at |-> publishing.at, from |-> clock + 1]
  <2>1. /\ publishing # None /\ publishing' = None /\ clock' = clock + 1
        /\ publications' = Append(publications, new)
        /\ UNCHANGED <<phoneVars, entries, request, disturbances, torn>>
    BY <1>2 DEF CommitPublish
  <2>2. clock' \in Instants
    BY <2>1, ClockHasRoom DEF Typing
  <2>3. new \in Publication
    BY <1>0, <2>1, <2>2 DEF Publishing, Publication
  <2> HIDE DEF new
  <2>4. /\ publications' \in Seq(Publication)
        /\ Len(publications') = Len(publications) + 1
        /\ \A p \in 1..Len(publications) : publications'[p] = publications[p]
    BY <1>0, <2>1, <2>3
  <2>5. Len(publications') <= MaxPublications
    BY <1>0, <2>1, <2>4 DEF Typing, Timing
  <2>6. TypeOK'
    BY <2>1, <2>2, <2>4, <2>5 DEF Typing, TypeOK, phoneVars, Instants
  <2>7. Timing'
    <3>1. Started' = Started
      BY <2>1 DEF Started, phoneVars
    <3> QED BY <1>0, <2>1, <2>4, <3>1 DEF Typing, Timing
  <2>8. Referring'
    <3>1. \A u \in Lots : written'[u] # None => written'[u].shown <= Len(publications')
      <4> SUFFICES ASSUME NEW u \in Lots, written[u] # None
                   PROVE  written[u].shown <= Len(publications')
        BY <2>1 DEF phoneVars
      <4>1. written[u].shown \in 0..MaxPublications /\ written[u].shown <= Len(publications)
        BY <1>0 DEF Typing, Referring, Writing
      <4> QED BY <1>0, <2>4, <4>1
    <3> QED BY <2>1, <3>1 DEF Typing, Referring, phoneVars
  <2> QED BY <1>0, <2>4, <2>6, <2>7, <2>8 DEF Typing
<1> QED BY <1>1, <1>2

(* What the phone says of a price on its screen.                           *)
Verdict(u, shown) ==
    IF ~HasLine(shown, NoteOf[u].species) THEN "none"
    ELSE BidStatus(NoteOf[u].price, NoteOf[u].weight,
                   FloorToCents(DnbpOf(shown, NoteOf[u].species)))

LEMMA TypingOfNotes ==
    ASSUME Typing, NEW u \in Lots, WriteDown(u)
    PROVE  /\ Typing'
           /\ written[u] = None /\ written'[u] # None
           /\ written'[u].shown \in 0..Len(publications)
           /\ written'[u].verdict = Verdict(u, written'[u].shown)
           /\ \A v \in Lots \ {u} : written'[v] = written[v]
<1>0. /\ Len(publications) \in Nat /\ Len(publications) <= MaxPublications
      /\ MaxPublications \in Nat
      /\ clock \in Nat
      /\ written \in [Lots -> Writing \cup {None}]
      /\ Len(FirstPublications) \in Nat
  BY SyncAssumption DEF Typing, TypeOK, Instants
<1>1. LastShown \in Nat
  <2> DEFINE shown == {written[v].shown : v \in {x \in Lots : written[x] # None}}
  <2>1. shown \in SUBSET (0..Len(publications))
    <3> SUFFICES ASSUME NEW v \in Lots, written[v] # None
                 PROVE  written[v].shown \in 0..Len(publications)
      OBVIOUS
    <3>1. written[v].shown \in 0..MaxPublications /\ written[v].shown <= Len(publications)
      BY <1>0 DEF Typing, Referring, Writing
    <3> QED BY <1>0, <3>1
  <2>2. LastShown = IF shown = {} THEN 0 ELSE CHOOSE x \in shown : \A y \in shown : x >= y
    BY DEF LastShown, Max
  <2>3. CASE shown # {}
    <3>1. \E x \in shown : \A y \in shown : x >= y
      <4>1. PICK x \in shown : \A y \in shown : y <= x
        <5> HIDE DEF shown
        <5> QED BY <1>0, <2>1, <2>3, HasGreatest
      <4>2. \A y \in shown : x >= y
        <5> HIDE DEF shown
        <5> QED BY <1>0, <2>1, <4>1
      <4> QED BY <4>2
    <3>2. LastShown \in shown
      <4> HIDE DEF shown
      <4> QED BY <2>2, <2>3, <3>1
    <3> QED BY <1>0, <2>1, <3>2
  <2> QED BY <2>2, <2>3
<1>2. PICK shown \in LastShown..Len(publications) :
          written' = [written EXCEPT ![u] =
                         [at |-> clock + 1, shown |-> shown, verdict |-> Verdict(u, shown)]]
  BY DEF WriteDown, Verdict, Live
<1>3. /\ written[u] = None /\ clock' = clock + 1 /\ queue' = queue \cup {u}
      /\ UNCHANGED <<publications, publishing, entries, request, disturbances, torn>>
  BY DEF WriteDown
<1>4. clock' \in Instants
  BY <1>3, ClockHasRoom DEF Typing
<1> DEFINE new == [at |-> clock + 1, shown |-> shown, verdict |-> Verdict(u, shown)]
<1>5. shown \in 0..Len(publications) /\ shown \in 0..MaxPublications
  BY <1>0, <1>1
<1>6. new \in Writing
  <2>1. Verdict(u, shown) \in {"PASS", "CLOSE", "BREACH", "none"}
    BY DEF Verdict, BidStatus
  <2> QED BY <1>3, <1>4, <1>5, <2>1 DEF Writing
<1> HIDE DEF new
<1>7. /\ written' = [written EXCEPT ![u] = new]
      /\ new.shown = shown /\ new.verdict = Verdict(u, shown)
  BY <1>2 DEF new
<1>8. /\ written' \in [Lots -> Writing \cup {None}]
      /\ written'[u] = new /\ new # None
      /\ \A v \in Lots \ {u} : written'[v] = written[v]
  BY <1>0, <1>6, <1>7, NullAssumption
<1>9. TypeOK'
  BY <1>3, <1>4, <1>8 DEF Typing, TypeOK, Instants
<1>10. Timing'
  <2>1. Started' = Started \cup {u} /\ u \notin Started
    BY <1>3, <1>8 DEF Started
  <2>2. Started \subseteq Lots /\ IsFiniteSet(Started)
    BY SyncAssumption, FS_Subset DEF Started
  <2>3. Cardinality(Started') = Cardinality(Started) + 1 /\ Cardinality(Started) \in Nat
    BY <2>1, <2>2, FS_AddElement, FS_CardinalityType
  <2> QED BY <1>0, <1>3, <2>3 DEF Typing, Timing
<1>11. Referring'
  <2>1. \A v \in Lots : written'[v] # None => written'[v].shown <= Len(publications')
    <3>1. shown <= Len(publications)
      BY <1>5, <1>0
    <3> QED BY <3>1, <1>3, <1>7, <1>8 DEF Typing, Referring
  <2>2. \A v \in Lots : written[v] # None => written'[v] # None
    BY <1>8
  <2>3. \A v \in queue' : written'[v] # None
    BY <1>3, <1>8, <2>2 DEF Typing, TypeOK, Referring
  <2>4. ASSUME NEW r \in Requests
        PROVE  /\ request'[r].job = "sync" =>
                      /\ \A v \in request'[r].todo : written'[v] # None
                      /\ request'[r].next # None =>
                             request'[r].next \in request'[r].todo /\ request'[r].row # None
               /\ request'[r].job = "correct" => entries'[request'[r].item] # None
    BY <1>3, <2>2, RequestShapes DEF Typing, Referring
  <2> QED BY <2>1, <2>3, <2>4 DEF Referring
<1>12. Typing'
  BY <1>9, <1>10, <1>11 DEF Typing
<1> QED BY <1>3, <1>5, <1>7, <1>8, <1>12

(* The board and the notes stay but for publishing and writing.            *)
LEMMA RequestsLeaveTheWorld ==
    ASSUME NEW r \in Requests,
           \/ \E items \in SUBSET Lots : Flush(r, items)
           \/ ServerStep(r) \/ Die(r) \/ \E u \in Lots : BeginCorrect(r, u)
    PROVE  UNCHANGED boardVars /\ written' = written
BY DEF ServerStep, Flush, Look, Insert, BreakDeadlock, Commit, Answer, CommitCorrect, Die,
       BeginCorrect, phoneVars

(* A row that a correction merges is a row, of the same publication.       *)
LEMMA MergedIsEntry ==
    ASSUME NEW stored \in Entry, NEW loaded \in Entry, NEW c \in Correction, NEW u \in Lots
    PROVE  LET new == Corrected(u, loaded, c)
               row == Merged(stored, loaded, new)
           IN  /\ row \in Entry
               /\ row.at = stored.at /\ row.publication = stored.publication
               /\ row.known = stored.known /\ row.deleted = stored.deleted
               /\ row.price = IF new.price # loaded.price THEN new.price ELSE stored.price
               /\ row.weight = IF new.weight # loaded.weight THEN new.weight ELSE stored.weight
               /\ row.breach = IF new.breach # loaded.breach THEN new.breach ELSE stored.breach
               /\ new.price = OrElse(c.price, loaded.price)
               /\ new.weight = OrElse(c.weight, loaded.weight)
               /\ new.breach = IF c.price # None \/ c.weight # None
                               THEN IsBreach(new.price, new.weight,
                                        DnbpOf(loaded.publication, NoteOf[u].species))
                               ELSE loaded.breach
<1> DEFINE new == Corrected(u, loaded, c)
           row == Merged(stored, loaded, new)
<1>1. PICK price \in Money, weight \in Weight, heads \in Nat :
          /\ price = OrElse(c.price, loaded.price) /\ weight = OrElse(c.weight, loaded.weight)
          /\ heads = OrElse(c.heads, loaded.heads)
  BY DEF OrElse, Correction, Entry
<1>2. PICK breach \in BOOLEAN :
          breach = IF c.price # None \/ c.weight # None
                   THEN IsBreach(price, weight, DnbpOf(loaded.publication, NoteOf[u].species))
                   ELSE loaded.breach
  BY DEF IsBreach, Entry
<1>3. new = [loaded EXCEPT !.price = price, !.weight = weight, !.heads = heads,
                           !.breach = breach]
  BY <1>1, <1>2 DEF Corrected
<1>4. /\ new \in Entry
      /\ new.price = price /\ new.weight = weight /\ new.breach = breach
      /\ new.at = loaded.at /\ new.publication = loaded.publication
      /\ new.known = loaded.known /\ new.deleted = loaded.deleted
  BY <1>3 DEF Entry
<1> HIDE DEF new
<1>5. DOMAIN stored = {"price", "weight", "heads", "at", "publication", "breach", "deleted", "known"}
  BY DEF Entry
<1>6. row = [f \in {"price", "weight", "heads", "at", "publication", "breach", "deleted", "known"} |->
                IF new[f] # loaded[f] THEN new[f] ELSE stored[f]]
  BY <1>5 DEF Merged
<1> HIDE DEF row
<1>7. row \in Entry
  BY <1>4, <1>6 DEF Entry
<1>8. /\ row.at = stored.at /\ row.publication = stored.publication
      /\ row.known = stored.known /\ row.deleted = stored.deleted
      /\ row.price = IF new.price # loaded.price THEN new.price ELSE stored.price
      /\ row.weight = IF new.weight # loaded.weight THEN new.weight ELSE stored.weight
      /\ row.breach = IF new.breach # loaded.breach THEN new.breach ELSE stored.breach
  BY <1>4, <1>6
<1> QED BY <1>1, <1>2, <1>4, <1>7, <1>8 DEF new, row

LEMMA TypingHolds ==
    ASSUME Typing, [Next]_vars
    PROVE  Typing'
<1>t. /\ entries \in [Lots -> Entry \cup {None}]
      /\ request \in [Requests -> {Idle} \cup FlushRequest \cup CorrectRequest]
      /\ written \in [Lots -> Writing \cup {None}]
      /\ queue \subseteq Lots /\ torn \subseteq Lots
      /\ disturbances \in 0..MaxDisturbances /\ MaxDisturbances \in Nat
      /\ \A u \in Lots : entries[u] # None => entries[u] \in Entry
  BY SyncAssumption DEF Typing, TypeOK
(* One request ends, or goes on as it may; all else that changes is small. *)
<1>r. ASSUME NEW r \in Requests,
             NEW what \in {Idle} \cup FlushRequest \cup CorrectRequest,
             \/ what = Idle
             \/ /\ what.job = "sync" =>
                      /\ \A u \in what.todo : written[u] # None
                      /\ what.next # None => what.next \in what.todo /\ what.row # None
                /\ what.job = "correct" => what.item \in Lots /\ entries[what.item] # None,
             request' = [request EXCEPT ![r] = what],
             UNCHANGED boardVars, written' = written, queue' \subseteq queue,
             entries' \in [Lots -> Entry \cup {None}],
             \A u \in Lots : entries[u] # None => entries'[u] # None,
             disturbances' \in 0..MaxDisturbances, torn' \subseteq Lots
      PROVE  Typing'
  <2>1. /\ request' \in [Requests -> {Idle} \cup FlushRequest \cup CorrectRequest]
        /\ request'[r] = what
        /\ \A o \in Requests \ {r} : request'[o] = request[o]
    BY <1>r, RequestWritten DEF Typing
  <2>2. \A o \in Requests :
            \/ request'[o] \in {Idle, request[o]}
            \/ /\ request'[o].job = "sync" =>
                      /\ \A u \in request'[o].todo : written[u] # None
                      /\ request'[o].next # None =>
                             request'[o].next \in request'[o].todo /\ request'[o].row # None
               /\ request'[o].job = "correct" =>
                      request'[o].item \in Lots /\ entries[request'[o].item] # None
    <3> SUFFICES ASSUME NEW o \in Requests
                 PROVE  \/ request'[o] \in {Idle, request[o]}
                        \/ /\ request'[o].job = "sync" =>
                                 /\ \A u \in request'[o].todo : written[u] # None
                                 /\ request'[o].next # None =>
                                        /\ request'[o].next \in request'[o].todo
                                        /\ request'[o].row # None
                           /\ request'[o].job = "correct" =>
                                 request'[o].item \in Lots /\ entries[request'[o].item] # None
      OBVIOUS
    <3>1. CASE o = r
      BY <3>1, <2>1, <1>r
    <3>2. CASE o # r
      BY <3>2, <2>1
    <3> QED BY <3>1, <3>2
  <2> QED BY <1>r, <2>1, <2>2, TypingOfRequests
<1>1. ASSUME NEW r \in Requests, NEW items \in SUBSET Lots, Flush(r, items)
      PROVE  Typing'
  <2> DEFINE what == [job |-> "sync", todo |-> items, ok |-> {}, next |-> None, row |-> None,
                      inserted |-> [u \in Lots |-> None]]
  <2>1. what \in FlushRequest
    BY DEF FlushRequest
  <2>2. /\ what.job = "sync" /\ what.todo = items /\ what.next = None
    OBVIOUS
  <2>3. /\ request' = [request EXCEPT ![r] = what] /\ items \subseteq queue
        /\ UNCHANGED <<boardVars, phoneVars, entries, disturbances, torn>>
    BY <1>1 DEF Flush
  <2> HIDE DEF what
  <2>4. \A u \in what.todo : written[u] # None
    BY <2>2, <2>3 DEF Typing, Referring
  <2> QED BY <1>r, <1>t, <2>1, <2>2, <2>3, <2>4 DEF phoneVars
<1>2. ASSUME NEW r \in Requests, NEW u \in Lots, Look(r, u)
      PROVE  Typing'
  <2> DEFINE q == request[r]
  <2>1. /\ q \in FlushRequest /\ q.job = "sync" /\ q.next = None /\ u \in q.todo
        /\ q.todo \subseteq Lots /\ \A v \in q.todo : written[v] # None
        /\ UNCHANGED <<boardVars, phoneVars, entries, disturbances, torn>>
    BY <1>2, RequestShapes DEF Look, Typing, Referring
  <2>2. PICK what \in FlushRequest :
            /\ request' = [request EXCEPT ![r] = what]
            /\ what.job = "sync" /\ what.todo \subseteq q.todo
            /\ what.next # None => what.next \in what.todo /\ what.row # None
    <3>1. CASE entries[u] # None
      <4>1. [q EXCEPT !.todo = @ \ {u}, !.ok = @ \cup {u}] \in FlushRequest
        BY <2>1 DEF FlushRequest
      <4> QED BY <1>2, <2>1, <3>1, <4>1 DEF Look, FlushRequest
    <3>2. CASE entries[u] = None /\ ~Scorable(u)
      <4>1. [q EXCEPT !.todo = @ \ {u}] \in FlushRequest
        BY <2>1 DEF FlushRequest
      <4> QED BY <1>2, <2>1, <3>2, <4>1 DEF Look, FlushRequest
    <3>3. CASE entries[u] = None /\ Scorable(u)
      <4>1. RowOf(u) \in Entry /\ RowOf(u) # None
        BY <2>1, <3>3, RowOfIsEntry
      <4> DEFINE row == RowOf(u)
      <4>2. request' = [request EXCEPT ![r] = [q EXCEPT !.next = u, !.row = row]]
        BY <1>2, <3>3 DEF Look
      <4> HIDE DEF row
      <4>3. [q EXCEPT !.next = u, !.row = row] \in FlushRequest
        BY <2>1, <4>1 DEF FlushRequest, row
      <4> QED BY <2>1, <4>1, <4>2, <4>3 DEF FlushRequest, row
    <3> QED BY <3>1, <3>2, <3>3
  <2>3. \A v \in what.todo : written[v] # None
    BY <2>1, <2>2
  <2> QED BY <1>r, <1>t, <2>1, <2>2, <2>3 DEF phoneVars
<1>3. ASSUME NEW r \in Requests, Insert(r)
      PROVE  Typing'
  <2> DEFINE q == request[r]
  <2>1. /\ q \in FlushRequest /\ q.job = "sync" /\ q.next # None
        /\ q.next \in Lots /\ q.row \in Entry
        /\ q.todo \subseteq Lots /\ \A v \in q.todo : written[v] # None
        /\ UNCHANGED <<boardVars, phoneVars, entries, disturbances, torn>>
    BY <1>3, RequestShapes DEF Insert, Typing, Referring
  <2>2. PICK what \in {Idle} \cup FlushRequest :
            /\ request' = [request EXCEPT ![r] = what]
            /\ what = Idle \/ (what.job = "sync" /\ what.todo \subseteq q.todo /\ what.next = None)
    <3>1. CASE entries[q.next] # None
      BY <1>3, <3>1 DEF Insert
    <3>2. CASE entries[q.next] = None
      <4> DEFINE w == [q EXCEPT !.todo = @ \ {q.next}, !.ok = @ \cup {q.next},
                                !.inserted[q.next] = q.row, !.next = None, !.row = None]
      <4>1. w \in FlushRequest /\ w.job = "sync" /\ w.todo \subseteq q.todo /\ w.next = None
        BY <2>1 DEF FlushRequest
      <4>2. request' = [request EXCEPT ![r] = w]
        BY <1>3, <3>2 DEF Insert
      <4> HIDE DEF w
      <4> QED BY <4>1, <4>2
    <3> QED BY <3>1, <3>2
  <2>3. what = Idle \/ \A v \in what.todo : written[v] # None
    BY <2>1, <2>2
  <2> HIDE DEF q
  <2>4. what \in {Idle} \cup FlushRequest \cup CorrectRequest
    OBVIOUS
  <2> QED BY <1>r, <1>t, <2>1, <2>2, <2>3, <2>4 DEF phoneVars
<1>4. ASSUME NEW r \in Requests, NEW what \in {Idle},
             request' = [request EXCEPT ![r] = what],
             UNCHANGED <<boardVars, written, entries, torn>>, queue' \subseteq queue,
             disturbances' \in 0..MaxDisturbances
      PROVE  Typing'
  BY <1>r, <1>t, <1>4
<1>5. ASSUME NEW r \in Requests, BreakDeadlock(r) \/ Answer(r) \/ Die(r)
      PROVE  Typing'
  <2>1. disturbances' \in 0..MaxDisturbances
    BY <1>5, <1>t DEF BreakDeadlock, Answer, Die
  <2> QED BY <1>4, <1>5, <2>1 DEF BreakDeadlock, Answer, Die, phoneVars
<1>6. ASSUME NEW r \in Requests, Commit(r)
      PROVE  Typing'
  <2> DEFINE q == request[r]
             what == [q EXCEPT !.job = "answer", !.inserted = [u \in Lots |-> None]]
  <2>1. /\ q \in FlushRequest /\ q.inserted \in [Lots -> Entry \cup {None}]
        /\ request' = [request EXCEPT ![r] = what]
        /\ entries' = [u \in Lots |-> IF q.inserted[u] # None THEN q.inserted[u] ELSE entries[u]]
        /\ UNCHANGED <<boardVars, phoneVars, disturbances, torn>>
    BY <1>6, RequestShapes DEF Commit, Typing
  <2>2. what \in FlushRequest /\ what.job = "answer"
    BY <2>1 DEF FlushRequest
  <2>3. /\ entries' \in [Lots -> Entry \cup {None}]
        /\ \A u \in Lots : entries[u] # None => entries'[u] # None
    BY <1>t, <2>1
  <2> HIDE DEF what
  <2> QED BY <1>r, <1>t, <2>1, <2>2, <2>3 DEF phoneVars
<1>7. ASSUME NEW r \in Requests, CommitCorrect(r)
      PROVE  Typing'
  <2> DEFINE q == request[r]
             u == q.item
             row == Merged(entries[u], q.loaded, Corrected(u, q.loaded, q.to))
  <2>1. /\ u \in Lots /\ q.loaded \in Entry /\ q.to \in Correction
        /\ entries[u] \in Entry
    BY <1>7, <1>t, RequestShapes DEF CommitCorrect, Typing, Referring
  <2>2. /\ entries' = [entries EXCEPT ![u] = row]
        /\ request' = [request EXCEPT ![r] = Idle]
        /\ torn' \subseteq Lots
        /\ UNCHANGED <<boardVars, phoneVars, disturbances>>
    BY <1>7, <1>t, <2>1 DEF CommitCorrect
  <2>3. row \in Entry
    BY <2>1, MergedIsEntry
  <2> HIDE DEF row, q, u
  <2>4. /\ entries' \in [Lots -> Entry \cup {None}]
        /\ \A v \in Lots : entries[v] # None => entries'[v] # None
    BY <1>t, <2>1, <2>2, <2>3, NullAssumption
  <2> QED BY <1>r, <1>t, <2>2, <2>4 DEF phoneVars
<1>8. ASSUME NEW r \in Requests, NEW u \in Lots, BeginCorrect(r, u)
      PROVE  Typing'
  <2>1. PICK c \in CorrectionsOf[u] :
            request' = [request EXCEPT ![r] =
                [job |-> "correct", item |-> u, to |-> c, loaded |-> entries[u]]]
    BY <1>8 DEF BeginCorrect
  <2> DEFINE what == [job |-> "correct", item |-> u, to |-> c, loaded |-> entries[u]]
  <2>2. /\ entries[u] \in Entry
        /\ disturbances' \in 0..MaxDisturbances
        /\ UNCHANGED <<boardVars, phoneVars, entries, torn>>
    BY <1>8, <1>t DEF BeginCorrect
  <2>3. c \in Correction
    BY SyncAssumption
  <2>4. /\ what \in CorrectRequest /\ what.job = "correct" /\ what.item = u
    BY <2>2, <2>3 DEF CorrectRequest
  <2>5. request' = [request EXCEPT ![r] = what] /\ entries[u] # None
    BY <1>8, <2>1 DEF BeginCorrect
  <2> HIDE DEF what
  <2> QED BY <1>r, <1>t, <2>2, <2>4, <2>5 DEF phoneVars
<1>9. ASSUME NEW u \in Lots, Delete(u)
      PROVE  Typing'
  <2> DEFINE row == [entries[u] EXCEPT !.deleted = TRUE]
  <2>1. /\ entries[u] \in Entry
        /\ entries' = [entries EXCEPT ![u] = row]
        /\ disturbances' \in 0..MaxDisturbances
        /\ UNCHANGED <<boardVars, phoneVars, request, torn>>
    BY <1>9, <1>t DEF Delete
  <2>2. row \in Entry
    BY <2>1 DEF Entry
  <2> HIDE DEF row
  <2>3. /\ entries' \in [Lots -> Entry \cup {None}]
        /\ \A v \in Lots : entries[v] # None => entries'[v] # None
    BY <1>t, <2>1, <2>2, NullAssumption
  <2> QED BY <1>t, <2>1, <2>3, TypingOfRequests DEF phoneVars
<1>10. CASE UNCHANGED vars
  BY <1>10, <1>t, TypingOfRequests DEF vars, boardVars, phoneVars
<1> QED
  BY <1>1, <1>2, <1>3, <1>5, <1>6, <1>7, <1>8, <1>9, <1>10, TypingOfPublishing, TypingOfNotes
     DEF Next, ServerStep

LEMMA FirstTyping == Init => Typing
<1> SUFFICES ASSUME Init PROVE Typing
  OBVIOUS
<1>1. /\ FirstPublications \in Seq([board : Board, at : Nat, from : Nat])
      /\ Len(FirstPublications) \in Nat /\ Len(FirstPublications) <= MaxPublications
      /\ MaxPublications \in Nat /\ MaxDisturbances \in Nat
      /\ Cardinality(Lots) \in Nat
  BY SyncAssumption, FS_CardinalityType
<1>2. \A n \in 0..MaxPublications : n \in Instants
  BY <1>1 DEF Instants
<1>3. FirstPublications \in Seq(Publication)
  <2>1. ASSUME NEW i \in 1..Len(FirstPublications)
        PROVE  FirstPublications[i] \in Publication
    <3>1. i \in Instants
      BY <1>1, <1>2
    <3>2. FirstPublications[i] \in [board : Board, at : Nat, from : Nat]
      <4>1. ASSUME NEW S, FirstPublications \in Seq(S)
            PROVE  FirstPublications[i] \in S
        BY <4>1
      <4> QED BY <4>1, <1>1
    <3>3. FirstPublications[i].at = i /\ FirstPublications[i].from = i
      BY SyncAssumption
    <3> QED BY <3>1, <3>2, <3>3 DEF Publication
  <2> QED BY <1>1, <2>1
<1>4. TypeOK
  BY <1>1, <1>2, <1>3 DEF Init, TypeOK
<1>5. Started = {}
  BY DEF Init, Started
<1>6. Timing
  BY <1>1, <1>5, FS_EmptySet DEF Init, Timing
<1>7. Referring
  BY DEF Init, Referring, Idle
<1> QED BY <1>4, <1>6, <1>7 DEF Typing

(* Rows, notes, publications and requests have their shape (BuyerSync).    *)
THEOREM TypesHold == Spec => []TypeOK
<1>1. Typing /\ [Next]_vars => Typing'
  BY TypingHolds
<1>2. Typing => TypeOK
  BY DEF Typing
<1> QED BY FirstTyping, <1>1, <1>2, PTL DEF Spec

-----------------------------------------------------------------------------
(* What a step may do to a flush and to a row.                             *)

(* A flush under way is as before, has begun, has looked an item up or     *)
(* inserted the one it had looked up.                                      *)
LEMMA SyncSteps ==
    ASSUME Typing, [Next]_vars, NEW r \in Requests, request'[r].job = "sync"
    PROVE  \/ request'[r] = request[r]
           \/ /\ request'[r].next = None /\ request'[r].ok = {}
              /\ \A u \in Lots : request'[r].inserted[u] = None
           \/ /\ request[r].job = "sync"
              /\ entries' = entries
              /\ request'[r].inserted = request[r].inserted
              /\ \A u \in request'[r].ok : u \in request[r].ok \/ entries[u] # None
              /\ request'[r].next # None =>
                     /\ written[request'[r].next] # None /\ Scorable(request'[r].next)
                     /\ request'[r].row = RowOf(request'[r].next)
           \/ /\ request[r].job = "sync" /\ request[r].next # None
              /\ entries' = entries /\ entries[request[r].next] = None
              /\ \A o \in Requests \ {r} :
                    /\ request'[o] = request[o]
                    /\ request[o].job = "sync" => request[o].inserted[request[r].next] = None
              /\ request'[r].inserted =
                     [request[r].inserted EXCEPT ![request[r].next] = request[r].row]
              /\ request'[r].ok = request[r].ok \cup {request[r].next}
              /\ request'[r].next = None
<1>t. request \in [Requests -> {Idle} \cup FlushRequest \cup CorrectRequest]
  BY DEF Typing, TypeOK
<1> DEFINE Same == request'[r] = request[r]
           Begun == /\ request'[r].next = None /\ request'[r].ok = {}
                    /\ \A u \in Lots : request'[r].inserted[u] = None
           Looked == /\ request[r].job = "sync"
                     /\ entries' = entries
                     /\ request'[r].inserted = request[r].inserted
                     /\ \A u \in request'[r].ok : u \in request[r].ok \/ entries[u] # None
                     /\ request'[r].next # None =>
                            /\ written[request'[r].next] # None /\ Scorable(request'[r].next)
                            /\ request'[r].row = RowOf(request'[r].next)
           Inserted == /\ request[r].job = "sync" /\ request[r].next # None
                       /\ entries' = entries /\ entries[request[r].next] = None
                       /\ \A o \in Requests \ {r} :
                             /\ request'[o] = request[o]
                             /\ request[o].job = "sync" =>
                                    request[o].inserted[request[r].next] = None
                       /\ request'[r].inserted =
                              [request[r].inserted EXCEPT ![request[r].next] = request[r].row]
                       /\ request'[r].ok = request[r].ok \cup {request[r].next}
                       /\ request'[r].next = None
<1>1. ASSUME NEW o \in Requests, request' = [request EXCEPT ![o] = Idle] PROVE Same
  BY <1>1, <1>t DEF Idle
<1>2. ASSUME NEW o \in Requests, NEW items \in SUBSET Lots, Flush(o, items) PROVE Same \/ Begun
  BY <1>2, <1>t DEF Flush
<1>3. ASSUME NEW o \in Requests, NEW u \in Lots, Look(o, u) PROVE Same \/ Looked
  <2>1. CASE o # r
    BY <1>3, <2>1, <1>t DEF Look
  <2>2. CASE o = r
    <3>1. /\ request[r] \in FlushRequest /\ request[r].job = "sync" /\ request[r].next = None
          /\ u \in request[r].todo /\ written[u] # None /\ entries' = entries
      BY <1>3, <2>2, RequestShapes DEF Look, Typing, Referring
    <3>2. CASE entries[u] # None
      BY <1>3, <1>t, <2>2, <3>1, <3>2 DEF Look, FlushRequest
    <3>3. CASE entries[u] = None /\ ~Scorable(u)
      BY <1>3, <1>t, <2>2, <3>1, <3>3 DEF Look, FlushRequest
    <3>4. CASE entries[u] = None /\ Scorable(u)
      <4> DEFINE row == RowOf(u)
      <4>1. request'[r] = [request[r] EXCEPT !.next = u, !.row = row]
        BY <1>3, <1>t, <2>2, <3>4 DEF Look
      <4> HIDE DEF row
      <4>2. /\ request'[r].inserted = request[r].inserted /\ request'[r].ok = request[r].ok
            /\ request'[r].next = u /\ request'[r].row = row
        BY <3>1, <4>1 DEF FlushRequest
      <4> QED BY <3>1, <3>4, <4>2 DEF row
    <3> QED BY <3>2, <3>3, <3>4
  <2> QED BY <2>1, <2>2
<1>4. ASSUME NEW o \in Requests, Insert(o) PROVE Same \/ Inserted
  <2>1. CASE o # r
    BY <1>4, <2>1, <1>t DEF Insert
  <2>2. CASE o = r
    <3>1. /\ request[r] \in FlushRequest /\ request[r].job = "sync" /\ request[r].next # None
          /\ entries' = entries
      BY <1>4, <2>2, RequestShapes DEF Insert, Typing
    <3>2. entries[request[r].next] = None
      BY <1>4, <1>t, <2>2 DEF Insert, Idle
    <3> DEFINE q == request[r]
               w == [q EXCEPT !.todo = @ \ {q.next}, !.ok = @ \cup {q.next},
                              !.inserted[q.next] = q.row, !.next = None, !.row = None]
    <3>3. request' = [request EXCEPT ![r] = w]
      BY <1>4, <2>2, <3>2 DEF Insert
    <3>4. /\ w.inserted = [q.inserted EXCEPT ![q.next] = q.row]
          /\ w.ok = q.ok \cup {q.next} /\ w.next = None
      BY <3>1 DEF FlushRequest
    <3>5. \A x \in Requests \ {r} : request[x].job = "sync" => request[x].inserted[q.next] = None
      BY <1>4, <2>2, <3>1 DEF Insert, WaitsFor
    <3> HIDE DEF w
    <3> QED BY <1>t, <3>1, <3>2, <3>3, <3>4, <3>5
  <2> QED BY <2>1, <2>2
<1>5. ASSUME NEW o \in Requests, Commit(o) PROVE Same
  <2>1. CASE o = r
    <3>1. request[r] \in FlushRequest
      BY <1>5, <2>1, RequestShapes DEF Commit, Typing
    <3>2. request'[r].job = "answer"
      BY <1>5, <1>t, <2>1, <3>1 DEF Commit, FlushRequest
    <3> QED BY <3>2
  <2>2. CASE o # r
    BY <1>5, <1>t, <2>2 DEF Commit
  <2> QED BY <2>1, <2>2
<1>6. ASSUME NEW o \in Requests, NEW u \in Lots, BeginCorrect(o, u) PROVE Same
  BY <1>6, <1>t DEF BeginCorrect
<1>7. ASSUME UNCHANGED request PROVE Same
  BY <1>7
<1> HIDE DEF Same, Begun, Looked, Inserted
<1>8. Same \/ Begun \/ Looked \/ Inserted
  BY <1>1, <1>2, <1>3, <1>4, <1>5, <1>6, <1>7
     DEF Next, ServerStep, vars, BeginPublish, CommitPublish, WriteDown, BreakDeadlock, Answer,
         CommitCorrect, Die, Delete
<1> QED BY <1>8 DEF Same, Begun, Looked, Inserted

(* A flush that is being answered was so before, or has just committed.    *)
LEMMA AnswerSteps ==
    ASSUME Typing, [Next]_vars, NEW r \in Requests, request'[r].job = "answer"
    PROVE  /\ request'[r] = request[r] \/ Commit(r)
           /\ request'[r].ok = request[r].ok
<1>t. request \in [Requests -> {Idle} \cup FlushRequest \cup CorrectRequest]
  BY DEF Typing, TypeOK
<1> DEFINE Same == request'[r] = request[r]
<1>1. ASSUME NEW o \in Requests, request' = [request EXCEPT ![o] = Idle] PROVE Same
  BY <1>1, <1>t DEF Idle
<1>2. ASSUME NEW o \in Requests, NEW items \in SUBSET Lots, Flush(o, items) PROVE Same
  BY <1>2, <1>t DEF Flush
<1>3. ASSUME NEW o \in Requests, NEW what \in FlushRequest, what.job = "sync",
             request' = [request EXCEPT ![o] = what]
      PROVE  Same
  BY <1>3, <1>t
<1>4. ASSUME NEW o \in Requests, Insert(o) \/ \E u \in Lots : Look(o, u) PROVE Same
  <2>1. CASE o # r
    BY <1>4, <2>1, <1>t DEF Look, Insert
  <2>2. CASE o = r
    <3>1. request[r] \in FlushRequest /\ request[r].job = "sync"
      BY <1>4, <2>2, RequestShapes DEF Look, Insert, Typing
    <3>2. request'[r].job # "answer"
      <4>1. ASSUME NEW u \in Lots, Look(r, u) PROVE request'[r].job # "answer"
        <5> DEFINE row == RowOf(u)
        <5>1. \/ request'[r] = [request[r] EXCEPT !.todo = @ \ {u}, !.ok = @ \cup {u}]
              \/ request'[r] = [request[r] EXCEPT !.todo = @ \ {u}]
              \/ request'[r] = [request[r] EXCEPT !.next = u, !.row = row]
          BY <4>1, <1>t DEF Look
        <5> HIDE DEF row
        <5> QED BY <3>1, <5>1 DEF FlushRequest
      <4>2. CASE Insert(r)
        BY <3>1, <4>2, <1>t DEF Insert, FlushRequest, Idle
      <4> QED BY <1>4, <2>2, <4>1, <4>2
    <3> QED BY <3>2
  <2> QED BY <2>1, <2>2
<1>5. ASSUME NEW o \in Requests, Commit(o)
      PROVE  (Same \/ Commit(r)) /\ request'[r].ok = request[r].ok
  <2>1. CASE o = r
    <3>1. request[r] \in FlushRequest
      BY <1>5, <2>1, RequestShapes DEF Commit, Typing
    <3> QED BY <1>5, <1>t, <2>1, <3>1 DEF Commit, FlushRequest
  <2>2. CASE o # r
    BY <1>5, <1>t, <2>2 DEF Commit
  <2> QED BY <2>1, <2>2
<1>6. ASSUME NEW o \in Requests, NEW u \in Lots, BeginCorrect(o, u) PROVE Same
  BY <1>6, <1>t DEF BeginCorrect
<1>7. ASSUME UNCHANGED request PROVE Same
  BY <1>7
<1>8. Same => request'[r].ok = request[r].ok
  OBVIOUS
<1> HIDE DEF Same
<1>9. Same \/ \E o \in Requests : Commit(o)
  BY <1>1, <1>2, <1>4, <1>6, <1>7
     DEF Next, ServerStep, vars, BeginPublish, CommitPublish, WriteDown, BreakDeadlock, Answer,
         CommitCorrect, Die, Delete
<1> QED BY <1>5, <1>8, <1>9 DEF Same

(* A row is as before, has been committed, corrected or deleted.           *)
LEMMA RowSteps ==
    ASSUME Typing, [Next]_vars, NEW u \in Lots
    PROVE  \/ entries'[u] = entries[u] /\ (u \in torn' <=> u \in torn)
           \/ \E r \in Requests :
                 /\ Commit(r) /\ request[r].job = "sync"
                 /\ request[r].inserted[u] # None
                 /\ entries'[u] = request[r].inserted[u]
           \/ \E r \in Requests :
                 /\ CommitCorrect(r) /\ request[r].item = u
                 /\ entries[u] \in Entry /\ entries[u] # None
                 /\ request[r].loaded \in Entry /\ request[r].to \in Correction
                 /\ entries'[u] = Merged(entries[u], request[r].loaded,
                                         Corrected(u, request[r].loaded, request[r].to))
           \/ /\ Delete(u) /\ torn' = torn
              /\ entries[u] \in Entry /\ entries[u] # None
              /\ entries'[u] = [entries[u] EXCEPT !.deleted = TRUE]
<1>t. /\ entries \in [Lots -> Entry \cup {None}]
      /\ \A v \in Lots : entries[v] # None => entries[v] \in Entry
  BY DEF Typing, TypeOK
<1>1. ASSUME NEW r \in Requests, Commit(r)
      PROVE  \/ entries'[u] = entries[u] /\ torn' = torn
             \/ /\ request[r].job = "sync" /\ request[r].inserted[u] # None
                /\ entries'[u] = request[r].inserted[u]
  BY <1>1 DEF Commit
<1>2. ASSUME NEW r \in Requests, CommitCorrect(r)
      PROVE  \/ entries'[u] = entries[u] /\ (u \in torn' <=> u \in torn)
             \/ /\ request[r].item = u
                /\ entries[u] \in Entry /\ entries[u] # None
                /\ request[r].loaded \in Entry /\ request[r].to \in Correction
                /\ entries'[u] = Merged(entries[u], request[r].loaded,
                                        Corrected(u, request[r].loaded, request[r].to))
  <2>1. /\ request[r].item \in Lots
        /\ request[r].loaded \in Entry /\ request[r].to \in Correction
        /\ entries[request[r].item] \in Entry /\ entries[request[r].item] # None
    BY <1>2, <1>t, RequestShapes DEF CommitCorrect, Typing, Referring
  <2> DEFINE v == request[r].item
             row == Merged(entries[v], request[r].loaded,
                           Corrected(v, request[r].loaded, request[r].to))
  <2>2. entries' = [entries EXCEPT ![v] = row]
    BY <1>2 DEF CommitCorrect
  <2>3. v # u => (u \in torn' <=> u \in torn)
    BY <1>2 DEF CommitCorrect
  <2> HIDE DEF row
  <2>4. (v # u /\ entries'[u] = entries[u]) \/ (v = u /\ entries'[u] = row)
    BY <1>t, <2>1, <2>2
  <2> QED BY <2>1, <2>3, <2>4 DEF row
<1>3. ASSUME NEW v \in Lots, Delete(v)
      PROVE  /\ torn' = torn
             /\ \/ entries'[u] = entries[u]
                \/ /\ v = u /\ entries[u] \in Entry /\ entries[u] # None
                   /\ entries'[u] = [entries[u] EXCEPT !.deleted = TRUE]
  BY <1>3, <1>t DEF Delete
<1>4. CASE UNCHANGED <<entries, torn>>
  BY <1>4
<1> QED
  BY <1>1, <1>2, <1>3, <1>4
     DEF Next, ServerStep, vars, BeginPublish, CommitPublish, WriteDown, Flush, Look, Insert,
         BreakDeadlock, Answer, Die, BeginCorrect

(* Publications are only added to, and a note is written once.             *)
LEMMA TheWorldGrows ==
    ASSUME Typing, [Next]_vars
    PROVE  /\ Len(publications) \in Nat /\ Len(publications') \in Nat
           /\ Len(publications) <= Len(publications')
           /\ \A p \in 1..Len(publications) : publications'[p] = publications[p]
           /\ \A u \in Lots : written[u] # None => written'[u] = written[u]
           /\ \A u \in Lots : written'[u] # None =>
                 \/ written'[u] = written[u]
                 \/ /\ written[u] = None /\ publications' = publications
                    /\ written'[u].shown \in 0..Len(publications)
                    /\ written'[u].verdict = Verdict(u, written'[u].shown)
<1>t. Len(publications) \in Nat /\ Len(publications') \in Nat
  BY TypingHolds DEF Typing, TypeOK
<1>1. ASSUME NEW v \in Lots, WriteDown(v)
      PROVE  /\ publications' = publications
             /\ \A u \in Lots : written[u] # None => written'[u] = written[u]
             /\ \A u \in Lots : written'[u] # None =>
                   \/ written'[u] = written[u]
                   \/ /\ written[u] = None
                      /\ written'[u].shown \in 0..Len(publications)
                      /\ written'[u].verdict = Verdict(u, written'[u].shown)
  BY <1>1, TypingOfNotes DEF WriteDown
<1>2. CASE BeginPublish \/ CommitPublish
  <2>1. written' = written
    BY <1>2 DEF BeginPublish, CommitPublish, phoneVars
  <2> QED BY <1>t, <1>2, <2>1, TypingOfPublishing
<1>3. CASE UNCHANGED boardVars /\ written' = written
  BY <1>t, <1>3 DEF boardVars
<1>4. ASSUME NEW u \in Lots, Delete(u)
      PROVE  UNCHANGED boardVars /\ written' = written
  BY <1>4 DEF Delete, phoneVars
<1>5. CASE UNCHANGED vars
  BY <1>3, <1>5 DEF vars, boardVars, phoneVars
<1> QED
  BY <1>t, <1>1, <1>2, <1>3, <1>4, <1>5, RequestsLeaveTheWorld DEF Next

-----------------------------------------------------------------------------
(* What rows say.                                                          *)

(* A row e is frozen to the latest publication of those known that was     *)
(* published by the time of its note w, and this one lists its species s.  *)
FrozenTo(pubs, w, s, e) ==
    /\ e.at = w.at
    /\ e.publication \in 1..Len(pubs) /\ e.known \in 0..Len(pubs)
    /\ pubs[e.publication].board[s] # None
    /\ pubs[e.publication].at <= e.at
    /\ \A p \in (e.publication + 1)..e.known : pubs[p].at > e.at

ScoredBy(pubs, s, e) ==
    e.breach <=> IsBreach(e.price, e.weight, pubs[e.publication].board[s].dnbp)

(* What is frozen and scored stays so, whatever is published or written.   *)
LEMMA FrozenStays ==
    ASSUME Typing, [Next]_vars, NEW u \in Lots, NEW e, e \in Entry, written[u] # None,
           FrozenTo(publications, written[u], NoteOf[u].species, e)
    PROVE  /\ written'[u] # None
           /\ FrozenTo(publications', written'[u], NoteOf[u].species, e)
           /\ ScoredBy(publications, NoteOf[u].species, e) =>
                  ScoredBy(publications', NoteOf[u].species, e)
<1> DEFINE s == NoteOf[u].species
<1> HIDE DEF s
<1>1. /\ Len(publications) \in Nat /\ Len(publications') \in Nat
      /\ Len(publications) <= Len(publications')
      /\ \A p \in 1..Len(publications) : publications'[p] = publications[p]
      /\ written'[u] = written[u]
  BY TheWorldGrows
<1>2. FrozenTo(publications, written[u], s, e)
  BY DEF s
<1>3. /\ e.publication \in 1..Len(publications) /\ e.known \in 0..Len(publications)
      /\ publications'[e.publication] = publications[e.publication]
  BY <1>1, <1>2 DEF FrozenTo
<1>4. \A p \in (e.publication + 1)..e.known : publications'[p] = publications[p]
  BY <1>1, <1>3
<1>5. FrozenTo(publications', written'[u], s, e)
  BY <1>1, <1>2, <1>3, <1>4 DEF FrozenTo
<1>6. ScoredBy(publications, s, e) => ScoredBy(publications', s, e)
  BY <1>3 DEF ScoredBy
<1> QED BY <1>1, <1>5, <1>6 DEF s

(* A row is made frozen, and scored.                                       *)
LEMMA RowOfIsFrozen ==
    ASSUME Typing, NEW u \in Lots, written[u] # None, Scorable(u)
    PROVE  /\ FrozenTo(publications, written[u], NoteOf[u].species, RowOf(u))
           /\ ScoredBy(publications, NoteOf[u].species, RowOf(u))
<1>1. NoteOf[u] \in Note /\ written[u] \in Writing
  BY SyncAssumption DEF Typing, TypeOK
<1>2. written[u].at \in Nat
  BY <1>1 DEF Writing, Instants
<1> DEFINE n == NoteOf[u]
           p == EffectiveAsOf(written[u].at)
<1>3. /\ p \in 0..Len(publications) /\ p # 0
      /\ publications[p].at <= written[u].at
      /\ \A x \in (p + 1)..Len(publications) : publications[x].at > written[u].at
      /\ publications[p].board[n.species] # None
  <2>1. p # 0 /\ publications[p].board[n.species] # None
    BY DEF Scorable, HasLine
  <2> QED BY <1>2, <2>1, EffectiveIsLatest DEF Typing
<1>4. Len(publications) \in Nat
  BY DEF Typing, TypeOK
<1> HIDE DEF n, p
<1>5. RowOf(u) = [price |-> n.price, weight |-> n.weight, heads |-> n.heads,
                  at |-> written[u].at, publication |-> p,
                  breach |-> IsBreach(n.price, n.weight, DnbpOf(p, n.species)),
                  deleted |-> FALSE, known |-> Len(publications)]
  BY DEF RowOf, n, p, Live
<1>6. FrozenTo(publications, written[u], n.species, RowOf(u))
  BY <1>3, <1>4, <1>5 DEF FrozenTo
<1>7. ScoredBy(publications, n.species, RowOf(u))
  BY <1>5 DEF ScoredBy, DnbpOf
<1> QED BY <1>6, <1>7 DEF n

(* Rows are frozen where they come from: looked up, inserted and stored;   *)
(* and scored, those stored unless corrections overlapped.                 *)
RowsAreTrue ==
    /\ \A u \in Lots : entries[u] # None =>
           /\ written[u] # None
           /\ FrozenTo(publications, written[u], NoteOf[u].species, entries[u])
           /\ u \in torn \/ ScoredBy(publications, NoteOf[u].species, entries[u])
    /\ \A r \in Requests : request[r].job = "sync" /\ request[r].next # None =>
           /\ FrozenTo(publications, written[request[r].next],
                       NoteOf[request[r].next].species, request[r].row)
           /\ ScoredBy(publications, NoteOf[request[r].next].species, request[r].row)
    /\ \A r \in Requests, u \in Lots :
           request[r].job = "sync" /\ request[r].inserted[u] # None =>
               /\ written[u] # None
               /\ FrozenTo(publications, written[u], NoteOf[u].species, request[r].inserted[u])
               /\ ScoredBy(publications, NoteOf[u].species, request[r].inserted[u])

(* What a correction makes of a true row is true, unless it overlapped.    *)
LEMMA CorrectionsAreTrue ==
    ASSUME Typing, RowsAreTrue, NEW u \in Lots, NEW r \in Requests,
           CommitCorrect(r), request[r].item = u, entries[u] \in Entry, entries[u] # None,
           request[r].loaded \in Entry, request[r].to \in Correction,
           entries'[u] = Merged(entries[u], request[r].loaded,
                                Corrected(u, request[r].loaded, request[r].to))
    PROVE  /\ entries'[u] \in Entry
           /\ FrozenTo(publications, written[u], NoteOf[u].species, entries'[u])
           /\ u \in torn' \/ ScoredBy(publications, NoteOf[u].species, entries'[u])
<1> DEFINE l == request[r].loaded
           c == request[r].to
           s == NoteOf[u].species
           new == Corrected(u, l, c)
<1>1. PICK e \in Entry : e = entries[u]
  OBVIOUS
<1>2. PICK row \in Entry :
          /\ row = entries'[u]
          /\ row.at = e.at /\ row.publication = e.publication
          /\ row.known = e.known /\ row.deleted = e.deleted
          /\ row.price = IF new.price # l.price THEN new.price ELSE e.price
          /\ row.weight = IF new.weight # l.weight THEN new.weight ELSE e.weight
          /\ row.breach = IF new.breach # l.breach THEN new.breach ELSE e.breach
          /\ new.price = OrElse(c.price, l.price) /\ new.weight = OrElse(c.weight, l.weight)
          /\ new.breach = IF c.price # None \/ c.weight # None
                          THEN IsBreach(new.price, new.weight, DnbpOf(l.publication, s))
                          ELSE l.breach
  <2> HIDE DEF l, c
  <2>1. l \in Entry /\ c \in Correction /\ entries'[u] = Merged(e, l, Corrected(u, l, c))
    BY <1>1 DEF l, c
  <2> QED BY <2>1, MergedIsEntry
<1> HIDE DEF new
<1>3. FrozenTo(publications, written[u], s, e) /\ (u \in torn \/ ScoredBy(publications, s, e))
  BY <1>1 DEF RowsAreTrue
<1>4. FrozenTo(publications, written[u], s, row)
  BY <1>2, <1>3 DEF FrozenTo
<1>5. CASE [e EXCEPT !.deleted = FALSE] # l
  <2>1. u \in torn'
    BY <1>1, <1>5 DEF CommitCorrect
  <2> QED BY <1>2, <1>4, <2>1
<1>6. CASE [e EXCEPT !.deleted = FALSE] = l
  <2>1. /\ l.price = e.price /\ l.weight = e.weight /\ l.breach = e.breach
        /\ l.publication = e.publication
    BY <1>6 DEF Entry
  <2>2. CASE c.price # None \/ c.weight # None
    <3>1. row.price = new.price /\ row.weight = new.weight /\ row.breach = new.breach
      BY <1>2, <2>1
    <3>2. ScoredBy(publications, s, row)
      BY <1>2, <2>1, <2>2, <3>1 DEF ScoredBy, DnbpOf
    <3> QED BY <1>2, <1>4, <3>2
  <2>3. CASE c.price = None /\ c.weight = None
    <3>1. row.price = e.price /\ row.weight = e.weight /\ row.breach = e.breach
      BY <1>2, <2>1, <2>3 DEF OrElse
    <3>2. torn' = torn
      BY <1>1, <1>6, <2>3 DEF CommitCorrect
    <3>3. u \in torn' \/ ScoredBy(publications, s, row)
      BY <1>2, <1>3, <3>1, <3>2 DEF ScoredBy
    <3> QED BY <1>2, <1>4, <3>3
  <2> QED BY <2>2, <2>3
<1> QED BY <1>5, <1>6

LEMMA RowsStayTrue ==
    ASSUME Typing, RowsAreTrue, [Next]_vars
    PROVE  RowsAreTrue'
<1>t. /\ \A u \in Lots : entries[u] # None => entries[u] \in Entry
      /\ \A r \in Requests : request[r].job = "sync" =>
            /\ request[r].inserted \in [Lots -> Entry \cup {None}]
            /\ request[r].next # None =>
                   /\ request[r].next \in Lots /\ request[r].row \in Entry
                   /\ written[request[r].next] # None
  BY RequestShapes DEF Typing, TypeOK, Referring
<1> DEFINE True(u, e) ==
             /\ written[u] # None
             /\ FrozenTo(publications, written[u], NoteOf[u].species, e)
             /\ ScoredBy(publications, NoteOf[u].species, e)
           TrueNext(u, e) ==
             /\ written'[u] # None
             /\ FrozenTo(publications', written'[u], NoteOf[u].species, e)
             /\ ScoredBy(publications', NoteOf[u].species, e)
<1>1. ASSUME NEW u \in Lots, NEW e, e \in Entry, True(u, e)
      PROVE  TrueNext(u, e)
  BY <1>1, FrozenStays
<1>2. ASSUME NEW u \in Lots, entries'[u] # None
      PROVE  /\ written'[u] # None
             /\ FrozenTo(publications', written'[u], NoteOf[u].species, entries'[u])
             /\ u \in torn' \/ ScoredBy(publications', NoteOf[u].species, entries'[u])
  <2>1. CASE entries'[u] = entries[u] /\ (u \in torn' <=> u \in torn)
    BY <1>2, <1>t, <2>1, FrozenStays DEF RowsAreTrue
  <2>2. CASE \E r \in Requests : /\ Commit(r) /\ request[r].job = "sync"
                                 /\ request[r].inserted[u] # None
                                 /\ entries'[u] = request[r].inserted[u]
    <3>1. PICK r \in Requests : /\ request[r].job = "sync" /\ request[r].inserted[u] # None
                                /\ entries'[u] = request[r].inserted[u]
      BY <2>2
    <3>2. True(u, request[r].inserted[u]) /\ request[r].inserted[u] \in Entry
      BY <1>t, <3>1 DEF RowsAreTrue
    <3> HIDE DEF True
    <3>3. TrueNext(u, request[r].inserted[u])
      BY <1>1, <3>2
    <3> QED BY <3>1, <3>3
  <2>3. ASSUME NEW r \in Requests, CommitCorrect(r), request[r].item = u,
               entries[u] \in Entry, entries[u] # None,
               request[r].loaded \in Entry, request[r].to \in Correction,
               entries'[u] = Merged(entries[u], request[r].loaded,
                                    Corrected(u, request[r].loaded, request[r].to))
        PROVE  /\ written'[u] # None
               /\ FrozenTo(publications', written'[u], NoteOf[u].species, entries'[u])
               /\ u \in torn' \/ ScoredBy(publications', NoteOf[u].species, entries'[u])
    <3>1. /\ entries'[u] \in Entry
          /\ FrozenTo(publications, written[u], NoteOf[u].species, entries'[u])
          /\ u \in torn' \/ ScoredBy(publications, NoteOf[u].species, entries'[u])
      BY <2>3, CorrectionsAreTrue
    <3>2. UNCHANGED publications /\ written' = written
      BY <2>3 DEF CommitCorrect, boardVars, phoneVars
    <3>3. written[u] # None
      BY <2>3 DEF RowsAreTrue
    <3> QED BY <3>1, <3>2, <3>3
  <2>4. CASE /\ Delete(u) /\ torn' = torn
             /\ entries[u] \in Entry /\ entries[u] # None
             /\ entries'[u] = [entries[u] EXCEPT !.deleted = TRUE]
    <3>1. PICK row \in Entry :
              /\ row = entries'[u]
              /\ row.at = entries[u].at /\ row.publication = entries[u].publication
              /\ row.known = entries[u].known /\ row.price = entries[u].price
              /\ row.weight = entries[u].weight /\ row.breach = entries[u].breach
      BY <2>4 DEF Entry
    <3>2. /\ FrozenTo(publications, written[u], NoteOf[u].species, row)
          /\ u \in torn \/ ScoredBy(publications, NoteOf[u].species, row)
          /\ written[u] # None
      <4>1. /\ FrozenTo(publications, written[u], NoteOf[u].species, entries[u])
            /\ u \in torn \/ ScoredBy(publications, NoteOf[u].species, entries[u])
            /\ written[u] # None
        BY <2>4 DEF RowsAreTrue
      <4>2. FrozenTo(publications, written[u], NoteOf[u].species, row)
        BY <3>1, <4>1 DEF FrozenTo
      <4>3. ScoredBy(publications, NoteOf[u].species, entries[u])
            => ScoredBy(publications, NoteOf[u].species, row)
        BY <3>1 DEF ScoredBy
      <4> QED BY <4>1, <4>2, <4>3
    <3> QED BY <2>4, <3>1, <3>2, FrozenStays
  <2> QED BY <2>1, <2>2, <2>3, <2>4, RowSteps
<1>3. ASSUME NEW r \in Requests, request'[r].job = "sync"
      PROVE  /\ request'[r].next # None =>
                    /\ FrozenTo(publications', written'[request'[r].next],
                                NoteOf[request'[r].next].species, request'[r].row)
                    /\ ScoredBy(publications', NoteOf[request'[r].next].species, request'[r].row)
             /\ \A u \in Lots : request'[r].inserted[u] # None =>
                    TrueNext(u, request'[r].inserted[u])
  <2>1. CASE request'[r] = request[r]
    <3>1. request[r].next # None => True(request[r].next, request[r].row)
      BY <1>3, <1>t, <2>1 DEF RowsAreTrue
    <3>2. \A u \in Lots : request[r].inserted[u] # None =>
              True(u, request[r].inserted[u]) /\ request[r].inserted[u] \in Entry
      BY <1>3, <1>t, <2>1 DEF RowsAreTrue
    <3>3. request[r].next # None => request[r].next \in Lots /\ request[r].row \in Entry
      BY <1>3, <1>t, <2>1
    <3> HIDE DEF True
    <3>4. request[r].next # None => TrueNext(request[r].next, request[r].row)
      BY <1>1, <3>1, <3>3
    <3>5. \A u \in Lots : request[r].inserted[u] # None => TrueNext(u, request[r].inserted[u])
      BY <1>1, <3>2
    <3> QED BY <2>1, <3>4, <3>5
  <2>2. CASE /\ request'[r].next = None /\ request'[r].ok = {}
             /\ \A u \in Lots : request'[r].inserted[u] = None
    BY <2>2
  <2>3. CASE /\ request[r].job = "sync" /\ request'[r].inserted = request[r].inserted
             /\ request'[r].next # None =>
                    /\ written[request'[r].next] # None /\ Scorable(request'[r].next)
                    /\ request'[r].row = RowOf(request'[r].next)
    <3>1. \A u \in Lots : request[r].inserted[u] # None =>
              True(u, request[r].inserted[u]) /\ request[r].inserted[u] \in Entry
      BY <1>t, <2>3 DEF RowsAreTrue
    <3>2. request'[r].next \in Lots \cup {None}
      BY <1>3, TypingHolds, RequestShapes DEF Typing, TypeOK, FlushRequest, CorrectRequest, Idle
    <3>3. ASSUME NEW u \in Lots, written[u] # None, Scorable(u)
          PROVE  True(u, RowOf(u)) /\ RowOf(u) \in Entry
      BY <3>3, RowOfIsFrozen, RowOfIsEntry
    <3> HIDE DEF True
    <3>4. \A u \in Lots : request[r].inserted[u] # None => TrueNext(u, request[r].inserted[u])
      BY <1>1, <3>1
    <3>5. request'[r].next # None =>
              TrueNext(request'[r].next, RowOf(request'[r].next))
      BY <1>1, <2>3, <3>2, <3>3
    <3> QED BY <2>3, <3>4, <3>5
  <2>4. CASE /\ request[r].job = "sync" /\ request[r].next # None
             /\ request'[r].inserted =
                    [request[r].inserted EXCEPT ![request[r].next] = request[r].row]
             /\ request'[r].next = None
    <3>1. /\ \A u \in Lots : request[r].inserted[u] # None =>
                 True(u, request[r].inserted[u]) /\ request[r].inserted[u] \in Entry
          /\ True(request[r].next, request[r].row)
          /\ request[r].row \in Entry /\ request[r].next \in Lots
      BY <1>t, <2>4 DEF RowsAreTrue
    <3> HIDE DEF True
    <3>2. /\ \A u \in Lots : request[r].inserted[u] # None => TrueNext(u, request[r].inserted[u])
          /\ TrueNext(request[r].next, request[r].row)
      BY <1>1, <3>1
    <3>3. \A u \in Lots : request'[r].inserted[u] =
              IF u = request[r].next THEN request[r].row ELSE request[r].inserted[u]
      BY <1>t, <2>4
    <3> HIDE DEF TrueNext
    <3> QED BY <2>4, <3>2, <3>3
  <2> QED BY <1>3, <2>1, <2>2, <2>3, <2>4, SyncSteps
<1> QED BY <1>2, <1>3 DEF RowsAreTrue

(* A purchase stays frozen to the publication of its time, however late,   *)
(* often or concurrently it arrives and is corrected (get_effective_as_of, *)
(* create_or_sync_entry, bulk_sync, correct_entry).                        *)
THEOREM FrozenHolds == Spec => []FrozenAsWritten
<1>1. Init => RowsAreTrue
  BY DEF Init, RowsAreTrue, Idle
<1>2. Typing /\ RowsAreTrue /\ [Next]_vars => Typing' /\ RowsAreTrue'
  BY TypingHolds, RowsStayTrue
<1>3. Typing /\ RowsAreTrue => FrozenAsWritten
  BY DEF Typing, TypeOK, RowsAreTrue, FrozenTo, FrozenAsWritten, HasLine
<1> QED BY FirstTyping, <1>1, <1>2, <1>3, PTL DEF Spec

(* A breach flag says what its row's price, weight and ceiling say, unless *)
(* two corrections of the row overlapped (is_breach, correct_entry).       *)
THEOREM ScoresHold == Spec => []ScoresAreTrue
<1>1. Init => RowsAreTrue
  BY DEF Init, RowsAreTrue, Idle
<1>2. Typing /\ RowsAreTrue /\ [Next]_vars => Typing' /\ RowsAreTrue'
  BY TypingHolds, RowsStayTrue
<1>3. RowsAreTrue => ScoresAreTrue
  BY DEF RowsAreTrue, ScoredBy, ScoresAreTrue, DnbpOf
<1> QED BY FirstTyping, <1>1, <1>2, <1>3, PTL DEF Spec
-----------------------------------------------------------------------------
(* Replays and confirmations.                                              *)

(* A stored row stays, with its publication and instant, and deleted if it *)
(* was; only a flush stores one where there was none.                      *)
Keeps(old, new) ==
    /\ new # None
    /\ new.publication = old.publication /\ new.at = old.at
    /\ old.deleted => new.deleted

LEMMA CorrectionsKeep ==
    ASSUME Typing, [Next]_vars, NEW u \in Lots, entries[u] # None,
           \A r \in Requests : Commit(r) /\ request[r].job = "sync" =>
               request[r].inserted[u] = None
    PROVE  Keeps(entries[u], entries'[u])
<1>t. entries[u] \in Entry /\ (entries'[u] \in Entry \cup {None})
  BY TypingHolds DEF Typing, TypeOK
<1>1. CASE entries'[u] = entries[u]
  BY <1>1 DEF Keeps
<1>2. ASSUME NEW r \in Requests, request[r].loaded \in Entry, request[r].to \in Correction,
             entries'[u] = Merged(entries[u], request[r].loaded,
                                  Corrected(u, request[r].loaded, request[r].to))
      PROVE  Keeps(entries[u], entries'[u])
  <2> DEFINE l == request[r].loaded
             c == request[r].to
             row == Merged(entries[u], l, Corrected(u, l, c))
  <2>1. /\ row \in Entry /\ row.at = entries[u].at
        /\ row.publication = entries[u].publication /\ row.deleted = entries[u].deleted
    <3> HIDE DEF l, c
    <3>1. l \in Entry /\ c \in Correction
      BY <1>2 DEF l, c
    <3> QED BY <1>t, <3>1, MergedIsEntry
  <2>2. entries'[u] = row
    BY <1>2
  <2> HIDE DEF row
  <2>3. row # None
    BY <2>1, NullAssumption
  <2> QED BY <2>1, <2>2, <2>3 DEF Keeps
<1>3. CASE entries'[u] = [entries[u] EXCEPT !.deleted = TRUE]
  <2>1. /\ entries'[u] \in Entry /\ entries'[u].at = entries[u].at
        /\ entries'[u].publication = entries[u].publication /\ entries'[u].deleted = TRUE
    BY <1>t, <1>3 DEF Entry
  <2>2. entries'[u] # None
    BY <2>1, NullAssumption
  <2> QED BY <2>1, <2>2 DEF Keeps
<1> QED BY <1>1, <1>2, <1>3, RowSteps

(* Nobody else has inserted what a flush has inserted and not committed.   *)
InsertsAreUnique ==
    \A r \in Requests, u \in Lots :
        request[r].job = "sync" /\ request[r].inserted[u] # None =>
            /\ entries[u] = None
            /\ \A o \in Requests \ {r} :
                   request[o].job = "sync" => request[o].inserted[u] = None

LEMMA InsertSteps ==
    ASSUME Typing, InsertsAreUnique, [Next]_vars, NEW r \in Requests, NEW u \in Lots,
           request'[r].job = "sync", request'[r].inserted[u] # None
    PROVE  /\ entries[u] = None
           /\ \/ request[r].job = "sync" /\ request[r].inserted[u] # None
              \/ \A o \in Requests \ {r} :
                    /\ request'[o] = request[o]
                    /\ request[o].job = "sync" => request[o].inserted[u] = None
<1>1. CASE request'[r] = request[r]
  BY <1>1 DEF InsertsAreUnique
<1>2. CASE request[r].job = "sync" /\ request'[r].inserted = request[r].inserted
  BY <1>2 DEF InsertsAreUnique
<1>3. CASE /\ request[r].job = "sync" /\ request[r].next # None
           /\ entries' = entries /\ entries[request[r].next] = None
           /\ \A o \in Requests \ {r} :
                 /\ request'[o] = request[o]
                 /\ request[o].job = "sync" => request[o].inserted[request[r].next] = None
           /\ request'[r].inserted =
                  [request[r].inserted EXCEPT ![request[r].next] = request[r].row]
  <2>1. request[r].inserted \in [Lots -> Entry \cup {None}]
    BY <1>3, RequestShapes DEF Typing
  <2>2. CASE u = request[r].next
    BY <1>3, <2>2
  <2>3. CASE u # request[r].next
    <3>1. request[r].inserted[u] # None
      BY <1>3, <2>1, <2>3
    <3> QED BY <1>3, <3>1 DEF InsertsAreUnique
  <2> QED BY <2>2, <2>3
<1> QED BY <1>1, <1>2, <1>3, SyncSteps

LEMMA InsertsStayUnique ==
    ASSUME Typing, InsertsAreUnique, [Next]_vars
    PROVE  InsertsAreUnique'
<1> SUFFICES ASSUME NEW r \in Requests, NEW u \in Lots,
                    request'[r].job = "sync", request'[r].inserted[u] # None
             PROVE  /\ entries'[u] = None
                    /\ \A o \in Requests \ {r} :
                           request'[o].job = "sync" => request'[o].inserted[u] = None
  BY DEF InsertsAreUnique
<1>1. entries[u] = None
  BY InsertSteps
<1>2. entries'[u] = None
  <2>1. ASSUME NEW s \in Requests, Commit(s), request[s].job = "sync",
               request[s].inserted[u] # None
        PROVE  FALSE
    <3>t. request \in [Requests -> {Idle} \cup FlushRequest \cup CorrectRequest]
      BY DEF Typing, TypeOK
    <3>1. CASE s = r
      <4>1. request[r] \in FlushRequest
        BY <2>1, <3>1, RequestShapes DEF Typing
      <4>2. request'[r].job = "answer"
        BY <2>1, <3>t, <3>1, <4>1 DEF Commit, FlushRequest
      <4> QED BY <4>2
    <3>2. CASE s # r
      <4>1. request'[r] = request[r] /\ request'[s] # request[s]
        <5>1. request[s] \in FlushRequest
          BY <2>1, RequestShapes DEF Typing
        <5>2. request'[s].job = "answer"
          BY <2>1, <3>t, <5>1 DEF Commit, FlushRequest
        <5> QED BY <2>1, <3>t, <3>2, <5>2 DEF Commit
      <4>2. request[r].inserted[u] # None /\ request[r].job = "sync"
        BY <4>1
      <4> QED BY <2>1, <3>2, <4>2 DEF InsertsAreUnique
    <3> QED BY <3>1, <3>2
  <2> QED BY <1>1, <2>1, RowSteps
<1>3. ASSUME NEW o \in Requests, o # r, request'[o].job = "sync", request'[o].inserted[u] # None
      PROVE  FALSE
  <2>1. \/ request[r].job = "sync" /\ request[r].inserted[u] # None
        \/ /\ request'[o] = request[o]
           /\ request[o].job = "sync" => request[o].inserted[u] = None
    BY <1>3, InsertSteps
  <2>2. \/ request[o].job = "sync" /\ request[o].inserted[u] # None
        \/ /\ request'[r] = request[r]
           /\ request[r].job = "sync" => request[r].inserted[u] = None
    BY <1>3, InsertSteps
  <2> QED BY <1>3, <2>1, <2>2 DEF InsertsAreUnique
<1> QED BY <1>2, <1>3

(* A stored row is never scored again, nor brought back, however often and *)
(* in however many overlapping flushes it arrives (create_or_sync_entry,   *)
(* bulk_sync, the unique index on client_uuid).                            *)
THEOREM NoneStoredAgain == Spec => NeverStoredAgain
<1>1. Init => InsertsAreUnique
  BY DEF Init, InsertsAreUnique, Idle
<1>2. Typing /\ InsertsAreUnique /\ [Next]_vars => Typing' /\ InsertsAreUnique'
  BY TypingHolds, InsertsStayUnique
<1>3. ASSUME Typing, InsertsAreUnique, [Next]_vars, NEW u \in Lots, entries[u] # None
      PROVE  Keeps(entries[u], entries'[u])
  BY <1>3, CorrectionsKeep DEF InsertsAreUnique
<1>4. Typing /\ InsertsAreUnique /\ [Next]_vars =>
          \A u \in Lots : entries[u] # None =>
              /\ entries'[u] # None
              /\ entries'[u].publication = entries[u].publication
              /\ entries'[u].at = entries[u].at
              /\ entries[u].deleted => entries'[u].deleted
  BY <1>3 DEF Keeps
<1> QED BY FirstTyping, <1>1, <1>2, <1>4, PTL DEF Spec, NeverStoredAgain

(* A flush confirms only what it has stored or found stored; what it has   *)
(* confirmed to the phone is committed.                                    *)
ConfirmedAreStored ==
    \A r \in Requests, u \in Lots :
        /\ request[r].job = "sync" /\ u \in request[r].ok =>
               entries[u] # None \/ request[r].inserted[u] # None
        /\ request[r].job = "answer" /\ u \in request[r].ok => entries[u] # None

LEMMA StoredStays ==
    ASSUME Typing, [Next]_vars, NEW u \in Lots, entries[u] # None
    PROVE  entries'[u] # None
<1>1. ASSUME NEW r \in Requests, Commit(r), request[r].inserted[u] # None
      PROVE  entries'[u] # None
  BY <1>1 DEF Commit
<1>2. CASE \A r \in Requests : Commit(r) => request[r].inserted[u] = None
  BY <1>2, CorrectionsKeep DEF Keeps
<1> QED BY <1>1, <1>2

LEMMA ConfirmedStayStored ==
    ASSUME Typing, ConfirmedAreStored, [Next]_vars
    PROVE  ConfirmedAreStored'
<1>1. ASSUME NEW r \in Requests, NEW u \in Lots, request'[r].job = "sync", u \in request'[r].ok
      PROVE  entries'[u] # None \/ request'[r].inserted[u] # None
  <2>1. CASE request'[r] = request[r]
    BY <1>1, <2>1, StoredStays DEF ConfirmedAreStored
  <2>2. CASE request'[r].ok = {}
    BY <1>1, <2>2
  <2>3. CASE /\ request[r].job = "sync" /\ entries' = entries
             /\ request'[r].inserted = request[r].inserted
             /\ \A v \in request'[r].ok : v \in request[r].ok \/ entries[v] # None
    BY <1>1, <2>3 DEF ConfirmedAreStored
  <2>4. CASE /\ request[r].job = "sync" /\ request[r].next # None /\ entries' = entries
             /\ request'[r].inserted =
                    [request[r].inserted EXCEPT ![request[r].next] = request[r].row]
             /\ request'[r].ok = request[r].ok \cup {request[r].next}
    <3>1. /\ request[r].inserted \in [Lots -> Entry \cup {None}]
          /\ request[r].row # None
      BY <2>4, RequestShapes DEF Typing, Referring
    <3>2. CASE u = request[r].next
      BY <2>4, <3>1, <3>2
    <3>3. CASE u # request[r].next
      BY <1>1, <2>4, <3>1, <3>3 DEF ConfirmedAreStored
    <3> QED BY <3>2, <3>3
  <2> QED BY <1>1, <2>1, <2>2, <2>3, <2>4, SyncSteps
<1>2. ASSUME NEW r \in Requests, NEW u \in Lots, request'[r].job = "answer",
             u \in request'[r].ok
      PROVE  entries'[u] # None
  <2>1. u \in request[r].ok /\ (request'[r] = request[r] \/ Commit(r))
    BY <1>2, AnswerSteps
  <2>2. CASE request'[r] = request[r]
    BY <1>2, <2>1, <2>2, StoredStays DEF ConfirmedAreStored
  <2>3. CASE Commit(r)
    <3>1. entries[u] # None \/ request[r].inserted[u] # None
      BY <2>1, <2>3 DEF ConfirmedAreStored, Commit
    <3> QED BY <2>3, <3>1 DEF Commit
  <2> QED BY <2>1, <2>2, <2>3
<1> QED BY <1>1, <1>2 DEF ConfirmedAreStored

(* The phone puts in its queue what is written, and takes out of it only   *)
(* what an answer confirms.                                                *)
LEMMA QueueSteps ==
    ASSUME Typing, [Next]_vars, NEW u \in Lots
    PROVE  /\ written[u] = None /\ written'[u] # None => u \in queue'
           /\ u \in queue /\ u \notin queue' =>
                  \E r \in Requests : request[r].job = "answer" /\ u \in request[r].ok
<1>t. written \in [Lots -> Writing \cup {None}]
  BY DEF Typing, TypeOK
<1>1. ASSUME NEW v \in Lots, WriteDown(v)
      PROVE  /\ written[u] = None /\ written'[u] # None => u \in queue'
             /\ u \in queue => u \in queue'
  <2>1. queue' = queue \cup {v}
    BY <1>1 DEF WriteDown
  <2>2. u # v => written'[u] = written[u]
    BY <1>1, TypingOfNotes
  <2> QED BY <2>1, <2>2
<1>2. ASSUME NEW r \in Requests, Answer(r)
      PROVE  /\ written' = written
             /\ u \in queue /\ u \notin queue' =>
                    request[r].job = "answer" /\ u \in request[r].ok
  BY <1>2 DEF Answer
<1>3. CASE UNCHANGED phoneVars
  BY <1>3 DEF phoneVars
<1> QED
  BY <1>1, <1>2, <1>3
     DEF Next, ServerStep, vars, phoneVars, BeginPublish, CommitPublish, Flush, Look, Insert,
         BreakDeadlock, Commit, CommitCorrect, Die, BeginCorrect, Delete

(* What is written down is in the phone's queue until the server has       *)
(* stored it, whatever became of the requests (bulk_sync,                  *)
(* create_or_sync_entry).                                                  *)
THEOREM NothingIsLost == Spec => []NothingLost
<1> DEFINE Inv == ConfirmedAreStored /\ NothingLost
<1>1. Init => Inv
  BY DEF Init, ConfirmedAreStored, NothingLost, Idle
<1>2. Typing /\ Inv /\ [Next]_vars => Typing' /\ Inv'
  <2> SUFFICES ASSUME Typing, ConfirmedAreStored, NothingLost, [Next]_vars
               PROVE  Typing' /\ ConfirmedAreStored' /\ NothingLost'
    OBVIOUS
  <2>1. Typing' /\ ConfirmedAreStored'
    BY TypingHolds, ConfirmedStayStored
  <2>2. ASSUME NEW u \in Lots, written'[u] # None
        PROVE  u \in queue' \/ entries'[u] # None
    <3>1. CASE written[u] = None
      BY <2>2, <3>1, QueueSteps
    <3>2. CASE entries[u] # None
      BY <3>2, StoredStays
    <3>3. CASE written[u] # None /\ entries[u] = None
      <4>1. u \in queue
        BY <3>3 DEF NothingLost
      <4> QED BY <3>3, <4>1, QueueSteps DEF ConfirmedAreStored
    <3> QED BY <3>1, <3>2, <3>3
  <2> QED BY <2>1, <2>2 DEF NothingLost
<1> QED BY FirstTyping, <1>1, <1>2, PTL DEF Spec

-----------------------------------------------------------------------------
(* What the phone let pass is within the exact price of what was shown.    *)
VerdictsStand ==
    \A u \in Lots :
        written[u] # None /\ written[u].verdict \in {"PASS", "CLOSE"} =>
            /\ written[u].shown \in 1..Len(publications)
            /\ ~IsBreach(NoteOf[u].price, NoteOf[u].weight,
                         publications[written[u].shown].board[NoteOf[u].species].dnbp)

LEMMA VerdictsAreSafe ==
    ASSUME Typing, NEW u \in Lots, NEW shown \in 0..Len(publications),
           Verdict(u, shown) \in {"PASS", "CLOSE"}
    PROVE  /\ shown \in 1..Len(publications)
           /\ ~IsBreach(NoteOf[u].price, NoteOf[u].weight,
                        publications[shown].board[NoteOf[u].species].dnbp)
<1> DEFINE n == NoteOf[u]
           line == publications[shown].board[n.species]
<1>1. n \in Note /\ publications \in Seq(Publication) /\ Len(publications) \in Nat
  BY SyncAssumption DEF Typing, TypeOK
<1>2. HasLine(shown, n.species)
  BY DEF Verdict
<1>3. shown \in 1..Len(publications) /\ line # None
  BY <1>1, <1>2 DEF HasLine
<1>4. publications[shown] \in Publication
  BY <1>1, <1>3
<1>5. n.price \in Nat /\ n.weight \in Int /\ n.species \in Species
  BY <1>1 DEF Note, Money, Weight
<1>6. line \in Line \cup {None}
  BY <1>4, <1>5 DEF Publication, Board
<1>7. line.dnbp \in Nat
  BY <1>3, <1>6 DEF Line, Money
<1>8. ~IsBreach(n.price, n.weight, FloorToCents(line.dnbp))
  <2>1. Verdict(u, shown) = BidStatus(n.price, n.weight, FloorToCents(line.dnbp))
    BY <1>2 DEF Verdict, DnbpOf
  <2> HIDE DEF n, line
  <2>2. IsBreach(n.price, n.weight, FloorToCents(line.dnbp)) =>
            BidStatus(n.price, n.weight, FloorToCents(line.dnbp)) = "BREACH"
    BY DEF BidStatus
  <2> QED BY <2>1, <2>2
<1> HIDE DEF n, line
<1>9. ~IsBreach(n.price, n.weight, line.dnbp)
  BY <1>5, <1>7, <1>8, PhoneIsConservative
<1> QED BY <1>3, <1>9 DEF n, line

LEMMA VerdictsStillStand ==
    ASSUME Typing, VerdictsStand, [Next]_vars
    PROVE  VerdictsStand'
<1> SUFFICES ASSUME NEW u \in Lots, written'[u] # None,
                    written'[u].verdict \in {"PASS", "CLOSE"}
             PROVE  /\ written'[u].shown \in 1..Len(publications')
                    /\ ~IsBreach(NoteOf[u].price, NoteOf[u].weight,
                            publications'[written'[u].shown].board[NoteOf[u].species].dnbp)
  BY DEF VerdictsStand
<1>1. CASE written'[u] = written[u]
  BY <1>1, TheWorldGrows DEF VerdictsStand
<1>2. CASE /\ publications' = publications
           /\ written'[u].shown \in 0..Len(publications)
           /\ written'[u].verdict = Verdict(u, written'[u].shown)
  <2>1. PICK shown \in 0..Len(publications) :
            shown = written'[u].shown /\ Verdict(u, shown) \in {"PASS", "CLOSE"}
    BY <1>2
  <2>2. /\ shown \in 1..Len(publications)
        /\ ~IsBreach(NoteOf[u].price, NoteOf[u].weight,
                     publications[shown].board[NoteOf[u].species].dnbp)
    BY <2>1, VerdictsAreSafe
  <2> QED BY <1>2, <2>1, <2>2
<1> QED BY <1>1, <1>2, TheWorldGrows

(* What the phone let pass is no breach on the server, as long as the row  *)
(* has the publication that was on the screen (floor_to_cents in the       *)
(* published prices, is_breach).                                           *)
THEOREM PassedIsNoBreach == Spec => []PassedOnThePhoneIsNoBreach
<1>1. Init => RowsAreTrue /\ VerdictsStand
  BY DEF Init, RowsAreTrue, VerdictsStand, Idle
<1>2. Typing /\ RowsAreTrue /\ VerdictsStand /\ [Next]_vars =>
          Typing' /\ RowsAreTrue' /\ VerdictsStand'
  BY TypingHolds, RowsStayTrue, VerdictsStillStand
<1>3. Typing /\ RowsAreTrue /\ VerdictsStand => PassedOnThePhoneIsNoBreach
  <2> SUFFICES ASSUME Typing, RowsAreTrue, VerdictsStand, NEW u \in Lots,
                      entries[u] # None, entries[u].publication = written[u].shown,
                      written[u].verdict \in {"PASS", "CLOSE"},
                      entries[u].price = NoteOf[u].price,
                      entries[u].weight = NoteOf[u].weight, u \notin torn
               PROVE  ~entries[u].breach
    BY DEF PassedOnThePhoneIsNoBreach
  <2>1. ScoredBy(publications, NoteOf[u].species, entries[u]) /\ written[u] # None
    BY DEF RowsAreTrue
  <2>2. ~IsBreach(NoteOf[u].price, NoteOf[u].weight,
                  publications[written[u].shown].board[NoteOf[u].species].dnbp)
    BY <2>1 DEF VerdictsStand
  <2> QED BY <2>1, <2>2 DEF ScoredBy
<1> QED BY FirstTyping, <1>1, <1>2, <1>3, PTL DEF Spec

-----------------------------------------------------------------------------
(* Progress.                                                               *)

(* The r latest publications asked for the target, and no more.            *)
RunOf(history, n, target, r) ==
    /\ \A k \in (n - r + 1)..n : history[k].target = target
    /\ r = n \/ history[n - r].target # target

LEMMA RunExists ==
    ASSUME NEW history, NEW n \in Nat, NEW target
    PROVE  \E r \in 0..n : RunOf(history, n, target, r)
<1> DEFINE T == {r \in 0..n : \A k \in (n - r + 1)..n : history[k].target = target}
<1>1. 0 \in T /\ T \in SUBSET (0..n)
  OBVIOUS
<1>2. PICK r \in T : \A x \in T : x <= r
  <2> HIDE DEF T
  <2> QED BY <1>1, HasGreatest
<1>3. r \in 0..n /\ \A k \in (n - r + 1)..n : history[k].target = target
  OBVIOUS
<1>4. ASSUME r # n PROVE history[n - r].target # target
  <2> SUFFICES ASSUME history[n - r].target = target PROVE FALSE
    OBVIOUS
  <2>1. r + 1 \in 0..n /\ n - (r + 1) + 1 = n - r
    BY <1>3, <1>4
  <2>2. \A k \in (n - r)..n : k = n - r \/ k \in (n - r + 1)..n
    BY <1>3
  <2>3. \A k \in (n - r)..n : history[k].target = target
    BY <1>3, <2>2
  <2>4. r + 1 \in T
    BY <2>1, <2>3
  <2> HIDE DEF T
  <2>5. r + 1 <= r
    BY <1>2, <2>4
  <2> QED BY <1>3, <2>5
<1> QED BY <1>3, <1>4 DEF RunOf

(* Walking back ends where the run began. *)
StartOf(history, n, r, now) == IF r = 0 THEN now ELSE history[n - r + 1].from

LEMMA Stopping ==
    ASSUME NEW x, NEW b
    PROVE  [[at |-> x, stopped |-> b] EXCEPT !.stopped = TRUE] = [at |-> x, stopped |-> TRUE]
<1> DEFINE p == [at |-> x, stopped |-> b]
           q == [p EXCEPT !.stopped = TRUE]
           w == [at |-> x, stopped |-> TRUE]
<1>1. DOMAIN p = {"at", "stopped"} /\ p.at = x
  OBVIOUS
<1>2. q = [f \in {"at", "stopped"} |-> q[f]] /\ q["at"] = x /\ q["stopped"] = TRUE
  BY <1>1
<1>3. w = [f \in {"at", "stopped"} |-> w[f]] /\ w["at"] = x /\ w["stopped"] = TRUE
  OBVIOUS
<1> HIDE DEF p, q, w
<1>4. q = w
  BY <1>2, <1>3
<1> QED BY <1>4 DEF q, p, w

LEMMA AnchorIsStart ==
    ASSUME NEW history, NEW n \in Nat, NEW target, NEW now, NEW r \in 0..n,
           RunOf(history, n, target, r)
    PROVE  ProgressAnchor(history, n, target, now) = StartOf(history, n, r, now)
<1> DEFINE step(past, seen) == IF past.stopped \/ seen.target # target
                               THEN [past EXCEPT !.stopped = TRUE]
                               ELSE [at |-> seen.from, stopped |-> FALSE]
           walks(w) == w = [i \in 0..n |->
                               IF i = 0 THEN [at |-> now, stopped |-> FALSE]
                               ELSE step(w[i - 1], history[n - i + 1])]
           walk == CHOOSE w : walks(w)
           here(i) == [at |-> StartOf(history, n, i, now), stopped |-> FALSE]
           g == [i \in 0..n |-> IF i <= r THEN here(i)
                                ELSE [at |-> StartOf(history, n, r, now), stopped |-> TRUE]]
<1>1. ProgressAnchor(history, n, target, now) = walk[n].at
  BY DEF ProgressAnchor
<1>2. ASSUME NEW i \in 1..n PROVE g[i] = step(g[i - 1], history[n - i + 1])
  <2>1. i \in 0..n /\ i - 1 \in 0..n /\ i # 0 /\ r \in Nat
    OBVIOUS
  <2>2. CASE i <= r
    <3>1. i - 1 <= r /\ n - i + 1 \in (n - r + 1)..n
      BY <2>1, <2>2
    <3>2. history[n - i + 1].target = target
      BY <3>1 DEF RunOf
    <3>3. g[i - 1] = here(i - 1) /\ g[i] = here(i)
      BY <2>1, <2>2, <3>1
    <3>4. here(i) = [at |-> history[n - i + 1].from, stopped |-> FALSE]
      BY <2>1 DEF StartOf
    <3> QED BY <3>2, <3>3, <3>4
  <2>3. CASE i = r + 1
    <3>1. n - i + 1 = n - r /\ r # n /\ ~(i <= r) /\ i - 1 = r
      BY <2>1, <2>3
    <3>2. history[n - i + 1].target # target
      BY <3>1 DEF RunOf
    <3>3. g[i - 1] = here(r) /\ g[i] = [at |-> StartOf(history, n, r, now), stopped |-> TRUE]
      BY <2>1, <3>1
    <3>4. [here(r) EXCEPT !.stopped = TRUE]
          = [at |-> StartOf(history, n, r, now), stopped |-> TRUE]
      BY Stopping
    <3>5. history[n - i + 1].target # target
      BY <3>1, <3>2
    <3>6. step(here(r), history[n - i + 1]) = [here(r) EXCEPT !.stopped = TRUE]
      BY <3>5
    <3> QED BY <3>3, <3>4, <3>6
  <2>4. CASE i > r + 1
    <3>1. ~(i <= r) /\ ~(i - 1 <= r)
      BY <2>1, <2>4
    <3>2. /\ g[i - 1] = [at |-> StartOf(history, n, r, now), stopped |-> TRUE]
          /\ g[i] = [at |-> StartOf(history, n, r, now), stopped |-> TRUE]
      BY <2>1, <3>1
    <3> DEFINE past == [at |-> StartOf(history, n, r, now), stopped |-> TRUE]
    <3>3. [past EXCEPT !.stopped = TRUE] = past /\ past.stopped
      BY Stopping
    <3>4. step(past, history[n - i + 1]) = past
      BY <3>3
    <3> QED BY <3>2, <3>4
  <2> QED BY <2>1, <2>2, <2>3, <2>4
<1>3. g[0] = [at |-> now, stopped |-> FALSE]
  BY DEF StartOf
<1>4. g = [i \in 0..n |-> g[i]]
  OBVIOUS
<1> HIDE DEF g, step
<1>5. walks(g)
  <2>1. \A i \in 0..n : g[i] = IF i = 0 THEN [at |-> now, stopped |-> FALSE]
                              ELSE step(g[i - 1], history[n - i + 1])
    BY <1>2, <1>3
  <2> QED BY <1>4, <2>1
<1>6. walks(walk)
  <2> HIDE DEF walks
  <2> QED BY <1>5
<1> HIDE DEF walk
<1> DEFINE T == {i \in 0..n : \A j \in 0..i : walk[j] = g[j]}
<1>7. 0 \in T /\ T \in SUBSET (0..n)
  <2>1. walk[0] = g[0]
    BY <1>3, <1>6
  <2> QED BY <2>1
<1>8. PICK m \in T : \A x \in T : x <= m
  <2> HIDE DEF T
  <2> QED BY <1>7, HasGreatest
<1>9. m = n
  <2> SUFFICES ASSUME m # n PROVE FALSE
    OBVIOUS
  <2>1. m \in 0..n /\ (\A j \in 0..m : walk[j] = g[j]) /\ m + 1 \in 1..n /\ m + 1 \in 0..n
    OBVIOUS
  <2>2. walk[m + 1] = step(walk[m + 1 - 1], history[n - (m + 1) + 1])
    <3>1. \A i \in 0..n : walk[i] = IF i = 0 THEN [at |-> now, stopped |-> FALSE]
                                   ELSE step(walk[i - 1], history[n - i + 1])
      BY <1>6
    <3>2. m + 1 # 0
      BY <2>1
    <3> HIDE DEF walks, T
    <3> QED BY ONLY <2>1, <3>1, <3>2
  <2>3. g[m + 1] = step(g[m + 1 - 1], history[n - (m + 1) + 1])
    BY <1>2, <2>1
  <2>4. m + 1 - 1 = m /\ walk[m] = g[m]
    BY <2>1
  <2>5. walk[m + 1] = g[m + 1]
    BY <2>2, <2>3, <2>4
  <2>6. \A j \in 0..(m + 1) : j \in 0..m \/ j = m + 1
    BY <2>1
  <2>7. m + 1 \in T
    BY <2>1, <2>5, <2>6
  <2> HIDE DEF T
  <2>8. m + 1 <= m
    BY <1>8, <2>7
  <2> QED BY <2>1, <2>8
<1>10. walk[n] = g[n]
  BY <1>8, <1>9
<1>11. g[n].at = StartOf(history, n, r, now)
  BY DEF g
<1> QED BY <1>1, <1>10, <1>11 DEF walk

UpTo(P, q) == {x \in P : x <= q}

(* Every place in the order of a set of numbers is taken. *)
LEMMA PlacesAreOrdered ==
    ASSUME NEW P, IsFiniteSet(P), P \subseteq Nat
    PROVE  /\ Cardinality(P) \in Nat
           /\ \A q \in P : Cardinality(UpTo(P, q)) \in 1..Cardinality(P)
           /\ \A q, x \in P : q < x => Cardinality(UpTo(P, q)) < Cardinality(UpTo(P, x))
<1>1. ASSUME NEW q \in P
      PROVE  /\ IsFiniteSet(UpTo(P, q)) /\ Cardinality(UpTo(P, q)) \in 1..Cardinality(P)
             /\ Cardinality(P) \in Nat
  <2>1. UpTo(P, q) \in SUBSET P /\ q \in UpTo(P, q)
    BY DEF UpTo
  <2>2. IsFiniteSet(UpTo(P, q)) /\ Cardinality(UpTo(P, q)) <= Cardinality(P)
    BY <2>1, FS_Subset
  <2>3. Cardinality(UpTo(P, q)) \in Nat /\ Cardinality(P) \in Nat
    BY <2>2, FS_CardinalityType
  <2>4. Cardinality(UpTo(P, q)) # 0
    BY <2>1, <2>2, FS_EmptySet
  <2> QED BY <2>2, <2>3, <2>4
<1>2. ASSUME NEW q \in P, NEW x \in P, q < x
      PROVE  Cardinality(UpTo(P, q)) < Cardinality(UpTo(P, x))
  <2>1. q \in Nat /\ x \in Nat /\ \A y \in P : y \in Nat
    OBVIOUS
  <2>2. UpTo(P, q) \in SUBSET UpTo(P, x) /\ x \in UpTo(P, x) /\ x \notin UpTo(P, q)
    <3>1. \A y \in P : y <= q => y <= x
      BY <1>2, <2>1
    <3>2. ~(x <= q) /\ x <= x
      BY <1>2, <2>1
    <3>3. UpTo(P, q) \subseteq UpTo(P, x)
      BY <3>1 DEF UpTo
    <3> QED BY <3>2, <3>3 DEF UpTo
  <2>3. IsFiniteSet(UpTo(P, x)) /\ UpTo(P, x) # UpTo(P, q)
    BY <1>1, <2>2
  <2>4. /\ Cardinality(UpTo(P, q)) <= Cardinality(UpTo(P, x))
        /\ Cardinality(UpTo(P, q)) = Cardinality(UpTo(P, x)) => UpTo(P, q) = UpTo(P, x)
    BY <2>2, <2>3, FS_Subset
  <2> QED BY <1>1, <2>3, <2>4
<1>3. Cardinality(P) \in Nat
  BY FS_CardinalityType
<1> QED BY <1>1, <1>2, <1>3

LEMMA PlacesAreTaken ==
    ASSUME NEW P, IsFiniteSet(P), P \subseteq Nat, NEW i \in 1..Cardinality(P)
    PROVE  \E q \in P : Cardinality(UpTo(P, q)) = i
<1> DEFINE n == Cardinality(P)
           place == [q \in P |-> Cardinality(UpTo(P, q))]
<1>1. place \in [P -> 1..n] /\ \A q, x \in P : q # x => place[q] # place[x]
  <2>1. \A q, x \in P : q # x => q < x \/ x < q
    OBVIOUS
  <2>2. \A q \in P : place[q] \in 1..n
    BY PlacesAreOrdered
  <2>3. \A q, x \in P : q < x => place[q] < place[x]
    BY PlacesAreOrdered
  <2> HIDE DEF n
  <2>4. place \in [P -> 1..n]
    BY <2>2
  <2> HIDE DEF place
  <2> QED BY <2>1, <2>2, <2>3, <2>4
<1> HIDE DEF place
<1>2. place \in Injection(P, 1..n)
  BY <1>1 DEF Injection, IsInjective
<1>3. n \in Nat /\ IsFiniteSet(1..n) /\ Cardinality(1..n) = n
  <2>1. n \in Nat
    BY FS_CardinalityType
  <2> HIDE DEF n
  <2>2. IsFiniteSet(1..n) /\ Cardinality(1..n) = n
    BY <2>1, FS_Interval
  <2> QED BY <2>1, <2>2
<1>4. place \in Surjection(P, 1..n)
  <2>1. Cardinality(P) = Cardinality(1..n)
    BY <1>3
  <2> HIDE DEF n
  <2> QED BY <1>2, <1>3, <2>1, FS_Injection
<1>5. PICK q \in P : place[q] = i
  BY <1>4 DEF Surjection
<1> QED BY <1>5 DEF place

(* The anchor is where the publications that list the species began to ask *)
(* for what the live one asks for.                                         *)
LEMMA AnchorIsBeginning ==
    ASSUME TypeOK, NEW s \in Species, HasLine(Live, s)
    PROVE  /\ TargetBegan(s) \in Listings(s)
           /\ AnchorOf(s) = publications[TargetBegan(s)].from
<1> DEFINE P == PastOf(s)
           n == Cardinality(P)
           T == publications[Live].board[s].target
           Of(p) == publications[p].board[s].target
           place(q) == Cardinality(UpTo(P, q))
           nth(i) == CHOOSE q \in P : place(q) = i
           began(p) == /\ \A q \in Listings(s) : q >= p => Of(q) = T
                       /\ \A q \in Listings(s) :
                              q < p => \E x \in Listings(s) : q <= x /\ x < p /\ Of(x) # T
<1>1. Live \in Nat /\ Live # 0 /\ P \subseteq 1..(Live - 1)
  BY DEF TypeOK, Live, HasLine, PastOf
<1>2. IsFiniteSet(P) /\ P \subseteq Nat /\ n \in Nat
  <2>1. IsFiniteSet(1..(Live - 1))
    BY <1>1, FS_Interval
  <2>2. P \subseteq Nat
    BY <1>1
  <2> HIDE DEF P
  <2>3. IsFiniteSet(P)
    BY <1>1, <2>1, FS_Subset
  <2>4. Cardinality(P) \in Nat
    BY <2>3, FS_CardinalityType
  <2> QED BY <2>2, <2>3, <2>4
<1>3. Listings(s) = P \cup {Live} /\ Live \notin P /\ \A q \in P : q < Live
  <2>1. \A p \in 1..Live : p \in 1..(Live - 1) \/ p = Live
    BY <1>1
  <2>2. Live \in 1..Live /\ \A p \in 1..(Live - 1) : p \in 1..Live /\ p # Live /\ p < Live
    BY <1>1
  <2> QED BY <2>1, <2>2 DEF Listings, PastOf
<1>4. \A i \in 1..n : HistoryOf(s)[i] = [from |-> publications[nth(i)].from, target |-> Of(nth(i))]
  BY DEF HistoryOf, UpTo
<1> HIDE DEF P
<1>5. /\ \A q \in P : place(q) \in 1..n
      /\ \A q, x \in P : q < x => place(q) < place(x)
  BY <1>2, PlacesAreOrdered
<1>6. \A i \in 1..n : nth(i) \in P /\ place(nth(i)) = i
  <2> SUFFICES ASSUME NEW i \in 1..n PROVE nth(i) \in P /\ place(nth(i)) = i
    OBVIOUS
  <2>1. \E q \in P : place(q) = i
    BY <1>2, PlacesAreTaken
  <2> QED BY <2>1
<1>7. \A q \in P : nth(place(q)) = q
  <2> SUFFICES ASSUME NEW q \in P PROVE nth(place(q)) = q
    OBVIOUS
  <2> DEFINE x == nth(place(q))
  <2>1. x \in P /\ place(x) = place(q) /\ place(q) \in 1..n
    BY <1>5, <1>6
  <2> HIDE DEF x, place
  <2>2. x \in Nat /\ q \in Nat /\ place(q) \in Nat
    BY <1>2, <2>1
  <2>3. ~(x < q) /\ ~(q < x)
    BY <1>5, <2>1, <2>2
  <2>4. x = q
    BY <2>2, <2>3
  <2> QED BY <2>4 DEF x
<1> HIDE DEF n, nth, place
<1>8. PICK r \in 0..n : RunOf(HistoryOf(s), n, T, r)
  BY <1>2, RunExists
<1> DEFINE m == n - r + 1
           b == IF r = 0 THEN Live ELSE nth(m)
<1>9. r \in Nat /\ m \in Nat /\ m = n - r + 1 /\ (r # 0 => m \in 1..n) /\ (r # n => m - 1 \in 1..n)
  BY <1>2
<1>10. /\ \A k \in m..n : HistoryOf(s)[k].target = T
       /\ r = n \/ HistoryOf(s)[m - 1].target # T
  <2>1. n - r = m - 1
    BY <1>2
  <2> QED BY <1>8, <2>1 DEF RunOf
<1>11. AnchorOf(s) = publications[b].from
  <2>1. AnchorOf(s) = StartOf(HistoryOf(s), n, r, publications[Live].from)
    BY <1>2, <1>8, AnchorIsStart DEF AnchorOf, n, P
  <2>2. CASE r = 0
    BY <2>1, <2>2 DEF StartOf
  <2>3. CASE r # 0
    <3>1. HistoryOf(s)[m].from = publications[nth(m)].from
      <4>1. HistoryOf(s)[m] = [from |-> publications[nth(m)].from, target |-> Of(nth(m))]
        BY <1>4, <1>9, <2>3
      <4> QED BY <4>1
    <3>2. AnchorOf(s) = HistoryOf(s)[m].from
      BY <2>1, <2>3 DEF StartOf
    <3> QED BY <2>3, <3>1, <3>2
  <2> QED BY <2>2, <2>3
<1> HIDE DEF m
<1>12. b \in Listings(s) /\ (r = 0 => b = Live) /\ (r # 0 => b \in P /\ place(b) = m)
  BY <1>3, <1>6, <1>9
<1> HIDE DEF b
<1>13. b \in Nat /\ b <= Live
  <2>1. CASE r = 0
    BY <1>1, <1>12, <2>1
  <2>2. CASE r # 0
    <3>1. b < Live /\ b \in Nat
      BY <1>2, <1>3, <1>12, <2>2
    <3> QED BY <1>1, <3>1
  <2> QED BY <2>1, <2>2
<1>14. \A q \in P : Of(q) = HistoryOf(s)[place(q)].target
  <2> SUFFICES ASSUME NEW q \in P PROVE Of(q) = HistoryOf(s)[place(q)].target
    OBVIOUS
  <2>1. place(q) \in 1..n /\ nth(place(q)) = q
    BY <1>5, <1>7
  <2>2. HistoryOf(s)[place(q)] = [from |-> publications[nth(place(q))].from,
                                  target |-> Of(nth(place(q)))]
    BY <1>4, <2>1
  <2>3. HistoryOf(s)[place(q)].target = Of(nth(place(q)))
    BY <2>2
  <2> QED BY <2>1, <2>3
<1>15. began(b)
  <2>1. ASSUME NEW q \in Listings(s), q >= b
        PROVE  Of(q) = T
    <3>1. CASE q \in P
      <4>1. r # 0
        BY <1>1, <1>2, <1>3, <1>12, <2>1, <3>1
      <4>2. b < q \/ b = q
        BY <1>2, <1>12, <2>1, <3>1, <4>1
      <4>3. place(b) <= place(q)
        BY <1>2, <1>5, <1>9, <1>12, <3>1, <4>1, <4>2
      <4>4. place(q) \in m..n
        BY <1>2, <1>5, <1>9, <1>12, <3>1, <4>1, <4>3
      <4> QED BY <1>10, <1>14, <3>1, <4>4
    <3> QED BY <1>3, <2>1, <3>1
  <2>2. ASSUME NEW q \in Listings(s), q < b
        PROVE  \E x \in Listings(s) : q <= x /\ x < b /\ Of(x) # T
    <3> DEFINE x == nth(m - 1)
    <3>1. q \in P /\ place(q) \in 1..n
      <4>1. q # Live
        BY <1>1, <1>13, <2>2
      <4> QED BY <1>3, <1>5, <2>2, <4>1
    <3>2. place(q) < m
      <4>1. CASE r = 0
        BY <1>2, <1>9, <3>1, <4>1
      <4>2. CASE r # 0
        BY <1>5, <1>12, <2>2, <3>1, <4>2
      <4> QED BY <4>1, <4>2
    <3>3. r # n
      BY <1>2, <1>9, <3>1, <3>2
    <3>4. x \in P /\ place(x) = m - 1 /\ Of(x) # T
      <4>1. x \in P /\ place(x) = m - 1
        BY <1>6, <1>9, <3>3
      <4> HIDE DEF x
      <4> QED BY <1>10, <1>14, <3>3, <4>1
    <3> HIDE DEF x
    <3>5. q <= x
      <4>1. place(q) <= place(x)
        BY <1>9, <3>1, <3>2, <3>4
      <4>2. ~(x < q)
        BY <1>5, <3>1, <3>4, <4>1
      <4> QED BY <1>2, <3>1, <3>4, <4>2
    <3>6. x < b
      <4>1. CASE r = 0
        BY <1>3, <1>12, <3>4, <4>1
      <4>2. CASE r # 0
        <5>1. place(x) < place(b)
          BY <1>9, <1>12, <3>4, <4>2
        <5>2. b # x /\ ~(b < x)
          BY <1>5, <1>9, <1>12, <3>4, <4>2, <5>1
        <5>3. x \in Nat
          BY <1>2, <3>4
        <5> QED BY <1>13, <5>2, <5>3
      <4> QED BY <4>1, <4>2
    <3> QED BY <1>3, <3>4, <3>5, <3>6
  <2> QED BY <2>1, <2>2
<1>16. ASSUME NEW p \in Listings(s), began(p)
       PROVE  p = b
  <2>1. p \in Nat /\ b \in Nat
    BY <1>1, <1>2, <1>3, <1>13
  <2>2. ~(p < b)
    <3> SUFFICES ASSUME p < b PROVE FALSE
      OBVIOUS
    <3>1. PICK x \in Listings(s) : p <= x /\ Of(x) # T
      BY <1>15, <1>16
    <3>2. x >= p
      BY <1>1, <1>2, <1>3, <2>1, <3>1
    <3> QED BY <1>16, <3>1, <3>2
  <2>3. ~(b < p)
    <3> SUFFICES ASSUME b < p PROVE FALSE
      OBVIOUS
    <3>1. PICK x \in Listings(s) : b <= x /\ Of(x) # T
      BY <1>12, <1>16
    <3>2. x >= b
      BY <1>1, <1>2, <1>3, <2>1, <3>1
    <3> QED BY <1>15, <3>1, <3>2
  <2> QED BY <2>1, <2>2, <2>3
<1>17. TargetBegan(s) = CHOOSE p \in Listings(s) : began(p)
  BY DEF TargetBegan
<1> HIDE DEF began
<1>18. TargetBegan(s) \in Listings(s) /\ began(TargetBegan(s))
  BY <1>12, <1>15, <1>17
<1>19. TargetBegan(s) = b
  BY <1>16, <1>18
<1> QED BY <1>11, <1>12, <1>19

(* The two calendars are at most a date apart.                             *)
LEMMA DatesFollow ==
    ASSUME NEW t \in Nat, NEW began \in Nat
    PROVE  /\ t >= began => TradeDate(t) >= UtcDate(began)
           /\ TradeDate(t) >= UtcDate(began) => TradeDate(t) >= TradeDate(began) - 1
<1> DEFINE q == t + Ahead
           z == began + Ahead
<1>1. DayLength \in Nat \ {0} /\ Ahead \in 0..(DayLength - 1) /\ q \in Nat /\ z \in Nat
  BY SyncAssumption
<1>2. ASSUME NEW x \in Nat, NEW y \in Nat, x >= y
      PROVE  x \div DayLength >= y \div DayLength
  <2> DEFINE a == x \div DayLength
             b == y \div DayLength
  <2>1. /\ a \in Nat /\ x < a * DayLength + DayLength /\ a * DayLength \in Nat
        /\ b \in Nat /\ b * DayLength <= y /\ b * DayLength \in Nat
    <3>1. /\ a \in Nat /\ x % DayLength \in 0..(DayLength - 1)
          /\ x = a * DayLength + (x % DayLength)
      BY <1>1
    <3>2. /\ b \in Nat /\ y % DayLength \in 0..(DayLength - 1)
          /\ y = b * DayLength + (y % DayLength)
      BY <1>1
    <3>3. a * DayLength \in Nat /\ b * DayLength \in Nat
      BY <1>1, <3>1, <3>2
    <3> HIDE DEF a, b
    <3> QED BY <1>1, <3>1, <3>2, <3>3
  <2> HIDE DEF a, b
  <2>2. SUFFICES ASSUME a + 1 <= b PROVE FALSE
    BY <2>1 DEF a, b
  <2>3. (a + 1) * DayLength <= b * DayLength /\ (a + 1) * DayLength = a * DayLength + DayLength
    BY <1>1, <2>1, <2>2
  <2> DEFINE aD == a * DayLength
             bD == b * DayLength
  <2>4. aD + DayLength <= bD /\ x < aD + DayLength /\ bD <= y /\ aD \in Nat /\ bD \in Nat
    BY <2>1, <2>3
  <2> HIDE DEF aD, bD
  <2> QED BY <1>1, <1>2, <2>4
<1>3. z \div DayLength <= began \div DayLength + 1
  <2>1. z <= began + DayLength
    BY <1>1
  <2>2. (began + DayLength) \div DayLength >= z \div DayLength
    BY <1>1, <1>2, <2>1
  <2>3. (began + DayLength) \div DayLength = began \div DayLength + 1
    BY <1>1
  <2> QED BY <2>2, <2>3
<1>4. q \div DayLength \in Int /\ z \div DayLength \in Int /\ began \div DayLength \in Int
  BY <1>1
<1>5. t >= began => q \div DayLength >= began \div DayLength
  <2>1. t >= began => q >= began
    BY <1>1
  <2> QED BY <1>1, <1>2, <2>1
<1> QED BY <1>3, <1>4, <1>5 DEF TradeDate, UtcDate

(* However long the history of a species is, and however often it was left *)
(* out: what was bought since its target began counts, and nothing from    *)
(* before the local day before that (find_progress_anchor,                 *)
(* compute_species_progress).                                              *)
THEOREM CountHolds == Spec => []TargetsCountFromTheirStart
<1>1. ASSUME TypeOK, NEW s \in Species, HasLine(Live, s)
      PROVE  LET began == publications[TargetBegan(s)].from
             IN  /\ \A u \in Lots :
                        (/\ entries[u] # None /\ ~entries[u].deleted
                         /\ NoteOf[u].species = s
                         /\ entries[u].at >= began) => u \in Counted(s)
                 /\ \A u \in Counted(s) :
                        TradeDate(entries[u].at) >= TradeDate(began) - 1
  <2> DEFINE began == publications[TargetBegan(s)].from
  <2>1. AnchorOf(s) = began /\ TargetBegan(s) \in Listings(s)
    BY <1>1, AnchorIsBeginning
  <2>2. began \in Nat
    <3>1. TargetBegan(s) \in 1..Len(publications) /\ publications \in Seq(Publication)
      BY <1>1, <2>1 DEF Listings, Live, TypeOK
    <3>2. publications[TargetBegan(s)] \in Publication
      BY <3>1
    <3>3. began \in Instants
      BY <3>2 DEF Publication
    <3> QED BY <3>3 DEF Instants
  <2>3. \A u \in Lots : entries[u] # None => entries[u].at \in Nat
    <3>1. \A u \in Lots : entries[u] # None => entries[u] \in Entry
      BY <1>1 DEF TypeOK
    <3> QED BY <3>1 DEF Entry, Instants
  <2> HIDE DEF began
  <2>4. \A u \in Lots :
            entries[u] # None =>
                /\ entries[u].at >= began => TradeDate(entries[u].at) >= UtcDate(began)
                /\ TradeDate(entries[u].at) >= UtcDate(began)
                   => TradeDate(entries[u].at) >= TradeDate(began) - 1
    BY <2>2, <2>3, DatesFollow
  <2>5. /\ \A u \in Lots :
               (/\ entries[u] # None /\ ~entries[u].deleted
                /\ NoteOf[u].species = s
                /\ entries[u].at >= began) => u \in Counted(s)
        /\ \A u \in Counted(s) : TradeDate(entries[u].at) >= TradeDate(began) - 1
    BY <2>1, <2>4 DEF Counted
  <2> QED BY <2>5 DEF began
<1>2. TypeOK => TargetsCountFromTheirStart
  BY <1>1 DEF TargetsCountFromTheirStart
<1> QED BY TypesHold, <1>2, PTL
=============================================================================
