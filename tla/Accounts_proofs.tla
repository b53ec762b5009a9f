--------------------------- MODULE Accounts_proofs ---------------------------
(***************************************************************************)
(* Theorems about users and sessions: an owner remains, sessions end and   *)
(* nobody is logged out for nothing, for any number of users and requests. *)
(***************************************************************************)
EXTENDS Accounts, TLAPS

-----------------------------------------------------------------------------
(* Typing.                                                                 *)

(* What rows and requests refer to exists, and is of one user.             *)
RowsExist ==
    /\ \A t \in TokenIds : tokens[t] # None <=> t <= issued
    /\ \A t \in TokenIds : t <= issued =>
           /\ users[tokens[t].user] # None
           /\ tokens[t].family <= t
           /\ tokens[tokens[t].family].user = tokens[t].user
    /\ \A u \in Users : /\ access[u] # None => users[u] # None
                        /\ jar[u] # 0 => jar[u] <= issued /\ tokens[jar[u]].user = u
    /\ \A r \in Requests :
           /\ request[r] # Idle => users[request[r].user] # None
           /\ request[r].job \in {"present", "rotate"} =>
                  /\ request[r].token <= issued
                  /\ tokens[request[r].token].user = request[r].user

Typing == TypeOK /\ RowsExist

(* What is known of a request by its job.                                  *)
LEMMA RequestShapes ==
    ASSUME TypeOK, NEW r \in Requests
    PROVE  /\ request[r] = Idle <=> request[r].job = "idle"
           /\ request[r] # Idle => request[r] \in Request /\ request[r].user \in Users
           /\ request[r].job \in {"accept", "login", "role", "rotate"} => request[r].role \in Roles
           /\ request[r].job = "role" => request[r].to \in Roles
           /\ request[r].job = "deactivate" =>
                  request[r].status \in Statuses /\ request[r].issued \in 0..MaxTokens
           /\ request[r].job \in {"present", "rotate"} => request[r].token \in TokenIds
BY DEF TypeOK, Request, Idle

(* A request that starts or ends is the only one that changes.             *)
LEMMA Started ==
    ASSUME TypeOK, NEW r \in Requests, NEW what \in Request \cup {Idle},
           request' = [request EXCEPT ![r] = what]
    PROVE  /\ request' \in [Requests -> {Idle} \cup Request]
           /\ request'[r] = what
           /\ \A o \in Requests \ {r} : request'[o] = request[o]
BY DEF TypeOK

(* A user's row changes, and remains one.                                  *)
LEMMA UserWritten ==
    ASSUME TypeOK, NEW u \in Users, NEW row \in User,
           users' = [users EXCEPT ![u] = row]
    PROVE  /\ users' \in [Users -> User \cup {None}]
           /\ users'[u] = row /\ row # None
           /\ \A v \in Users \ {u} : users'[v] = users[v]
BY NullAssumption DEF TypeOK

(* Revoking leaves everything else of a token alone.                       *)
LEMMA RevokedTokens ==
    ASSUME Typing, NEW S \in SUBSET (1..issued)
    PROVE  /\ Revoked(tokens, S) \in [TokenIds -> Token \cup {None}]
           /\ \A t \in TokenIds :
                 LET x == Revoked(tokens, S)[t]
                 IN  /\ x # None <=> t <= issued
                     /\ t <= issued =>
                           /\ x.user = tokens[t].user /\ x.family = tokens[t].family
                           /\ x.crossed = tokens[t].crossed /\ x.forked = tokens[t].forked
                           /\ x.revoked <=> tokens[t].revoked \/ t \in S
<1> DEFINE ts == Revoked(tokens, S)
<1>1. issued \in 0..MaxTokens /\ MaxTokens \in Nat
  BY AccountsAssumption DEF Typing, TypeOK
<1>2. ASSUME NEW t \in TokenIds, t <= issued
      PROVE  tokens[t] \in Token
  BY <1>2 DEF Typing, TypeOK, RowsExist
<1>3. ASSUME NEW t \in TokenIds, t \in S
      PROVE  /\ ts[t] \in Token /\ ts[t].revoked = TRUE
             /\ ts[t].user = tokens[t].user /\ ts[t].family = tokens[t].family
             /\ ts[t].crossed = tokens[t].crossed /\ ts[t].forked = tokens[t].forked
  <2>1. t <= issued
    BY <1>3, <1>1
  <2>2. ts[t] = [tokens[t] EXCEPT !.revoked = TRUE]
    BY <1>3 DEF Revoked
  <2> HIDE DEF ts
  <2> QED BY <1>2, <2>1, <2>2 DEF Token
<1>4. ASSUME NEW t \in TokenIds, t \notin S
      PROVE  ts[t] = tokens[t]
  BY <1>4 DEF Revoked
<1>5. ts \in [TokenIds -> Token \cup {None}]
  <2>1. ASSUME NEW t \in TokenIds PROVE ts[t] \in Token \cup {None}
    <3> HIDE DEF ts
    <3> QED BY <1>3, <1>4 DEF Typing, TypeOK
  <2>2. ts = [t \in TokenIds |-> ts[t]]
    BY DEF Revoked
  <2> HIDE DEF ts
  <2> QED BY <2>1, <2>2
<1> HIDE DEF ts
<1>6. \A t \in TokenIds : ts[t] # None <=> t <= issued
  <2>1. ASSUME NEW t \in TokenIds, t \in S PROVE ts[t] # None /\ t <= issued
    <3>1. t <= issued
      BY <1>1, <2>1
    <3>2. ts[t] \in Token
      BY <1>3, <2>1
    <3> QED BY <3>1, <3>2, NullAssumption
  <2>2. ASSUME NEW t \in TokenIds, t \notin S PROVE ts[t] # None <=> t <= issued
    BY <1>4, <2>2 DEF Typing, RowsExist
  <2> QED BY <2>1, <2>2
<1>7. \A t \in TokenIds : t <= issued => (ts[t].revoked <=> tokens[t].revoked \/ t \in S)
  BY <1>3, <1>4
<1>8. \A t \in TokenIds :
         /\ ts[t].user = tokens[t].user /\ ts[t].family = tokens[t].family
         /\ ts[t].crossed = tokens[t].crossed /\ ts[t].forked = tokens[t].forked
  BY <1>3, <1>4
<1> QED BY <1>5, <1>6, <1>7, <1>8 DEF ts

(* A stored token is the newest, and leaves the others alone.              *)
LEMMA StoredToken ==
    ASSUME Typing, NEW u \in Users, NEW family \in 0..MaxTokens, NEW forked \in BOOLEAN,
           NEW before \in [TokenIds -> Token \cup {None}],
           Store(u, family, forked, before)
    PROVE  /\ issued' = issued + 1 /\ issued' \in TokenIds
           /\ tokens' \in [TokenIds -> Token \cup {None}]
           /\ tokens'[issued'] =
                  [user |-> u, family |-> IF family = 0 THEN issued' ELSE family,
                   revoked |-> FALSE, crossed |-> Leaving(u), forked |-> forked]
           /\ tokens'[issued'] # None
           /\ \A t \in TokenIds : t # issued' => tokens'[t] = before[t]
<1>1. issued \in 0..MaxTokens /\ MaxTokens \in Nat
  BY AccountsAssumption DEF Typing, TypeOK
<1>2. issued' = issued + 1 /\ issued' \in TokenIds
  BY <1>1 DEF Store, TokenIds
<1>3. Leaving(u) \in BOOLEAN
  BY DEF Leaving
<1> DEFINE new == [user |-> u, family |-> IF family = 0 THEN issued' ELSE family,
                   revoked |-> FALSE, crossed |-> Leaving(u), forked |-> forked]
<1>4. new \in Token
  BY <1>2, <1>3 DEF Token, TokenIds
<1>5. tokens' = [before EXCEPT ![issued'] = new]
  BY <1>2 DEF Store
<1> HIDE DEF new
<1>6. /\ tokens' \in [TokenIds -> Token \cup {None}]
      /\ tokens'[issued'] = new
      /\ \A t \in TokenIds : t # issued' => tokens'[t] = before[t]
  BY <1>2, <1>4, <1>5
<1>7. new # None
  BY <1>4, NullAssumption
<1> QED BY <1>2, <1>6, <1>7 DEF new

(* Users, requests and clients change while the tokens stay.               *)
LEMMA TypingWithoutTokens ==
    ASSUME Typing, UNCHANGED tokenVars,
           users' \in [Users -> User \cup {None}],
           \A u \in Users : users[u] # None => users'[u] # None,
           request' \in [Requests -> {Idle} \cup Request],
           \A r \in Requests :
               \/ request'[r] \in {Idle, request[r]}
               \/ /\ users[request'[r].user] # None
                  /\ request'[r].user \in Users
                  /\ request'[r].job \in {"present", "rotate"} =>
                         /\ request'[r].token <= issued
                         /\ tokens[request'[r].token].user = request'[r].user,
           access' = access,
           jar' \in [Users -> 0..MaxTokens],
           \A u \in Users : jar'[u] \in {0, jar[u]},
           changes' \in 0..MaxChanges,
           raced' \in BOOLEAN, revived' \subseteq Users, promoted' \subseteq Users,
           excused' \subseteq Users
    PROVE  Typing'
<1>1. TypeOK'
  BY DEF Typing, TypeOK, tokenVars
<1>2. \A t \in TokenIds : tokens'[t] # None <=> t <= issued'
  BY DEF Typing, RowsExist, tokenVars
<1>3. ASSUME NEW t \in TokenIds, t <= issued'
      PROVE  /\ users'[tokens'[t].user] # None
             /\ tokens'[t].family <= t
             /\ tokens'[tokens'[t].family].user = tokens'[t].user
  <2>1. tokens[t] \in Token /\ t <= issued
    BY <1>3 DEF Typing, TypeOK, RowsExist, tokenVars
  <2>2. tokens[t].user \in Users
    BY <2>1 DEF Token
  <2> QED BY <2>1, <2>2 DEF Typing, RowsExist, tokenVars
<1>4. ASSUME NEW u \in Users
      PROVE  /\ access'[u] # None => users'[u] # None
             /\ jar'[u] # 0 => jar'[u] <= issued' /\ tokens'[jar'[u]].user = u
  BY DEF Typing, RowsExist, tokenVars
<1>5. ASSUME NEW r \in Requests
      PROVE  /\ request'[r] # Idle => users'[request'[r].user] # None
             /\ request'[r].job \in {"present", "rotate"} =>
                    /\ request'[r].token <= issued'
                    /\ tokens'[request'[r].token].user = request'[r].user
  <2>1. CASE request'[r] = Idle
    BY <2>1 DEF Idle
  <2>2. CASE request'[r] = request[r]
    <3>1. request[r] # Idle => request[r].user \in Users
      BY RequestShapes DEF Typing
    <3> QED BY <2>2, <3>1 DEF Typing, RowsExist, tokenVars
  <2>3. CASE request'[r] \notin {Idle, request[r]}
    BY <2>3 DEF tokenVars
  <2> QED BY <2>1, <2>2, <2>3
<1>6. RowsExist'
  BY <1>2, <1>3, <1>4, <1>5 DEF RowsExist
<1> QED BY <1>1, <1>6 DEF Typing

(* Tokens are revoked, and at most a cookie is dropped.                    *)
LEMMA TypingWithRevocation ==
    ASSUME Typing, NEW S \in SUBSET (1..issued), tokens' = Revoked(tokens, S),
           issued' = issued, access' = access,
           users' \in [Users -> User \cup {None}],
           \A u \in Users : users[u] # None => users'[u] # None,
           request' \in [Requests -> {Idle} \cup Request],
           \A r \in Requests : request'[r] \in {Idle, request[r]},
           jar' \in [Users -> 0..MaxTokens],
           \A u \in Users : jar'[u] \in {0, jar[u]},
           changes' \in 0..MaxChanges,
           raced' \in BOOLEAN, revived' \subseteq Users, promoted' \subseteq Users,
           excused' \subseteq Users
    PROVE  Typing'
<1>1. /\ tokens' \in [TokenIds -> Token \cup {None}]
      /\ \A t \in TokenIds :
             /\ tokens'[t] # None <=> t <= issued
             /\ t <= issued => /\ tokens'[t].user = tokens[t].user
                               /\ tokens'[t].family = tokens[t].family
  BY RevokedTokens
<1>2. TypeOK'
  BY <1>1 DEF Typing, TypeOK
<1>3. ASSUME NEW t \in TokenIds, t <= issued'
      PROVE  /\ users'[tokens'[t].user] # None
             /\ tokens'[t].family <= t
             /\ tokens'[tokens'[t].family].user = tokens'[t].user
  <2>1. tokens[t] \in Token /\ t <= issued
    BY <1>3 DEF Typing, TypeOK, RowsExist
  <2>2. tokens[t].user \in Users /\ tokens[t].family \in TokenIds /\ tokens[t].family <= t
    BY <2>1 DEF Token, Typing, RowsExist
  <2>3. tokens[t].family <= issued
    BY <2>1, <2>2, AccountsAssumption DEF Typing, TypeOK, TokenIds
  <2> QED BY <1>1, <2>1, <2>2, <2>3 DEF Typing, RowsExist
<1>4. ASSUME NEW u \in Users
      PROVE  /\ access'[u] # None => users'[u] # None
             /\ jar'[u] # 0 => jar'[u] <= issued' /\ tokens'[jar'[u]].user = u
  <2>1. jar[u] # 0 => jar[u] \in TokenIds
    BY DEF Typing, TypeOK, TokenIds
  <2> QED BY <1>1, <2>1 DEF Typing, RowsExist
<1>5. ASSUME NEW r \in Requests
      PROVE  /\ request'[r] # Idle => users'[request'[r].user] # None
             /\ request'[r].job \in {"present", "rotate"} =>
                    /\ request'[r].token <= issued'
                    /\ tokens'[request'[r].token].user = request'[r].user
  <2>1. CASE request'[r] = Idle
    BY <2>1 DEF Idle
  <2>2. CASE request'[r] = request[r]
    <3>1. /\ request[r] # Idle => request[r].user \in Users
          /\ request[r].job \in {"present", "rotate"} => request[r].token \in TokenIds
      BY RequestShapes DEF Typing
    <3> QED BY <1>1, <2>2, <3>1 DEF Typing, RowsExist
  <2> QED BY <2>1, <2>2
<1>6. RowsExist'
  BY <1>1, <1>3, <1>4, <1>5 DEF RowsExist
<1> QED BY <1>2, <1>6 DEF Typing

(* A request stores a token and delivers it, or not, and ends.             *)
LEMMA TypingWithStore ==
    ASSUME Typing, NEW r \in Requests, NEW u \in Users, NEW role \in Roles,
           NEW family \in 0..MaxTokens, NEW forked \in BOOLEAN, NEW heard \in BOOLEAN,
           NEW S \in SUBSET (1..issued), NEW before, before \in {tokens, Revoked(tokens, S)},
           family # 0 => family <= issued /\ tokens[family].user = u,
           users[u] # None,
           Store(u, family, forked, before), Deliver(u, role, heard), Done(r),
           users' \in [Users -> User \cup {None}],
           \A v \in Users : users[v] # None => users'[v] # None,
           excused' \subseteq Users,
           UNCHANGED <<changes, raced, revived, promoted>>
    PROVE  Typing'
<1>1. /\ issued \in 0..MaxTokens /\ MaxTokens \in Nat /\ TokenIds = 1..MaxTokens
      /\ tokens \in [TokenIds -> Token \cup {None}]
  BY AccountsAssumption DEF Typing, TypeOK, TokenIds
<1>2. /\ before \in [TokenIds -> Token \cup {None}]
      /\ \A t \in TokenIds :
             /\ before[t] # None <=> t <= issued
             /\ t <= issued => /\ before[t].user = tokens[t].user
                               /\ before[t].family = tokens[t].family
  <2>1. CASE before = tokens
    BY <2>1, <1>1 DEF Typing, RowsExist
  <2>2. CASE before = Revoked(tokens, S)
    BY <2>2, RevokedTokens
  <2> QED BY <2>1, <2>2
<1> DEFINE n == issued + 1
<1>3. /\ issued' = n /\ n \in TokenIds
      /\ tokens' \in [TokenIds -> Token \cup {None}]
      /\ tokens'[n] # None
      /\ tokens'[n].user = u
      /\ tokens'[n].family = IF family = 0 THEN n ELSE family
      /\ \A t \in TokenIds : t # n => tokens'[t] = before[t]
  <2>1. /\ issued' = n /\ n \in TokenIds
        /\ tokens' \in [TokenIds -> Token \cup {None}]
        /\ tokens'[n] =
               [user |-> u, family |-> IF family = 0 THEN n ELSE family,
                revoked |-> FALSE, crossed |-> Leaving(u), forked |-> forked]
        /\ tokens'[n] # None
        /\ \A t \in TokenIds : t # n => tokens'[t] = before[t]
    <3>1. issued' = n
      BY DEF Store
    <3> QED BY ONLY <3>1, <1>2, StoredToken, Typing, Store(u, family, forked, before)
  <2> QED BY ONLY <2>1
<1> HIDE DEF n
<1>n. n = issued + 1
  BY DEF n
<1>4. \A t \in TokenIds : (t <= n <=> t = n \/ t <= issued) /\ (t <= issued => t # n)
  BY <1>1, <1>n
<1>5. /\ access' \in [Users -> Roles \cup {None}]
      /\ jar' \in [Users -> 0..MaxTokens]
      /\ \A v \in Users : v # u => access'[v] = access[v] /\ jar'[v] = jar[v]
      /\ jar'[u] \in {n, jar[u]}
  <2>1. access \in [Users -> Roles \cup {None}] /\ jar \in [Users -> 0..MaxTokens]
    BY DEF Typing, TypeOK
  <2>2. n \in 0..MaxTokens
    BY <1>1, <1>3
  <2>3. CASE heard
    <3>1. access' = [access EXCEPT ![u] = role] /\ jar' = [jar EXCEPT ![u] = n]
      BY <2>3, <1>n DEF Deliver
    <3> QED BY ONLY <2>1, <2>2, <3>1, u \in Users, role \in Roles
  <2>4. CASE ~heard
    <3>1. access' = access /\ jar' = jar
      BY <2>4 DEF Deliver, clientVars
    <3> QED BY ONLY <2>1, <3>1, u \in Users
  <2> QED BY <2>3, <2>4
<1>6. /\ request' \in [Requests -> {Idle} \cup Request]
      /\ \A o \in Requests : request'[o] \in {Idle, request[o]}
  BY Started DEF Done, Typing
<1>7. TypeOK'
  <2>1. issued' \in 0..MaxTokens
    BY <1>1, <1>3
  <2> QED BY <1>3, <1>5, <1>6, <2>1 DEF Typing, TypeOK
<1>8. \A t \in TokenIds : tokens'[t] # None <=> t <= issued'
  BY <1>2, <1>3, <1>4
<1>9. ASSUME NEW t \in TokenIds, t <= issued
      PROVE  /\ tokens'[t].user = tokens[t].user
             /\ tokens'[t].family = tokens[t].family
             /\ tokens[t].user \in Users
  <2>1. tokens[t] \in Token
    BY <1>9 DEF Typing, TypeOK, RowsExist
  <2> QED BY <1>9, <1>2, <1>3, <1>4, <2>1 DEF Token
<1>10. ASSUME NEW t \in TokenIds, t <= issued'
       PROVE  /\ users'[tokens'[t].user] # None
              /\ tokens'[t].family <= t
              /\ tokens'[tokens'[t].family].user = tokens'[t].user
  <2>1. CASE t <= issued
    <3>1. tokens[t].family \in TokenIds /\ tokens[t].family <= issued
      <4>1. tokens[t] \in Token /\ tokens[t].family <= t
        BY <2>1 DEF Typing, TypeOK, RowsExist
      <4> QED BY <1>1, <2>1, <4>1 DEF Token
    <3> QED BY <2>1, <1>9, <3>1 DEF Typing, RowsExist
  <2>2. CASE t = n
    <3>1. CASE family = 0
      BY <3>1, <2>2, <1>3, <1>n, <1>1
    <3>2. CASE family # 0
      <4>1. family \in TokenIds /\ family <= issued /\ tokens[family].user = u
        BY <3>2, <1>1
      <4>2. tokens'[family].user = u
        BY <4>1, <1>9
      <4> QED BY <3>2, <2>2, <1>3, <1>n, <1>1, <4>1, <4>2
    <3> QED BY <3>1, <3>2
  <2> QED BY <1>10, <1>3, <1>4, <2>1, <2>2
<1>11. ASSUME NEW v \in Users
       PROVE  /\ access'[v] # None => users'[v] # None
              /\ jar'[v] # 0 => jar'[v] <= issued' /\ tokens'[jar'[v]].user = v
  <2>1. jar[v] # 0 => jar[v] \in TokenIds /\ jar[v] <= issued /\ tokens[jar[v]].user = v
    BY <1>1 DEF Typing, TypeOK, RowsExist
  <2>2. jar[v] # 0 => jar[v] <= issued' /\ tokens'[jar[v]].user = v
    BY <2>1, <1>3, <1>4, <1>9
  <2>3. access'[v] # None => users'[v] # None
    BY <1>5 DEF Typing, RowsExist
  <2>4. n <= issued'
    BY <1>1, <1>3, <1>n
  <2>5. CASE v = u
    BY <2>5, <2>2, <2>3, <2>4, <1>3, <1>5
  <2>6. CASE v # u
    BY <2>6, <2>2, <2>3, <1>5
  <2> QED BY <2>5, <2>6
<1>12. ASSUME NEW o \in Requests
       PROVE  /\ request'[o] # Idle => users'[request'[o].user] # None
              /\ request'[o].job \in {"present", "rotate"} =>
                     /\ request'[o].token <= issued'
                     /\ tokens'[request'[o].token].user = request'[o].user
  <2>1. CASE request'[o] = Idle
    BY <2>1 DEF Idle
  <2>2. CASE request'[o] = request[o]
    <3>1. /\ request[o] # Idle => request[o].user \in Users
          /\ request[o].job \in {"present", "rotate"} =>
                 request[o].token \in TokenIds /\ request[o].token <= issued
      BY RequestShapes DEF Typing, RowsExist
    <3>2. request[o].job \in {"present", "rotate"} =>
              /\ request[o].token <= issued'
              /\ tokens'[request[o].token].user = tokens[request[o].token].user
      BY <3>1, <1>9, <1>3, <1>4
    <3> QED BY <2>2, <3>1, <3>2 DEF Typing, RowsExist
  <2> QED BY <2>1, <2>2, <1>6
<1>13. RowsExist'
  BY <1>8, <1>10, <1>11, <1>12 DEF RowsExist
<1> QED BY <1>7, <1>13 DEF Typing

LEMMA TypingHolds ==
    ASSUME Typing, [Next]_vars
    PROVE  Typing'
<1> USE DEF Typing
<1>t. /\ users \in [Users -> User \cup {None}]
      /\ \A u \in Users : users[u] # None => users[u] \in User
      /\ access \in [Users -> Roles \cup {None}] /\ jar \in [Users -> 0..MaxTokens]
      /\ request \in [Requests -> {Idle} \cup Request]
      /\ issued \in 0..MaxTokens /\ changes \in 0..MaxChanges
      /\ raced \in BOOLEAN /\ revived \subseteq Users /\ promoted \subseteq Users
      /\ excused \subseteq Users
  BY DEF TypeOK
<1>a. Administer => changes' \in 0..MaxChanges
  BY <1>t, AccountsAssumption DEF Administer
<1>d. ASSUME NEW r \in Requests, Done(r)
      PROVE  /\ request' \in [Requests -> {Idle} \cup Request]
             /\ \A o \in Requests : request'[o] \in {Idle, request[o]}
  BY <1>d, Started DEF Done
<1>b. ASSUME NEW r \in Requests, NEW what \in Request, what.user \in Users,
             users[what.user] # None,
             what.job \in {"present", "rotate"} =>
                 what.token <= issued /\ tokens[what.token].user = what.user,
             request' = [request EXCEPT ![r] = what]
      PROVE  /\ request' \in [Requests -> {Idle} \cup Request]
             /\ \A o \in Requests :
                   \/ request'[o] \in {Idle, request[o]}
                   \/ /\ users[request'[o].user] # None
                      /\ request'[o].user \in Users
                      /\ request'[o].job \in {"present", "rotate"} =>
                             /\ request'[o].token <= issued
                             /\ tokens[request'[o].token].user = request'[o].user
  <2>1. /\ request' \in [Requests -> {Idle} \cup Request]
        /\ request'[r] = what
        /\ \A o \in Requests \ {r} : request'[o] = request[o]
    BY <1>b, Started
  <2>2. ASSUME NEW o \in Requests
        PROVE  \/ request'[o] \in {Idle, request[o]}
               \/ /\ users[request'[o].user] # None
                  /\ request'[o].user \in Users
                  /\ request'[o].job \in {"present", "rotate"} =>
                         /\ request'[o].token <= issued
                         /\ tokens[request'[o].token].user = request'[o].user
    <3>1. CASE o = r
      BY <3>1, <2>1, <1>b
    <3>2. CASE o # r
      BY <3>2, <2>1
    <3> QED BY <3>1, <3>2
  <2> QED BY <2>1, <2>2
<1>u. ASSUME NEW u \in Users, NEW row \in User, users' = [users EXCEPT ![u] = row]
      PROVE  /\ users' \in [Users -> User \cup {None}]
             /\ \A v \in Users : users[v] # None => users'[v] # None
  BY <1>u, UserWritten
<1>1. ASSUME NEW u \in Users, NEW role \in Roles, Invite(u, role) PROVE Typing'
  <2>1. NewUser(role) \in User
    BY DEF NewUser, User, Statuses
  <2>2. users' = [users EXCEPT ![u] = NewUser(role)]
    BY <1>1 DEF Invite
  <2>3. /\ users' \in [Users -> User \cup {None}]
        /\ \A v \in Users : users[v] # None => users'[v] # None
    BY <1>u, <2>1, <2>2
  <2> QED
    BY <1>1, <1>t, <1>a, <2>3, TypingWithoutTokens DEF Invite, tokenVars, clientVars, historyVars
<1>2. ASSUME NEW r \in Requests, NEW u \in Users, BeginAccept(r, u) PROVE Typing'
  <2> DEFINE what == [job |-> "accept", user |-> u, role |-> users[u].role]
  <2>1. what \in Request /\ what.user = u /\ what.job = "accept" /\ users[u] # None
    BY <1>2, <1>t DEF BeginAccept, Exists, User, Request
  <2>2. request' = [request EXCEPT ![r] = what]
    BY <1>2 DEF BeginAccept, Start
  <2> HIDE DEF what
  <2>3. UNCHANGED <<changes, users, tokenVars, clientVars, historyVars>>
    BY <1>2 DEF BeginAccept
  <2> QED
    BY <1>t, <1>b, <2>1, <2>2, <2>3, TypingWithoutTokens DEF clientVars, historyVars
<1>3. ASSUME NEW r \in Requests, NEW heard \in BOOLEAN, CommitAccept(r, heard) PROVE Typing'
  <2>1. /\ request[r].user \in Users /\ request[r].role \in Roles
        /\ users[request[r].user] # None
    BY <1>3, RequestShapes DEF CommitAccept, RowsExist, Idle
  <2> DEFINE u == request[r].user
             row == Accepted(users[u], request[r].role)
  <2>2. row \in User
    BY <2>1, <1>t DEF Accepted, User, Statuses
  <2>3. users' = [users EXCEPT ![u] = row]
    BY <1>3 DEF CommitAccept
  <2>4. /\ users' \in [Users -> User \cup {None}]
        /\ \A v \in Users : users[v] # None => users'[v] # None
    <3> HIDE DEF row
    <3> QED BY <1>u, <2>1, <2>2, <2>3
  <2>5. /\ Store(u, 0, FALSE, tokens) /\ Deliver(u, request[r].role, heard) /\ Done(r)
        /\ excused' \subseteq Users /\ UNCHANGED <<changes, raced, revived, promoted>>
    BY <1>3, <1>t DEF CommitAccept
  <2> QED
    <3> HIDE DEF u, row
    <3>1. u \in Users /\ users[u] # None
      BY <2>1 DEF u
    <3>2. 0 \in 0..MaxTokens /\ {} \in SUBSET (1..issued)
      BY AccountsAssumption
    <3> QED BY <2>1, <2>4, <2>5, <3>1, <3>2, TypingWithStore
<1>4. ASSUME NEW r \in Requests, NEW u \in Users, BeginLogin(r, u) PROVE Typing'
  <2> DEFINE what == [job |-> "login", user |-> u, role |-> users[u].role]
  <2>1. what \in Request /\ what.user = u /\ what.job = "login" /\ users[u] # None
    BY <1>4, <1>t DEF BeginLogin, MayLogIn, Exists, User, Request
  <2>2. request' = [request EXCEPT ![r] = what]
    BY <1>4 DEF BeginLogin, Start
  <2> HIDE DEF what
  <2>3. UNCHANGED <<changes, users, tokenVars, clientVars, historyVars>>
    BY <1>4 DEF BeginLogin
  <2> QED
    BY <1>t, <1>b, <2>1, <2>2, <2>3, TypingWithoutTokens DEF clientVars, historyVars
<1>5. ASSUME NEW r \in Requests, NEW heard \in BOOLEAN, CommitLogin(r, heard) PROVE Typing'
  <2>1. /\ request[r].user \in Users /\ request[r].role \in Roles
        /\ users[request[r].user] # None
    BY <1>5, RequestShapes DEF CommitLogin, RowsExist, Idle
  <2> DEFINE u == request[r].user
  <2>2. /\ Store(u, 0, FALSE, tokens) /\ Deliver(u, request[r].role, heard) /\ Done(r)
        /\ excused' \subseteq Users /\ users' = users
        /\ UNCHANGED <<changes, raced, revived, promoted>>
    BY <1>5, <1>t DEF CommitLogin
  <2> QED
    <3>1. u \in Users /\ users[u] # None
      BY <2>1
    <3> HIDE DEF u
    <3>2. 0 \in 0..MaxTokens /\ {} \in SUBSET (1..issued)
      BY AccountsAssumption
    <3> QED BY <1>t, <2>1, <2>2, <3>1, <3>2, TypingWithStore
<1>6. ASSUME NEW u \in Users, ConfirmMfa(u) PROVE Typing'
  <2> DEFINE row == [users[u] EXCEPT !.enrolled = TRUE]
  <2>1. users[u] # None
    BY <1>6 DEF ConfirmMfa, RowsExist
  <2>2. row \in User
    BY <2>1, <1>t DEF User
  <2>3. users' = [users EXCEPT ![u] = row]
    BY <1>6 DEF ConfirmMfa
  <2> HIDE DEF row
  <2>4. /\ users' \in [Users -> User \cup {None}]
        /\ \A v \in Users : users[v] # None => users'[v] # None
    BY <1>u, <2>2, <2>3
  <2> QED
    BY <1>6, <1>t, <2>4, TypingWithoutTokens DEF ConfirmMfa, tokenVars, clientVars, historyVars
<1>7. ASSUME NEW r \in Requests, NEW u \in Users, SendRefresh(r, u) PROVE Typing'
  <2> DEFINE what == [job |-> "present", user |-> u, token |-> jar[u]]
  <2>1. jar[u] \in TokenIds /\ jar[u] <= issued /\ tokens[jar[u]].user = u
    BY <1>7, <1>t DEF SendRefresh, RowsExist, TokenIds
  <2>2. /\ what \in Request /\ what.user = u /\ what.token = jar[u] /\ users[u] # None
    BY <2>1 DEF RowsExist, Request
  <2>3. request' = [request EXCEPT ![r] = what]
    BY <1>7 DEF SendRefresh, Start
  <2> HIDE DEF what
  <2>4. /\ UNCHANGED <<changes, users, tokenVars, clientVars, raced, revived, promoted>>
        /\ excused' \subseteq Users
    BY <1>7, <1>t DEF SendRefresh
  <2> QED
    BY <1>t, <1>b, <2>1, <2>2, <2>3, <2>4, TypingWithoutTokens DEF clientVars
<1>8. ASSUME NEW r \in Requests, RefuseReuse(r) PROVE Typing'
  <2>1. FamilyOf(request[r].token) \in SUBSET (1..issued)
    BY DEF FamilyOf
  <2>2. /\ tokens' = Revoked(tokens, FamilyOf(request[r].token)) /\ Done(r)
        /\ UNCHANGED <<changes, users, issued, clientVars, historyVars>>
    BY <1>8 DEF RefuseReuse
  <2> QED
    BY <1>t, <1>d, <2>1, <2>2, TypingWithRevocation DEF clientVars, historyVars
<1>9. ASSUME NEW r \in Requests, RefuseRefresh(r) \/ Abort(r) PROVE Typing'
  <2>1. Done(r) /\ UNCHANGED <<changes, users, tokenVars, clientVars, historyVars>>
    BY <1>9 DEF RefuseRefresh, Abort
  <2> QED
    BY <1>t, <1>d, <2>1, TypingWithoutTokens DEF clientVars, historyVars
<1>10. ASSUME NEW r \in Requests, BeginRotate(r) PROVE Typing'
  <2>1. /\ request[r].user \in Users /\ request[r].token \in TokenIds
        /\ users[request[r].user] # None
        /\ request[r].token <= issued /\ tokens[request[r].token].user = request[r].user
    BY <1>10, RequestShapes DEF BeginRotate, RowsExist, Idle
  <2> DEFINE what == [job |-> "rotate", user |-> request[r].user, token |-> request[r].token,
                      role |-> users[request[r].user].role]
  <2>2. /\ what \in Request /\ what.user = request[r].user /\ what.token = request[r].token
    BY <2>1, <1>t DEF User, Request
  <2>3. request' = [request EXCEPT ![r] = what]
    BY <1>10 DEF BeginRotate
  <2> HIDE DEF what
  <2>4. UNCHANGED <<changes, users, tokenVars, clientVars, historyVars>>
    BY <1>10 DEF BeginRotate
  <2> QED
    BY <1>t, <1>b, <2>1, <2>2, <2>3, <2>4, TypingWithoutTokens DEF clientVars, historyVars
<1>11. ASSUME NEW r \in Requests, NEW heard \in BOOLEAN, CommitRotate(r, heard) PROVE Typing'
  <2> DEFINE u == request[r].user
             t == request[r].token
  <2>1. /\ u \in Users /\ t \in TokenIds /\ request[r].role \in Roles
        /\ users[u] # None /\ t <= issued /\ tokens[t].user = u
    BY <1>11, RequestShapes DEF CommitRotate, RowsExist, Idle
  <2>2. /\ Store(u, tokens[t].family, tokens[t].revoked, Revoked(tokens, {t}))
        /\ Deliver(u, request[r].role, heard) /\ Done(r)
        /\ UNCHANGED <<changes, users, raced, revived, promoted>>
    BY <1>11 DEF CommitRotate
  <2>3. excused' \subseteq Users
    BY <1>11, <2>1, <1>t DEF CommitRotate
  <2> HIDE DEF u, t
  <2>4. tokens[t] \in Token
    BY <2>1 DEF TypeOK, RowsExist
  <2>5. /\ tokens[t].family \in 0..MaxTokens /\ tokens[t].revoked \in BOOLEAN
        /\ {t} \in SUBSET (1..issued)
        /\ tokens[t].family <= issued /\ tokens[tokens[t].family].user = u
    <3>1. tokens[t].family \in 1..MaxTokens /\ tokens[t].revoked \in BOOLEAN /\ t \in 1..MaxTokens
      BY <2>1, <2>4 DEF Token, TokenIds
    <3>2. tokens[t].family <= t /\ tokens[tokens[t].family].user = u
      BY <2>1 DEF RowsExist
    <3> QED BY <2>1, <3>1, <3>2, <1>t, AccountsAssumption
  <2> QED BY <1>t, <2>1, <2>2, <2>3, <2>5, TypingWithStore
<1>12. ASSUME NEW u \in Users, Logout(u) PROVE Typing'
  <2>1. /\ issued' = issued /\ access' = access
        /\ UNCHANGED <<changes, users, request, historyVars>>
    BY <1>12 DEF Logout
  <2>2. jar' \in [Users -> 0..MaxTokens] /\ \A v \in Users : jar'[v] \in {0, jar[v]}
    BY <1>12, <1>t, AccountsAssumption DEF Logout
  <2>3. CASE tokens' = tokens
    BY <1>t, <2>1, <2>2, <2>3, TypingWithoutTokens DEF tokenVars, historyVars
  <2>4. CASE tokens' = Revoked(tokens, FamilyOf(jar[u]))
    <3>1. FamilyOf(jar[u]) \in SUBSET (1..issued)
      BY DEF FamilyOf
    <3> QED BY <1>t, <2>1, <2>2, <2>4, <3>1, TypingWithRevocation DEF historyVars
  <2> QED BY <1>12, <2>3, <2>4 DEF Logout
<1>13. ASSUME NEW r \in Requests, NEW u \in Users, NEW to \in Roles, BeginRole(r, u, to)
       PROVE  Typing'
  <2> DEFINE what == [job |-> "role", user |-> u, role |-> users[u].role, to |-> to]
  <2>1. what \in Request /\ what.user = u /\ what.job = "role" /\ users[u] # None
    BY <1>13, <1>t DEF BeginRole, Exists, User, Request
  <2>2. request' = [request EXCEPT ![r] = what]
    BY <1>13 DEF BeginRole, Start
  <2> HIDE DEF what
  <2>3. /\ UNCHANGED <<users, tokenVars, clientVars, revived, promoted, excused>>
        /\ raced' \in BOOLEAN /\ changes' \in 0..MaxChanges
    BY <1>13, <1>a, <1>t DEF BeginRole, RemovalInFlight
  <2> QED
    BY <1>t, <1>b, <2>1, <2>2, <2>3, TypingWithoutTokens DEF clientVars
<1>14. ASSUME NEW r \in Requests, CommitRole(r) PROVE Typing'
  <2> DEFINE u == request[r].user
             row == [users[u] EXCEPT !.role = request[r].to]
  <2>1. u \in Users /\ request[r].to \in Roles /\ users[u] # None
    BY <1>14, RequestShapes DEF CommitRole, RowsExist, Idle
  <2>2. row \in User
    BY <2>1, <1>t DEF User
  <2>3. users' = users \/ users' = [users EXCEPT ![u] = row]
    BY <1>14 DEF CommitRole
  <2>4. Done(r) /\ UNCHANGED <<changes, tokenVars, clientVars, raced, revived, excused>>
    BY <1>14 DEF CommitRole
  <2>5. promoted' \subseteq Users
    BY <1>14, <2>1, <1>t DEF CommitRole
  <2> HIDE DEF u, row
  <2>6. /\ users' \in [Users -> User \cup {None}]
        /\ \A v \in Users : users[v] # None => users'[v] # None
    BY <1>u, <1>t, <2>1, <2>2, <2>3
  <2> QED
    BY <1>t, <1>d, <2>4, <2>5, <2>6, TypingWithoutTokens DEF clientVars
<1>15. ASSUME NEW r \in Requests, NEW u \in Users, BeginDeactivate(r, u) PROVE Typing'
  <2> DEFINE what == [job |-> "deactivate", user |-> u, status |-> users[u].status,
                      issued |-> issued]
  <2>1. what \in Request /\ what.user = u /\ what.job = "deactivate" /\ users[u] # None
    BY <1>15, <1>t DEF BeginDeactivate, Exists, User, Request
  <2>2. request' = [request EXCEPT ![r] = what]
    BY <1>15 DEF BeginDeactivate, Start
  <2> HIDE DEF what
  <2>3. /\ UNCHANGED <<users, tokenVars, clientVars, revived, promoted, excused>>
        /\ raced' \in BOOLEAN /\ changes' \in 0..MaxChanges
    BY <1>15, <1>a, <1>t DEF BeginDeactivate, RemovalInFlight
  <2> QED
    BY <1>t, <1>b, <2>1, <2>2, <2>3, TypingWithoutTokens DEF clientVars
<1>16. ASSUME NEW r \in Requests, NEW upto \in 0..MaxTokens, CommitDeactivate(r, upto)
       PROVE  Typing'
  <2> DEFINE u == request[r].user
             row == [users[u] EXCEPT !.status = "DEACTIVATED"]
             S == TokensOf(u) \cap 1..upto
  <2>1. u \in Users /\ users[u] # None
    BY <1>16, RequestShapes DEF CommitDeactivate, RowsExist, Idle
  <2>2. row \in User
    BY <2>1, <1>t DEF User, Statuses
  <2>3. users' = users \/ users' = [users EXCEPT ![u] = row]
    BY <1>16 DEF CommitDeactivate
  <2>4. /\ Done(r) /\ UNCHANGED <<changes, issued, clientVars, raced, revived, promoted>>
        /\ tokens' = Revoked(tokens, S)
    BY <1>16 DEF CommitDeactivate
  <2>5. excused' \subseteq Users
    BY <1>16, <2>1, <1>t DEF CommitDeactivate
  <2>6. S \in SUBSET (1..issued)
    BY DEF TokensOf
  <2> HIDE DEF u, row, S
  <2>7. /\ users' \in [Users -> User \cup {None}]
        /\ \A v \in Users : users[v] # None => users'[v] # None
    BY <1>u, <1>t, <2>1, <2>2, <2>3
  <2> QED
    BY <1>t, <1>d, <2>4, <2>5, <2>6, <2>7, TypingWithRevocation DEF clientVars
<1>17. ASSUME NEW u \in Users, Reactivate(u) PROVE Typing'
  <2> DEFINE row == [users[u] EXCEPT !.status = "ACTIVE"]
  <2>1. row \in User
    BY <1>17, <1>t DEF Reactivate, Exists, User, Statuses
  <2>2. users' = [users EXCEPT ![u] = row]
    BY <1>17 DEF Reactivate
  <2> HIDE DEF row
  <2>3. /\ users' \in [Users -> User \cup {None}]
        /\ \A v \in Users : users[v] # None => users'[v] # None
    BY <1>u, <2>1, <2>2
  <2>4. /\ UNCHANGED <<tokenVars, clientVars, request, raced, promoted, excused>>
        /\ changes' \in 0..MaxChanges /\ revived' \subseteq Users
    BY <1>17, <1>a, <1>t DEF Reactivate
  <2> QED
    BY <1>t, <2>3, <2>4, TypingWithoutTokens DEF clientVars
<1>18. CASE UNCHANGED vars
  BY <1>18, <1>t, TypingWithoutTokens DEF vars, tokenVars, clientVars, historyVars
<1> QED
  BY <1>1, <1>2, <1>3, <1>4, <1>5, <1>6, <1>7, <1>8, <1>9, <1>10, <1>11, <1>12, <1>13,
     <1>14, <1>15, <1>16, <1>17, <1>18
     DEF Next

LEMMA FirstTyping == Init => Typing
<1> SUFFICES ASSUME Init PROVE Typing
  OBVIOUS
<1>1. \A u \in Founders : [status |-> "ACTIVE", role |-> "OWNER", password |-> TRUE,
                          secret |-> TRUE, enrolled |-> TRUE] \in User
  BY AccountsAssumption DEF User, Statuses
<1>2. users \in [Users -> User \cup {None}]
  BY <1>1 DEF Init
<1>3. TypeOK
  <2>1. 0 \in 0..MaxTokens /\ 0 \in 0..MaxChanges
    BY AccountsAssumption
  <2>2. /\ tokens \in [TokenIds -> Token \cup {None}]
        /\ access \in [Users -> Roles \cup {None}]
        /\ jar \in [Users -> 0..MaxTokens]
        /\ request \in [Requests -> {Idle} \cup Request]
    BY <2>1 DEF Init
  <2> QED BY <1>2, <2>1, <2>2 DEF Init, TypeOK
<1>4. \A t \in TokenIds : ~(t <= 0)
  BY AccountsAssumption DEF TokenIds
<1>5. RowsExist
  BY <1>4 DEF Init, RowsExist, Idle
<1> QED BY <1>3, <1>5 DEF Typing

(* Every row, request and token has its shape (Accounts).                  *)
THEOREM TypesHold == Spec => []TypeOK
<1>1. Typing /\ [Next]_vars => Typing'
  BY TypingHolds
<1>2. Typing => TypeOK
  BY DEF Typing
<1> QED BY FirstTyping, <1>1, <1>2, PTL DEF Spec

-----------------------------------------------------------------------------
(* Who a user is.                                                          *)

(* The steps that write no user's row, and forget nothing about users.     *)
LEMMA UsersStay ==
    ASSUME [Next]_vars,
           \A u \in Users : /\ \A role \in Roles : ~Invite(u, role)
                            /\ ~ConfirmMfa(u) /\ ~Reactivate(u),
           \A r \in Requests :
               /\ \A heard \in BOOLEAN : ~CommitAccept(r, heard)
               /\ ~CommitRole(r)
               /\ \A upto \in 0..MaxTokens : ~CommitDeactivate(r, upto)
    PROVE  UNCHANGED <<users, revived, promoted>>
BY DEF Next, vars, historyVars, BeginAccept, BeginLogin, CommitLogin, SendRefresh, RefuseReuse,
       RefuseRefresh, BeginRotate, CommitRotate, Logout, BeginRole, BeginDeactivate, Abort

LEMMA ActiveUsersAcceptedStays ==
    ASSUME Typing, ActiveUsersAccepted, [Next]_vars
    PROVE  ActiveUsersAccepted'
<1>t. /\ users \in [Users -> User \cup {None}]
      /\ \A u \in Users : users[u] # None => users[u] \in User
  BY DEF Typing, TypeOK
<1>1. ASSUME NEW u \in Users, NEW role \in Roles, Invite(u, role)
      PROVE  ActiveUsersAccepted'
  BY <1>1, <1>t DEF Invite, NewUser, ActiveUsersAccepted, Exists, historyVars
<1>2. ASSUME NEW r \in Requests, NEW heard \in BOOLEAN, CommitAccept(r, heard)
      PROVE  ActiveUsersAccepted'
  <2>1. request[r].user \in Users /\ users[request[r].user] # None
    BY <1>2, RequestShapes DEF CommitAccept, Typing, RowsExist, Idle
  <2> QED BY <1>2, <1>t, <2>1 DEF CommitAccept, Accepted, ActiveUsersAccepted, Exists, User
<1>3. ASSUME NEW u \in Users, ConfirmMfa(u)
      PROVE  ActiveUsersAccepted'
  <2>1. users[u] # None
    BY <1>3 DEF ConfirmMfa, Typing, RowsExist
  <2> QED BY <1>3, <1>t, <2>1 DEF ConfirmMfa, ActiveUsersAccepted, Exists, User, historyVars
<1>4. ASSUME NEW r \in Requests, CommitRole(r)
      PROVE  ActiveUsersAccepted'
  <2>1. request[r].user \in Users /\ users[request[r].user] # None
    BY <1>4, RequestShapes DEF CommitRole, Typing, RowsExist, Idle
  <2> QED BY <1>4, <1>t, <2>1 DEF CommitRole, ActiveUsersAccepted, Exists, User
<1>5. ASSUME NEW r \in Requests, NEW upto \in 0..MaxTokens, CommitDeactivate(r, upto)
      PROVE  ActiveUsersAccepted'
  <2>1. request[r].user \in Users /\ users[request[r].user] # None
    BY <1>5, RequestShapes DEF CommitDeactivate, Typing, RowsExist, Idle
  <2> QED BY <1>5, <1>t, <2>1 DEF CommitDeactivate, ActiveUsersAccepted, Exists, User
<1>6. ASSUME NEW u \in Users, Reactivate(u)
      PROVE  ActiveUsersAccepted'
  BY <1>6, <1>t DEF Reactivate, ActiveUsersAccepted, Exists, User
<1>7. CASE UNCHANGED <<users, revived, promoted>>
  BY <1>7 DEF ActiveUsersAccepted, Exists
<1> QED BY <1>1, <1>2, <1>3, <1>4, <1>5, <1>6, <1>7, UsersStay

(* An active user has accepted an invitation, unless revived before doing  *)
(* so, for every set of users, roles and requests (accept_invite,          *)
(* deactivate, reactivate).                                                *)
THEOREM ActiveHaveAccepted == Spec => []ActiveUsersAccepted
<1>1. Init => ActiveUsersAccepted
  BY DEF Init, ActiveUsersAccepted, Exists
<1>2. Typing /\ ActiveUsersAccepted /\ [Next]_vars => Typing' /\ ActiveUsersAccepted'
  BY TypingHolds, ActiveUsersAcceptedStays
<1> QED BY FirstTyping, <1>1, <1>2, PTL DEF Spec

(* An acceptance under way knows the role, unless that was given later.    *)
AcceptsKnowTheRole ==
    \A r \in Requests :
        (/\ request[r].job = "accept"
         /\ users[request[r].user].role \in Privileged
         /\ request[r].user \notin promoted)
        => request[r].role \in Privileged

(* A role is privileged from the invitation on, or was promoted to.        *)
Enrolling == EnrolmentIsPossible /\ AcceptsKnowTheRole

(* Requests that begin, end or go on: none of them is a new acceptance.    *)
LEMMA AcceptsBegin ==
    ASSUME Typing, [Next]_vars, NEW o \in Requests, request'[o].job = "accept"
    PROVE  \/ request'[o] = request[o]
           \/ /\ UNCHANGED <<users, promoted>>
              /\ request'[o].user \in Users
              /\ request'[o].role = users[request'[o].user].role
<1>t. request \in [Requests -> {Idle} \cup Request]
  BY DEF Typing, TypeOK
<1>1. ASSUME NEW r \in Requests, Done(r)
      PROVE  request'[o] = request[o]
  BY <1>1, <1>t DEF Done, Idle
<1>3. ASSUME NEW r \in Requests, NEW u \in Users, BeginAccept(r, u)
      PROVE  \/ request'[o] = request[o]
             \/ /\ UNCHANGED <<users, promoted>>
                /\ request'[o].user \in Users
                /\ request'[o].role = users[request'[o].user].role
  BY <1>3, <1>t DEF BeginAccept, Start, historyVars
<1>4. ASSUME NEW r \in Requests, NEW u \in Users, BeginLogin(r, u)
      PROVE  request'[o] = request[o]
  BY <1>4, <1>t DEF BeginLogin, Start
<1>5. ASSUME NEW r \in Requests, NEW u \in Users, SendRefresh(r, u)
      PROVE  request'[o] = request[o]
  BY <1>5, <1>t DEF SendRefresh, Start
<1>6. ASSUME NEW r \in Requests, BeginRotate(r)
      PROVE  request'[o] = request[o]
  BY <1>6, <1>t DEF BeginRotate
<1>7. ASSUME NEW r \in Requests, NEW u \in Users, NEW to \in Roles, BeginRole(r, u, to)
      PROVE  request'[o] = request[o]
  BY <1>7, <1>t DEF BeginRole, Start
<1>8. ASSUME NEW r \in Requests, NEW u \in Users, BeginDeactivate(r, u)
      PROVE  request'[o] = request[o]
  BY <1>8, <1>t DEF BeginDeactivate, Start
<1>9. CASE UNCHANGED request
  BY <1>9
<1> QED
  BY <1>1, <1>3, <1>4, <1>5, <1>6, <1>7, <1>8, <1>9
     DEF Next, vars, Invite, CommitAccept, CommitLogin, ConfirmMfa, RefuseReuse, RefuseRefresh,
         CommitRotate, Logout, CommitRole, CommitDeactivate, Reactivate, Abort

LEMMA EnrollingStays ==
    ASSUME Typing, Enrolling, [Next]_vars
    PROVE  Enrolling'
<1>t. /\ users \in [Users -> User \cup {None}]
      /\ \A u \in Users : users[u] # None => users[u] \in User
  BY DEF Typing, TypeOK
<1>f. ASSUME NEW r \in Requests, request[r] # Idle
      PROVE  request[r].user \in Users /\ users[request[r].user] # None
  BY <1>f, RequestShapes DEF Typing, RowsExist
(* What a step leaves or makes privileged was so, or is promoted. *)
<1>r. ASSUME \A u \in Users :
               users[u] # None /\ users'[u].role \in Privileged /\ u \notin promoted'
               => users[u].role \in Privileged /\ u \notin promoted
      PROVE  AcceptsKnowTheRole'
  <2> SUFFICES ASSUME NEW o \in Requests, request'[o].job = "accept",
                      users'[request'[o].user].role \in Privileged,
                      request'[o].user \notin promoted'
               PROVE  request'[o].role \in Privileged
    BY DEF AcceptsKnowTheRole
  <2>1. CASE request'[o] = request[o]
    <3>1. request[o] # Idle
      BY <2>1 DEF Idle
    <3> QED BY <1>r, <1>f, <2>1, <3>1 DEF Enrolling, AcceptsKnowTheRole
  <2>2. CASE /\ UNCHANGED <<users, promoted>>
             /\ request'[o].user \in Users
             /\ request'[o].role = users[request'[o].user].role
    BY <2>2
  <2> QED BY <2>1, <2>2, AcceptsBegin
<1>1. ASSUME NEW u \in Users, NEW role \in Roles, Invite(u, role)
      PROVE  Enrolling'
  <2>1. EnrolmentIsPossible'
    BY <1>1, <1>t DEF Invite, NewUser, Enrolling, EnrolmentIsPossible, Exists, historyVars
  <2>2. \A v \in Users : users[v] # None => users'[v] = users[v]
    BY <1>1, <1>t DEF Invite, Exists
  <2>3. promoted' = promoted
    BY <1>1 DEF Invite, historyVars
  <2> QED BY <1>r, <2>1, <2>2, <2>3 DEF Enrolling
<1>2. ASSUME NEW r \in Requests, NEW heard \in BOOLEAN, CommitAccept(r, heard)
      PROVE  Enrolling'
  <2>1. request[r].user \in Users /\ users[request[r].user] # None
    BY <1>2, <1>f DEF CommitAccept, Idle
  <2>2. /\ users' = [users EXCEPT ![request[r].user] = Accepted(@, request[r].role)]
        /\ promoted' = promoted /\ request[r].job = "accept"
    BY <1>2 DEF CommitAccept
  <2>3. EnrolmentIsPossible'
    BY <1>t, <2>1, <2>2
       DEF Accepted, Enrolling, EnrolmentIsPossible, AcceptsKnowTheRole, Exists, User
  <2>4. \A v \in Users : users[v] # None => users'[v].role = users[v].role
    BY <1>t, <2>1, <2>2 DEF Accepted, User
  <2> QED BY <1>r, <2>2, <2>3, <2>4 DEF Enrolling
<1>3. ASSUME NEW u \in Users, ConfirmMfa(u) \/ Reactivate(u)
      PROVE  Enrolling'
  <2>1. users[u] # None
    BY <1>3 DEF ConfirmMfa, Reactivate, Exists, Typing, RowsExist
  <2>2. promoted' = promoted
    BY <1>3 DEF ConfirmMfa, Reactivate, historyVars
  <2>3. EnrolmentIsPossible'
    BY <1>3, <1>t, <2>1, <2>2
       DEF ConfirmMfa, Reactivate, Enrolling, EnrolmentIsPossible, Exists, User
  <2>4. \A v \in Users : users[v] # None => users'[v].role = users[v].role
    BY <1>3, <1>t, <2>1 DEF ConfirmMfa, Reactivate, User
  <2> QED BY <1>r, <2>2, <2>3, <2>4 DEF Enrolling
<1>4. ASSUME NEW r \in Requests, CommitRole(r)
      PROVE  Enrolling'
  <2>1. request[r].user \in Users /\ users[request[r].user] # None
    BY <1>4, <1>f DEF CommitRole, Idle
  <2>2. EnrolmentIsPossible'
    BY <1>4, <1>t, <2>1 DEF CommitRole, Enrolling, EnrolmentIsPossible, Exists, User
  <2>3. \A v \in Users :
           users[v] # None /\ users'[v].role \in Privileged /\ v \notin promoted'
           => users[v].role \in Privileged /\ v \notin promoted
    BY <1>4, <1>t, <2>1 DEF CommitRole, User
  <2> QED BY <1>r, <2>2, <2>3 DEF Enrolling
<1>5. ASSUME NEW r \in Requests, NEW upto \in 0..MaxTokens, CommitDeactivate(r, upto)
      PROVE  Enrolling'
  <2>1. request[r].user \in Users /\ users[request[r].user] # None
    BY <1>5, <1>f DEF CommitDeactivate, Idle
  <2>2. promoted' = promoted
    BY <1>5 DEF CommitDeactivate
  <2>3. EnrolmentIsPossible'
    BY <1>5, <1>t, <2>1 DEF CommitDeactivate, Enrolling, EnrolmentIsPossible, Exists, User
  <2>4. \A v \in Users : users[v] # None => users'[v].role = users[v].role
    BY <1>5, <1>t, <2>1 DEF CommitDeactivate, User
  <2> QED BY <1>r, <2>2, <2>3, <2>4 DEF Enrolling
<1>6. CASE UNCHANGED <<users, revived, promoted>>
  <2>1. EnrolmentIsPossible'
    BY <1>6 DEF Enrolling, EnrolmentIsPossible, Exists
  <2> QED BY <1>r, <1>6, <2>1 DEF Enrolling
<1> QED BY <1>1, <1>2, <1>3, <1>4, <1>5, <1>6, UsersStay

(* Who has a privileged role and a password has a secret to enrol with,    *)
(* unless promoted later, however acceptances and changes of roles overlap *)
(* (accept_invite, change_role).                                           *)
THEOREM EnrolmentHolds == Spec => []EnrolmentIsPossible
<1>1. Init => Enrolling
  BY DEF Init, Enrolling, EnrolmentIsPossible, AcceptsKnowTheRole, Exists, Idle
<1>2. Typing /\ Enrolling /\ [Next]_vars => Typing' /\ Enrolling'
  BY TypingHolds, EnrollingStays
<1>3. Enrolling => EnrolmentIsPossible
  BY DEF Enrolling
<1> QED BY FirstTyping, <1>1, <1>2, <1>3, PTL DEF Spec

-----------------------------------------------------------------------------
(* Owners.                                                                 *)

Removes(r) == request[r].job \in {"role", "deactivate"}

(* While removals have not overlapped there is at most one, what it read   *)
(* is still so, and it leaves an owner.                                    *)
RemovalsAreSafe ==
    \/ raced
    \/ \A r \in Requests :
          /\ \A o \in Requests : Removes(r) /\ Removes(o) => o = r
          /\ request[r].job = "role" =>
                /\ users[request[r].user].role = request[r].role
                /\ request[r].role = "OWNER" /\ request[r].to # "OWNER"
                       => RemainingOwners(request[r].user) # {}
          /\ request[r].job = "deactivate" /\ IsOwner(request[r].user)
                => RemainingOwners(request[r].user) # {}

Owning == OwnerRemains /\ RemovalsAreSafe

(* Only the two removals take a role or a user away.                       *)
LEMMA OwnersStay ==
    ASSUME Typing, [Next]_vars,
           \A r \in Requests : /\ ~CommitRole(r)
                               /\ \A upto \in 0..MaxTokens : ~CommitDeactivate(r, upto),
           NEW u \in Users
    PROVE  users[u] # None =>
               /\ users'[u] # None
               /\ users'[u].role = users[u].role
               /\ users[u].status # "DEACTIVATED" => users'[u].status # "DEACTIVATED"
<1> SUFFICES ASSUME users[u] # None
             PROVE  /\ users'[u] # None
                    /\ users'[u].role = users[u].role
                    /\ users[u].status # "DEACTIVATED" => users'[u].status # "DEACTIVATED"
  OBVIOUS
<1>t. users \in [Users -> User \cup {None}] /\ users[u] \in User
  BY DEF Typing, TypeOK
<1>w. ASSUME NEW v \in Users, NEW row \in User, users' = [users EXCEPT ![v] = row]
      PROVE  users'[u] # None
  BY <1>w, UserWritten DEF Typing
<1>1. ASSUME NEW v \in Users, NEW role \in Roles, Invite(v, role)
      PROVE  users'[u] = users[u]
  BY <1>1, <1>t DEF Invite, Exists
<1>2. ASSUME NEW r \in Requests, NEW heard \in BOOLEAN, CommitAccept(r, heard)
      PROVE  /\ users'[u] # None
             /\ users'[u].role = users[u].role
             /\ users[u].status # "DEACTIVATED" => users'[u].status # "DEACTIVATED"
  <2>1. /\ request[r].user \in Users /\ request[r].role \in Roles
        /\ users[request[r].user] # None
    BY <1>2, RequestShapes DEF CommitAccept, Typing, RowsExist, Idle
  <2>2. PICK v \in Users, role \in Roles :
            /\ users[v] \in User
            /\ users' = [users EXCEPT ![v] = Accepted(users[v], role)]
    BY <1>2, <2>1, <1>t DEF CommitAccept
  <2>3. Accepted(users[v], role) \in User
    BY <2>2 DEF Accepted, User, Statuses
  <2>4. users'[u] # None
    BY <1>w, <2>2, <2>3
  <2> QED BY <2>2, <2>4, <1>t DEF Accepted, User
<1>3. ASSUME NEW v \in Users, ConfirmMfa(v) \/ Reactivate(v)
      PROVE  /\ users'[u] # None
             /\ users'[u].role = users[u].role
             /\ users[u].status # "DEACTIVATED" => users'[u].status # "DEACTIVATED"
  <2>1. users[v] \in User
    BY <1>3, <1>t DEF ConfirmMfa, Reactivate, Exists, Typing, RowsExist
  <2>2. PICK row \in User :
            /\ users' = [users EXCEPT ![v] = row]
            /\ row.role = users[v].role /\ row.status \in {"ACTIVE", users[v].status}
    <3>1. /\ [users[v] EXCEPT !.enrolled = TRUE] \in User
          /\ [users[v] EXCEPT !.status = "ACTIVE"] \in User
      BY <2>1 DEF User, Statuses
    <3> QED BY <1>3, <2>1, <3>1 DEF ConfirmMfa, Reactivate, User
  <2>3. users'[u] # None
    BY <1>w, <2>2
  <2> QED BY <2>2, <2>3, <1>t
<1>4. CASE UNCHANGED <<users, revived, promoted>>
  BY <1>4
<1> QED BY <1>1, <1>2, <1>3, <1>4, UsersStay

(* A removal under way was so before, or begins now.                       *)
LEMMA RemovalsBegin ==
    ASSUME Typing, [Next]_vars, NEW o \in Requests, Removes(o)'
    PROVE  \/ request'[o] = request[o]
           \/ \E u \in Users :
                 \/ BeginDeactivate(o, u)
                 \/ \E to \in Roles : BeginRole(o, u, to)
<1>t. request \in [Requests -> {Idle} \cup Request]
  BY DEF Typing, TypeOK
<1> USE DEF Removes
<1>1. ASSUME NEW r \in Requests, Done(r)
      PROVE  request'[o] = request[o]
  BY <1>1, <1>t DEF Done, Idle
<1>3. ASSUME NEW r \in Requests, NEW u \in Users, BeginAccept(r, u)
      PROVE  request'[o] = request[o]
  BY <1>3, <1>t DEF BeginAccept, Start
<1>4. ASSUME NEW r \in Requests, NEW u \in Users, BeginLogin(r, u)
      PROVE  request'[o] = request[o]
  BY <1>4, <1>t DEF BeginLogin, Start
<1>5. ASSUME NEW r \in Requests, NEW u \in Users, SendRefresh(r, u)
      PROVE  request'[o] = request[o]
  BY <1>5, <1>t DEF SendRefresh, Start
<1>6. ASSUME NEW r \in Requests, BeginRotate(r)
      PROVE  request'[o] = request[o]
  BY <1>6, <1>t DEF BeginRotate
<1>7. ASSUME NEW r \in Requests, NEW u \in Users, NEW to \in Roles, BeginRole(r, u, to)
      PROVE  request'[o] = request[o] \/ r = o
  BY <1>7, <1>t DEF BeginRole, Start
<1>8. ASSUME NEW r \in Requests, NEW u \in Users, BeginDeactivate(r, u)
      PROVE  request'[o] = request[o] \/ r = o
  BY <1>8, <1>t DEF BeginDeactivate, Start
<1>9. CASE UNCHANGED request
  BY <1>9
<1> QED
  BY <1>1, <1>3, <1>4, <1>5, <1>6, <1>7, <1>8, <1>9
     DEF Next, vars, Invite, CommitAccept, CommitLogin, ConfirmMfa, RefuseReuse, RefuseRefresh,
         CommitRotate, Logout, CommitRole, CommitDeactivate, Reactivate, Abort

LEMMA OwningStays ==
    ASSUME Typing, Owning, [Next]_vars
    PROVE  Owning'
<1>t. /\ users \in [Users -> User \cup {None}]
      /\ \A u \in Users : users[u] # None => users[u] \in User
      /\ request \in [Requests -> {Idle} \cup Request]
  BY DEF Typing, TypeOK
<1>f. ASSUME NEW r \in Requests, request[r] # Idle
      PROVE  request[r].user \in Users /\ users[request[r].user] # None
  BY <1>f, RequestShapes DEF Typing, RowsExist
<1>r. raced => raced'
  BY DEF Next, vars, historyVars, Invite, BeginAccept, CommitAccept, BeginLogin, CommitLogin,
         ConfirmMfa, SendRefresh, RefuseReuse, RefuseRefresh, BeginRotate, CommitRotate, Logout,
         BeginRole, CommitRole, BeginDeactivate, CommitDeactivate, Reactivate, Abort
<1> SUFFICES ASSUME ~raced' PROVE Owning'
  BY DEF Owning, OwnerRemains, RemovalsAreSafe
<1>0. /\ \A r, o \in Requests : Removes(r) /\ Removes(o) => o = r
      /\ \A r \in Requests :
             /\ request[r].job = "role" =>
                   /\ users[request[r].user].role = request[r].role
                   /\ request[r].role = "OWNER" /\ request[r].to # "OWNER"
                          => RemainingOwners(request[r].user) # {}
             /\ request[r].job = "deactivate" /\ IsOwner(request[r].user)
                   => RemainingOwners(request[r].user) # {}
  BY <1>r DEF Owning, RemovalsAreSafe
<1>1. PICK w \in Users : IsOwner(w) /\ users[w].status # "DEACTIVATED"
  BY <1>r DEF Owning, OwnerRemains
(* Whoever is an owner besides the user removed remains one. *)
<1>2. ASSUME NEW r \in Requests, Removes(r), Done(r),
             \A u \in Users \ {request[r].user} : users'[u] = users[u],
             \/ IsOwner(w)' /\ users'[w].status # "DEACTIVATED"
             \/ RemainingOwners(request[r].user) # {}
      PROVE  Owning'
  <2>1. \A o \in Requests : ~Removes(o)'
    BY <1>0, <1>2, <1>t DEF Removes, Done, Idle
  <2>2. \E u \in Users : (IsOwner(u) /\ users[u].status # "DEACTIVATED")'
    BY <1>2, <1>1 DEF RemainingOwners, IsOwner, Exists
  <2> QED BY <2>1, <2>2 DEF Owning, OwnerRemains, RemovalsAreSafe, Removes
<1>3. ASSUME NEW r \in Requests, CommitRole(r)
      PROVE  Owning'
  <2>1. /\ request[r].user \in Users /\ users[request[r].user] # None
        /\ Removes(r) /\ Done(r) /\ request[r].job = "role"
    BY <1>3, <1>f DEF CommitRole, Idle, Removes
  <2>2. \A u \in Users \ {request[r].user} : users'[u] = users[u]
    BY <1>3, <1>t DEF CommitRole
  <2>3. CASE w = request[r].user /\ request[r].to # request[r].role
    <3>1. users'[w] = [users[w] EXCEPT !.role = request[r].to]
      BY <1>3, <1>t, <2>3 DEF CommitRole
    <3>2. users'[w].role = request[r].to /\ users'[w].status = users[w].status
      BY <1>t, <2>1, <2>3, <3>1 DEF User
    <3>3. CASE request[r].to = "OWNER"
      <4>1. [users[w] EXCEPT !.role = request[r].to] \in User
        BY <1>t, <2>1, <2>3, <3>3, AccountsAssumption DEF User
      <4>2. users'[w] # None
        BY <3>1, <4>1, NullAssumption
      <4> QED BY <1>1, <1>2, <2>1, <2>2, <3>2, <3>3, <4>2 DEF IsOwner, Exists
    <3>4. CASE request[r].to # "OWNER"
      BY <1>0, <1>1, <1>2, <2>1, <2>2, <2>3, <3>4 DEF IsOwner
    <3> QED BY <3>3, <3>4
  <2>4. CASE w # request[r].user \/ request[r].to = request[r].role
    <3>1. users'[w] = users[w]
      BY <1>3, <2>2, <2>4 DEF CommitRole
    <3> QED BY <1>1, <1>2, <2>1, <2>2, <3>1 DEF IsOwner, Exists
  <2> QED BY <2>3, <2>4
<1>4. ASSUME NEW r \in Requests, NEW upto \in 0..MaxTokens, CommitDeactivate(r, upto)
      PROVE  Owning'
  <2>1. /\ request[r].user \in Users /\ users[request[r].user] # None
        /\ Removes(r) /\ Done(r) /\ request[r].job = "deactivate"
    BY <1>4, <1>f DEF CommitDeactivate, Idle, Removes
  <2>2. \A u \in Users \ {request[r].user} : users'[u] = users[u]
    BY <1>4, <1>t DEF CommitDeactivate
  <2>3. CASE w = request[r].user
    BY <1>0, <1>1, <1>2, <2>1, <2>2, <2>3
  <2>4. CASE w # request[r].user
    BY <1>1, <1>2, <2>1, <2>2, <2>4 DEF IsOwner, Exists
  <2> QED BY <2>3, <2>4
<1>5. ASSUME \A r \in Requests : /\ ~CommitRole(r)
                                 /\ \A upto \in 0..MaxTokens : ~CommitDeactivate(r, upto)
      PROVE  Owning'
  <2>1. \A u \in Users : users[u] # None =>
            /\ users'[u] # None
            /\ users'[u].role = users[u].role
            /\ users[u].status # "DEACTIVATED" => users'[u].status # "DEACTIVATED"
    BY <1>5, OwnersStay
  <2>2. OwnerRemains'
    BY <1>1, <2>1 DEF OwnerRemains, IsOwner, Exists
  <2>3. ASSUME NEW u \in Users, RemainingOwners(u) # {}
        PROVE  RemainingOwners(u)' # {}
    BY <2>1, <2>3 DEF RemainingOwners, IsOwner, Exists
  <2>4. CASE \E r \in Requests, u \in Users, to \in Roles : BeginRole(r, u, to)
    <3>1. PICK r \in Requests, u \in Users, to \in Roles : BeginRole(r, u, to)
      BY <2>4
    <3>2. /\ users' = users /\ ~RemovalInFlight
          /\ request'[r] = [job |-> "role", user |-> u, role |-> users[u].role, to |-> to]
          /\ \A o \in Requests \ {r} : request'[o] = request[o]
          /\ users[u].role = "OWNER" /\ to # "OWNER" => RemainingOwners(u) # {}
      BY <3>1, <1>t DEF BeginRole, Start
    <3>3. \A o \in Requests \ {r} : ~Removes(o)'
      BY <3>2 DEF Removes, RemovalInFlight
    <3>4. RemainingOwners(u)' = RemainingOwners(u)
      BY <3>2 DEF RemainingOwners, IsOwner, Exists
    <3>5. RemovalsAreSafe'
      <4> SUFFICES ASSUME NEW o \in Requests, Removes(o)'
                   PROVE  /\ \A x \in Requests : Removes(x)' => x = o
                          /\ request'[o].job = "role" =>
                                /\ users'[request'[o].user].role = request'[o].role
                                /\ request'[o].role = "OWNER" /\ request'[o].to # "OWNER"
                                       => RemainingOwners(request[o].user)' # {}
                          /\ request'[o].job = "deactivate" /\ IsOwner(request[o].user)'
                                => RemainingOwners(request[o].user)' # {}
        BY DEF RemovalsAreSafe, Removes
      <4>1. o = r
        BY <3>3
      <4>2. RemainingOwners(request[o].user)' = RemainingOwners(u)'
        BY <3>2, <4>1 DEF RemainingOwners
      <4> QED BY <3>2, <3>3, <3>4, <4>1, <4>2
    <3> QED BY <2>2, <3>5 DEF Owning
  <2>5. CASE \E r \in Requests, u \in Users : BeginDeactivate(r, u)
    <3>1. PICK r \in Requests, u \in Users : BeginDeactivate(r, u)
      BY <2>5
    <3>2. /\ users' = users /\ ~RemovalInFlight
          /\ request'[r] = [job |-> "deactivate", user |-> u, status |-> users[u].status,
                            issued |-> issued]
          /\ \A o \in Requests \ {r} : request'[o] = request[o]
          /\ IsOwner(u) => RemainingOwners(u) # {}
      BY <3>1, <1>t DEF BeginDeactivate, Start
    <3>3. \A o \in Requests \ {r} : ~Removes(o)'
      BY <3>2 DEF Removes, RemovalInFlight
    <3>4. /\ RemainingOwners(request[r].user)' = RemainingOwners(u)
          /\ IsOwner(request[r].user)' <=> IsOwner(u)
      BY <3>2 DEF RemainingOwners, IsOwner, Exists
    <3>5. RemovalsAreSafe'
      BY <3>2, <3>3, <3>4 DEF RemovalsAreSafe, Removes
    <3> QED BY <2>2, <3>5 DEF Owning
  <2>6. ASSUME \A o \in Requests : Removes(o)' => request'[o] = request[o]
        PROVE  Owning'
    <3>1. ASSUME NEW o \in Requests, Removes(o)'
          PROVE  /\ Removes(o) /\ request'[o] = request[o]
                 /\ request[o].user \in Users /\ users[request[o].user] # None
      BY <3>1, <2>6, <1>f DEF Removes, Idle
    <3>2. ASSUME NEW o \in Requests, Removes(o)'
          PROVE  /\ \A x \in Requests : Removes(x)' => x = o
                 /\ request'[o].job = "role" =>
                       /\ users'[request'[o].user].role = request'[o].role
                       /\ request'[o].role = "OWNER" /\ request'[o].to # "OWNER"
                              => RemainingOwners(request[o].user)' # {}
                 /\ request'[o].job = "deactivate" /\ IsOwner(request[o].user)'
                       => RemainingOwners(request[o].user)' # {}
      <4>1. /\ RemainingOwners(request[o].user) # {} => RemainingOwners(request[o].user)' # {}
            /\ IsOwner(request[o].user)' => IsOwner(request[o].user)
        <5> DEFINE u == request[o].user
        <5>1. u' = u /\ u \in Users /\ users[u] # None
          BY <3>1, <3>2
        <5> QED BY <2>1, <5>1 DEF RemainingOwners, IsOwner, Exists
      <4> QED BY <1>0, <2>1, <3>1, <3>2, <4>1
    <3>3. RemovalsAreSafe'
      BY <3>2 DEF RemovalsAreSafe, Removes
    <3> QED BY <2>2, <3>3 DEF Owning
  <2> QED BY <2>4, <2>5, <2>6, RemovalsBegin
<1> QED BY <1>3, <1>4, <1>5

(* An owner who is not deactivated remains, as long as no two requests     *)
(* that take roles or users away overlap, however many users, requests and *)
(* access tokens there are (change_role, deactivate).                      *)
THEOREM AnOwnerRemains == Spec => []OwnerRemains
<1>1. Init => Owning
  <2> SUFFICES ASSUME Init PROVE Owning
    OBVIOUS
  <2>1. PICK f \in Founders : TRUE
    BY AccountsAssumption
  <2>2. f \in Users /\ users[f].status = "ACTIVE" /\ users[f].role = "OWNER"
    BY AccountsAssumption DEF Init
  <2>3. users[f] # None
    <3>1. [status |-> "ACTIVE", role |-> "OWNER", password |-> TRUE,
           secret |-> TRUE, enrolled |-> TRUE] \in User
      BY AccountsAssumption DEF User, Statuses
    <3> HIDE DEF Init
    <3>2. users[f] \in User
      BY <3>1, <2>2 DEF Init
    <3> QED BY <3>2, NullAssumption
  <2> QED BY <2>2, <2>3 DEF Init, Owning, OwnerRemains, RemovalsAreSafe, Removes, IsOwner, Exists, Idle
<1>2. Typing /\ Owning /\ [Next]_vars => Typing' /\ Owning'
  BY TypingHolds, OwningStays
<1>3. Owning => OwnerRemains
  BY DEF Owning
<1> QED BY FirstTyping, <1>1, <1>2, <1>3, PTL DEF Spec
-----------------------------------------------------------------------------
(* Sessions.                                                               *)

(* The tokens of a family are of one user.                                 *)
LEMMA FamiliesAreOfOneUser ==
    ASSUME Typing, NEW s \in TokenIds, NEW t \in TokenIds, s <= issued, t <= issued,
           tokens[s].family = tokens[t].family
    PROVE  tokens[s].user = tokens[t].user
BY DEF Typing, RowsExist

(* A token once stored can only be revoked; one more is stored by a login, *)
(* an acceptance or a rotation.                                            *)
LEMMA TokenSteps ==
    ASSUME Typing, [Next]_vars
    PROVE  /\ \A t \in TokenIds : t <= issued =>
                 /\ tokens'[t].user = tokens[t].user /\ tokens'[t].family = tokens[t].family
                 /\ tokens'[t].crossed = tokens[t].crossed
                 /\ tokens'[t].forked = tokens[t].forked
                 /\ tokens[t].revoked => tokens'[t].revoked
           /\ \/ issued' = issued
              \/ /\ issued' = issued + 1 /\ issued' \in TokenIds
                 /\ ~tokens'[issued'].revoked
                 /\ \E r \in Requests :
                       /\ request[r] # Idle
                       /\ tokens'[issued'].user = request[r].user
                       /\ tokens'[issued'].crossed = Leaving(request[r].user)
                       /\ \/ tokens'[issued'].family = issued'
                          \/ /\ request[r].job = "rotate"
                             /\ tokens'[request[r].token].revoked
                             /\ tokens'[issued'].family = tokens[request[r].token].family
                             /\ tokens'[issued'].forked = tokens[request[r].token].revoked
<1> DEFINE Kept == \A t \in TokenIds : t <= issued =>
                       /\ tokens'[t].user = tokens[t].user
                       /\ tokens'[t].family = tokens[t].family
                       /\ tokens'[t].crossed = tokens[t].crossed
                       /\ tokens'[t].forked = tokens[t].forked
                       /\ tokens[t].revoked => tokens'[t].revoked
<1>t. /\ issued \in 0..MaxTokens /\ MaxTokens \in Nat /\ TokenIds = 1..MaxTokens
      /\ tokens \in [TokenIds -> Token \cup {None}]
      /\ \A t \in TokenIds : t <= issued => tokens[t] \in Token
      /\ \A t \in TokenIds : t <= issued => t # issued + 1
  BY AccountsAssumption DEF Typing, TypeOK, RowsExist, TokenIds
<1>1. ASSUME NEW S \in SUBSET (1..issued), tokens' = Revoked(tokens, S)
      PROVE  Kept
  BY <1>1, RevokedTokens
<1>2. ASSUME UNCHANGED tokenVars
      PROVE  Kept /\ issued' = issued
  BY <1>2 DEF tokenVars
<1>3. ASSUME NEW u \in Users, Store(u, 0, FALSE, tokens)
      PROVE  /\ Kept
             /\ issued' = issued + 1 /\ issued' \in TokenIds
             /\ tokens'[issued'].user = u /\ ~tokens'[issued'].revoked
             /\ tokens'[issued'].family = issued' /\ tokens'[issued'].crossed = Leaving(u)
  <2>1. 0 \in 0..MaxTokens
    BY <1>t
  <2>2. /\ issued' = issued + 1 /\ issued' \in TokenIds
        /\ tokens'[issued'] =
               [user |-> u, family |-> issued', revoked |-> FALSE,
                crossed |-> Leaving(u), forked |-> FALSE]
        /\ \A t \in TokenIds : t # issued' => tokens'[t] = tokens[t]
    BY <1>3, <1>t, <2>1, StoredToken
  <2> QED BY <1>t, <2>2
<1>4. ASSUME NEW u \in Users, NEW t \in TokenIds, t <= issued,
             Store(u, tokens[t].family, tokens[t].revoked, Revoked(tokens, {t}))
      PROVE  /\ Kept
             /\ issued' = issued + 1 /\ issued' \in TokenIds
             /\ tokens'[issued'].user = u /\ ~tokens'[issued'].revoked
             /\ tokens'[issued'].crossed = Leaving(u)
             /\ tokens'[t].revoked
             /\ tokens'[issued'].family = tokens[t].family
             /\ tokens'[issued'].forked = tokens[t].revoked
  <2>1. /\ tokens[t].family \in 0..MaxTokens /\ tokens[t].family # 0
        /\ tokens[t].revoked \in BOOLEAN
    <3>1. tokens[t].family \in 1..MaxTokens /\ tokens[t].revoked \in BOOLEAN
      BY <1>4, <1>t DEF Token
    <3> QED BY <3>1, <1>t
  <2>2. {t} \in SUBSET (1..issued)
    BY <1>4, <1>t
  <2>3. /\ Revoked(tokens, {t}) \in [TokenIds -> Token \cup {None}]
        /\ \A x \in TokenIds : x <= issued =>
               /\ Revoked(tokens, {t})[x].user = tokens[x].user
               /\ Revoked(tokens, {t})[x].family = tokens[x].family
               /\ Revoked(tokens, {t})[x].crossed = tokens[x].crossed
               /\ Revoked(tokens, {t})[x].forked = tokens[x].forked
               /\ Revoked(tokens, {t})[x].revoked <=> tokens[x].revoked \/ x = t
    BY <2>2, RevokedTokens
  <2>4. /\ issued' = issued + 1 /\ issued' \in TokenIds
        /\ tokens'[issued'].user = u /\ ~tokens'[issued'].revoked
        /\ tokens'[issued'].crossed = Leaving(u)
        /\ tokens'[issued'].family = tokens[t].family
        /\ tokens'[issued'].forked = tokens[t].revoked
        /\ \A x \in TokenIds : x # issued' => tokens'[x] = Revoked(tokens, {t})[x]
    <3>1. PICK family \in 0..MaxTokens, forked \in BOOLEAN,
               before \in [TokenIds -> Token \cup {None}] :
              /\ family = tokens[t].family /\ forked = tokens[t].revoked /\ family # 0
              /\ before = Revoked(tokens, {t})
      BY <2>1, <2>3
    <3>2. Store(u, family, forked, before)
      BY <1>4, <3>1
    <3>3. /\ issued' = issued + 1 /\ issued' \in TokenIds
          /\ tokens'[issued'] =
                 [user |-> u, family |-> IF family = 0 THEN issued' ELSE family,
                  revoked |-> FALSE, crossed |-> Leaving(u), forked |-> forked]
          /\ \A x \in TokenIds : x # issued' => tokens'[x] = before[x]
      <4>1. issued' = issued + 1
        BY <3>2 DEF Store
      <4> QED BY ONLY <3>2, <4>1, StoredToken, Typing, u \in Users
    <3>4. /\ tokens'[issued'].user = u /\ ~tokens'[issued'].revoked
          /\ tokens'[issued'].crossed = Leaving(u)
          /\ tokens'[issued'].family = family /\ tokens'[issued'].forked = forked
      BY ONLY <3>1, <3>3
    <3> QED BY ONLY <3>1, <3>3, <3>4
  <2>5. ASSUME NEW x \in TokenIds, x <= issued
        PROVE  tokens'[x] = Revoked(tokens, {t})[x]
    BY <2>4, <2>5, <1>t
  <2>6. Kept
    BY <2>3, <2>5
  <2>7. tokens'[t].revoked
    BY <1>4, <2>3, <2>5
  <2> HIDE DEF Kept
  <2> QED BY <2>4, <2>6, <2>7
<1>5. ASSUME NEW r \in Requests, request[r].job # "idle"
      PROVE  request[r] # Idle /\ request[r].user \in Users
  BY <1>5, RequestShapes DEF Typing
<1>6. ASSUME NEW r \in Requests, NEW heard \in BOOLEAN, CommitAccept(r, heard)
      PROVE  /\ request[r] # Idle /\ request[r].user \in Users
             /\ Store(request[r].user, 0, FALSE, tokens)
  BY <1>5, <1>6 DEF CommitAccept
<1>7. ASSUME NEW r \in Requests, NEW heard \in BOOLEAN, CommitLogin(r, heard)
      PROVE  /\ request[r] # Idle /\ request[r].user \in Users
             /\ Store(request[r].user, 0, FALSE, tokens)
  BY <1>5, <1>7 DEF CommitLogin
<1>8. ASSUME NEW r \in Requests, NEW heard \in BOOLEAN, CommitRotate(r, heard)
      PROVE  /\ request[r] # Idle
             /\ request[r].user \in Users /\ request[r].job = "rotate"
             /\ request[r].token \in TokenIds /\ request[r].token <= issued
             /\ Store(request[r].user, tokens[request[r].token].family,
                      tokens[request[r].token].revoked, Revoked(tokens, {request[r].token}))
  BY <1>5, <1>8, RequestShapes DEF CommitRotate, Typing, RowsExist
<1>9. ASSUME NEW r \in Requests, RefuseReuse(r)
      PROVE  issued' = issued /\ Kept
  <2>1. FamilyOf(request[r].token) \in SUBSET (1..issued)
    BY DEF FamilyOf
  <2>2. tokens' = Revoked(tokens, FamilyOf(request[r].token)) /\ issued' = issued
    BY <1>9 DEF RefuseReuse
  <2> HIDE DEF Kept
  <2> QED BY <1>1, <2>1, <2>2
<1>10. ASSUME NEW u \in Users, Logout(u)
       PROVE  issued' = issued /\ Kept
  <2>1. FamilyOf(jar[u]) \in SUBSET (1..issued)
    BY DEF FamilyOf
  <2>2. /\ issued' = issued
        /\ tokens' = tokens \/ tokens' = Revoked(tokens, FamilyOf(jar[u]))
    BY <1>10 DEF Logout
  <2> HIDE DEF Kept
  <2> QED BY <1>1, <1>2, <2>1, <2>2 DEF tokenVars
<1>11. ASSUME NEW r \in Requests, NEW upto \in 0..MaxTokens, CommitDeactivate(r, upto)
       PROVE  issued' = issued /\ Kept
  <2>1. TokensOf(request[r].user) \cap 1..upto \in SUBSET (1..issued)
    BY DEF TokensOf
  <2>2. /\ issued' = issued
        /\ tokens' = Revoked(tokens, TokensOf(request[r].user) \cap 1..upto)
    BY <1>11 DEF CommitDeactivate
  <2> HIDE DEF Kept
  <2> QED BY <1>1, <2>1, <2>2
<1> HIDE DEF Kept
<1> DEFINE Stored(r) ==
      /\ issued' = issued + 1 /\ issued' \in TokenIds /\ ~tokens'[issued'].revoked
      /\ request[r] # Idle
      /\ tokens'[issued'].user = request[r].user
      /\ tokens'[issued'].crossed = Leaving(request[r].user)
      /\ \/ tokens'[issued'].family = issued'
         \/ /\ request[r].job = "rotate"
            /\ tokens'[request[r].token].revoked
            /\ tokens'[issued'].family = tokens[request[r].token].family
            /\ tokens'[issued'].forked = tokens[request[r].token].revoked
<1>12. ASSUME NEW r \in Requests, NEW heard \in BOOLEAN,
              CommitAccept(r, heard) \/ CommitLogin(r, heard) \/ CommitRotate(r, heard)
       PROVE  Kept /\ Stored(r)
  <2>1. CASE CommitAccept(r, heard) \/ CommitLogin(r, heard)
    BY <1>3, <1>6, <1>7, <2>1
  <2>2. CASE CommitRotate(r, heard)
    <3>1. /\ request[r] # Idle /\ request[r].job = "rotate"
          /\ request[r].user \in Users
          /\ request[r].token \in TokenIds /\ request[r].token <= issued
          /\ Store(request[r].user, tokens[request[r].token].family,
                   tokens[request[r].token].revoked, Revoked(tokens, {request[r].token}))
      BY <1>8, <2>2
    <3> QED BY <1>4, <3>1
  <2> QED BY <1>12, <2>1, <2>2
<1> HIDE DEF Stored
<1>13. Kept /\ (issued' = issued \/ \E r \in Requests : Stored(r))
  <2>1. CASE UNCHANGED tokenVars
    BY <1>2, <2>1
  <2> QED
    BY <1>9, <1>10, <1>11, <1>12, <2>1
       DEF Next, vars, Invite, BeginAccept, BeginLogin, ConfirmMfa, SendRefresh, RefuseRefresh,
           BeginRotate, BeginRole, CommitRole, BeginDeactivate, Reactivate, Abort
<1> QED BY <1>13 DEF Kept, Stored

LEMMA OneValidTokenStays ==
    ASSUME Typing, OneValidTokenPerFamily, [Next]_vars
    PROVE  OneValidTokenPerFamily'
<1>t. /\ issued \in 0..MaxTokens /\ MaxTokens \in Nat /\ TokenIds = 1..MaxTokens
      /\ \A t \in 1..issued : t \in TokenIds /\ t <= issued
  BY AccountsAssumption DEF Typing, TypeOK, TokenIds
<1>k. \A t \in 1..issued : /\ tokens'[t].family = tokens[t].family
                           /\ tokens'[t].forked = tokens[t].forked
                           /\ tokens[t].revoked => tokens'[t].revoked
  BY <1>t, TokenSteps
<1> SUFFICES ASSUME NEW s \in 1..issued', NEW t \in 1..issued', s < t,
                    tokens'[s].family = tokens'[t].family,
                    ~tokens'[s].revoked, ~tokens'[t].revoked
             PROVE  \E x \in 1..issued' : tokens'[x].family = tokens'[s].family /\ tokens'[x].forked
  BY DEF OneValidTokenPerFamily
<1>1. issued' \in {issued, issued + 1}
  BY TokenSteps
<1>2. ASSUME NEW a \in 1..issued, NEW b \in 1..issued, a # b,
             tokens[a].family = tokens[b].family, ~tokens[a].revoked, ~tokens[b].revoked
      PROVE  \E x \in 1..issued' : tokens'[x].family = tokens[a].family /\ tokens'[x].forked
  <2>1. \E x \in 1..issued : tokens[x].family = tokens[a].family /\ tokens[x].forked
    <3>1. a < b \/ b < a
      BY <1>2, <1>t
    <3> QED BY <1>2, <3>1 DEF OneValidTokenPerFamily
  <2>2. \A x \in 1..issued : x \in 1..issued'
    BY <1>1, <1>t
  <2> QED BY <1>k, <2>1, <2>2
<1>3. CASE t # issued + 1
  <2>1. s \in 1..issued /\ t \in 1..issued /\ s # t
    BY <1>1, <1>3, <1>t
  <2> QED BY <1>2, <1>k, <2>1
<1>4. CASE t = issued + 1
  <2>1. issued' = issued + 1 /\ t = issued' /\ s \in 1..issued /\ issued' # issued
    BY <1>1, <1>4, <1>t
  <2>2. PICK r \in Requests :
            \/ tokens'[t].family = t
            \/ /\ request[r].job = "rotate"
               /\ tokens'[request[r].token].revoked
               /\ tokens'[t].family = tokens[request[r].token].family
               /\ tokens'[t].forked = tokens[request[r].token].revoked
    BY <2>1, TokenSteps
  <2>3. tokens'[t].family # t
    <3>1. tokens[s].family <= s /\ tokens[s].family \in 1..MaxTokens
      <4>1. s \in TokenIds /\ s <= issued /\ tokens[s] \in Token
        BY <2>1, <1>t DEF Typing, TypeOK, RowsExist
      <4> QED BY <4>1, <1>t DEF Typing, RowsExist, Token
    <3> QED BY <3>1, <2>1, <1>k, <1>t
  <2> DEFINE b == request[r].token
  <2>4. b \in 1..issued
    BY <2>2, <2>3, <1>t, RequestShapes DEF Typing, RowsExist
  <2>5. CASE tokens[b].revoked
    BY <2>1, <2>2, <2>3, <2>5
  <2>6. CASE ~tokens[b].revoked
    <3>1. s # b /\ tokens[s].family = tokens[b].family /\ ~tokens[s].revoked
      BY <1>k, <2>1, <2>2, <2>3
    <3> QED BY <1>2, <1>k, <2>1, <2>4, <2>6, <3>1
  <2> QED BY <2>5, <2>6
<1> QED BY <1>3, <1>4

(* Of the tokens of a family at most one is valid, unless one was rotated  *)
(* after it had been revoked, whatever requests overlap                    *)
(* (rotate_refresh_token).                                                 *)
THEOREM OneValidTokenHolds == Spec => []OneValidTokenPerFamily
<1>1. Init => OneValidTokenPerFamily
  BY DEF Init, OneValidTokenPerFamily
<1>2. Typing /\ OneValidTokenPerFamily /\ [Next]_vars => Typing' /\ OneValidTokenPerFamily'
  BY TypingHolds, OneValidTokenStays
<1> QED BY FirstTyping, <1>1, <1>2, PTL DEF Spec
(* Only a deactivation deactivates.                                        *)
LEMMA NobodyIsDeactivated ==
    ASSUME Typing, [Next]_vars,
           \A r \in Requests, upto \in 0..MaxTokens : ~CommitDeactivate(r, upto),
           NEW u \in Users, users[u] # None, users[u].status # "DEACTIVATED"
    PROVE  users'[u].status # "DEACTIVATED"
<1>1. CASE \E r \in Requests : CommitRole(r)
  <2>1. users \in [Users -> User \cup {None}] /\ users[u] \in User
    BY DEF Typing, TypeOK
  <2> QED BY <1>1, <2>1 DEF CommitRole, User
<1>2. CASE \A r \in Requests : ~CommitRole(r)
  BY <1>2, OwnersStay
<1> QED BY <1>1, <1>2

(* While a deactivation is under way, the tokens stored for the user since *)
(* it began know of it.                                                    *)
LateTokensCrossed ==
    \A r \in Requests :
        request[r].job = "deactivate" =>
            /\ request[r].issued <= issued
            /\ \A t \in TokenIds :
                  request[r].issued < t /\ t <= issued /\ tokens[t].user = request[r].user
                      => tokens[t].crossed

Deactivating == DeactivationEndsSessions /\ LateTokensCrossed

LEMMA LateTokensStay ==
    ASSUME Typing, LateTokensCrossed, [Next]_vars
    PROVE  LateTokensCrossed'
<1>t. /\ issued \in 0..MaxTokens /\ MaxTokens \in Nat /\ TokenIds = 1..MaxTokens
      /\ request \in [Requests -> {Idle} \cup Request]
  BY AccountsAssumption DEF Typing, TypeOK, TokenIds
<1> SUFFICES ASSUME NEW r \in Requests, request'[r].job = "deactivate"
             PROVE  /\ request'[r].issued <= issued'
                    /\ \A t \in TokenIds :
                          request'[r].issued < t /\ t <= issued'
                          /\ tokens'[t].user = request'[r].user => tokens'[t].crossed
  BY DEF LateTokensCrossed
<1>1. CASE \E u \in Users : BeginDeactivate(r, u)
  <2>1. request'[r].issued = issued /\ issued' = issued
    BY <1>1, <1>t DEF BeginDeactivate, Start, tokenVars
  <2> QED BY <2>1, <1>t
<1>2. CASE request'[r] = request[r]
  <2>1. /\ request[r].job = "deactivate" /\ request[r].user \in Users
        /\ request[r].issued \in 0..MaxTokens
        /\ request[r].issued <= issued
    BY <1>2, RequestShapes DEF Typing, LateTokensCrossed, Idle
  <2>2. issued' \in {issued, issued + 1}
    BY TokenSteps
  <2>3. ASSUME NEW t \in TokenIds, request[r].issued < t, t <= issued',
               tokens'[t].user = request[r].user
        PROVE  tokens'[t].crossed
    <3>1. CASE t <= issued
      BY <3>1, <2>1, <2>3, TokenSteps DEF LateTokensCrossed
    <3>2. CASE ~(t <= issued)
      <4>1. t = issued' /\ issued' # issued
        BY <3>2, <2>2, <2>3, <1>t
      <4>2. PICK o \in Requests : /\ tokens'[t].user = request[o].user
                                  /\ tokens'[t].crossed = Leaving(request[o].user)
        BY <4>1, TokenSteps
      <4>3. Leaving(request[r].user)
        BY <2>1 DEF Leaving
      <4> QED BY <2>3, <4>2, <4>3
    <3> QED BY <3>1, <3>2
  <2>4. request[r].issued <= issued'
    BY <2>1, <2>2, <1>t
  <2> QED BY <1>2, <2>3, <2>4
<1>3. CASE \E u \in Users, to \in Roles : BeginRole(r, u, to)
  <2>1. request'[r].job = "role"
    BY <1>3, <1>t DEF BeginRole, Start
  <2> QED BY <2>1
<1> QED
  <2>1. Removes(r)'
    BY DEF Removes
  <2> QED BY <1>1, <1>2, <1>3, <2>1, RemovalsBegin

LEMMA DeactivatingStays ==
    ASSUME Typing, Deactivating, [Next]_vars
    PROVE  Deactivating'
<1>t. /\ issued \in 0..MaxTokens /\ MaxTokens \in Nat /\ TokenIds = 1..MaxTokens
      /\ users \in [Users -> User \cup {None}]
      /\ \A t \in 1..issued : /\ t \in TokenIds /\ t <= issued
                              /\ tokens[t].user \in Users
                              /\ users[tokens[t].user] # None
  <2>1. \A t \in TokenIds : t <= issued => tokens[t] \in Token
    BY DEF Typing, TypeOK, RowsExist
  <2>2. issued \in 0..MaxTokens /\ MaxTokens \in Nat /\ TokenIds = 1..MaxTokens
    BY AccountsAssumption DEF Typing, TypeOK, TokenIds
  <2>3. \A t \in 1..issued : /\ t \in TokenIds /\ t <= issued /\ tokens[t].user \in Users
    BY <2>1, <2>2 DEF Token
  <2> QED BY <2>2, <2>3 DEF Typing, TypeOK, RowsExist
<1>1. LateTokensCrossed'
  BY LateTokensStay DEF Deactivating
<1> SUFFICES ASSUME NEW t \in 1..issued', ~tokens'[t].revoked,
                    users'[tokens'[t].user].status = "DEACTIVATED"
             PROVE  tokens'[t].crossed
  BY <1>1 DEF Deactivating, DeactivationEndsSessions
<1>2. CASE \E r \in Requests, upto \in 0..MaxTokens : CommitDeactivate(r, upto)
  <2>1. PICK r \in Requests, upto \in 0..MaxTokens : CommitDeactivate(r, upto)
    BY <1>2
  <2>2. /\ issued' = issued /\ request[r].job = "deactivate"
        /\ upto \in request[r].issued..issued
        /\ tokens' = Revoked(tokens, TokensOf(request[r].user) \cap 1..upto)
        /\ users' = users \/ users' = [users EXCEPT ![request[r].user].status = "DEACTIVATED"]
    BY <2>1 DEF CommitDeactivate
  <2>3. /\ t \in 1..issued
        /\ tokens'[t].user = tokens[t].user /\ tokens'[t].crossed = tokens[t].crossed
        /\ ~tokens[t].revoked
    BY <1>t, <2>2, TokenSteps
  <2>4. CASE tokens[t].user = request[r].user
    <3>1. TokensOf(request[r].user) \cap 1..upto \in SUBSET (1..issued)
      BY DEF TokensOf
    <3>2. t \notin 1..upto
      BY <1>t, <2>2, <2>3, <2>4, <3>1, RevokedTokens DEF TokensOf
    <3>3. request[r].issued < t
      <4>1. request[r].issued \in 0..MaxTokens
        BY <2>2, RequestShapes DEF Typing
      <4> QED BY <1>t, <2>2, <2>3, <3>2, <4>1
    <3> QED BY <1>t, <2>2, <2>3, <2>4, <3>3 DEF Deactivating, LateTokensCrossed
  <2>5. CASE tokens[t].user # request[r].user
    <3>1. users'[tokens[t].user] = users[tokens[t].user]
      BY <1>t, <2>2, <2>3, <2>5
    <3> QED BY <2>3, <3>1 DEF Deactivating, DeactivationEndsSessions
  <2> QED BY <2>4, <2>5
<1>3. CASE \A r \in Requests, upto \in 0..MaxTokens : ~CommitDeactivate(r, upto)
  <2>1. ASSUME NEW u \in Users, users[u] # None, users'[u].status = "DEACTIVATED"
        PROVE  users[u].status = "DEACTIVATED"
    BY <1>3, <2>1, NobodyIsDeactivated
  <2>2. CASE t \in 1..issued
    <3>1. /\ tokens'[t].user = tokens[t].user /\ tokens'[t].crossed = tokens[t].crossed
          /\ ~tokens[t].revoked
      BY <1>t, <2>2, TokenSteps
    <3>2. users[tokens[t].user].status = "DEACTIVATED"
      BY <1>t, <2>1, <2>2, <3>1
    <3> QED BY <2>2, <3>1, <3>2 DEF Deactivating, DeactivationEndsSessions
  <2>3. CASE t \notin 1..issued
    <3>1. issued' \in {issued, issued + 1}
      BY TokenSteps
    <3>2. t = issued' /\ issued' # issued
      BY <1>t, <2>3, <3>1
    <3>3. PICK r \in Requests : /\ request[r] # Idle /\ tokens'[t].user = request[r].user
                                /\ tokens'[t].crossed = Leaving(request[r].user)
      BY <3>2, TokenSteps
    <3>4. request[r].user \in Users /\ users[request[r].user] # None
      BY <3>3, RequestShapes DEF Typing, RowsExist
    <3>5. users[request[r].user].status = "DEACTIVATED"
      BY <2>1, <3>3, <3>4
    <3> QED BY <3>3, <3>5 DEF Leaving
  <2> QED BY <2>2, <2>3
<1> QED BY <1>2, <1>3

(* A deactivated user has no valid refresh token but one whose request     *)
(* overlapped the deactivation, whenever that read and wrote (deactivate,  *)
(* revoke_all_for_user).                                                   *)
THEOREM DeactivationHolds == Spec => []DeactivationEndsSessions
<1>1. Init => Deactivating
  BY DEF Init, Deactivating, DeactivationEndsSessions, LateTokensCrossed, Idle
<1>2. Typing /\ Deactivating /\ [Next]_vars => Typing' /\ Deactivating'
  BY TypingHolds, DeactivatingStays
<1>3. Deactivating => DeactivationEndsSessions
  BY DEF Deactivating
<1> QED BY FirstTyping, <1>1, <1>2, <1>3, PTL DEF Spec
Refreshes(r, u) == request[r].job \in {"present", "rotate"} /\ request[r].user = u

(* Without a cause, a user's cookie is valid, and at most one refresh is   *)
(* under way, by this cookie or, when the user has logged in anew since,   *)
(* by one of another family.                                               *)
SessionIsSound(u) ==
    /\ jar[u] # 0 => ~tokens[jar[u]].revoked
    /\ \A r, o \in Requests : Refreshes(r, u) /\ Refreshes(o, u) => o = r
    /\ \A r \in Requests :
          Refreshes(r, u) /\ jar[u] # 0 =>
              \/ jar[u] = request[r].token
              \/ tokens[jar[u]].family # tokens[request[r].token].family

SessionsAreSound == \A u \in Users \ excused : SessionIsSound(u)

(* A session goes on soundly when its tokens and cookie are let be and no  *)
(* refresh begins.                                                         *)
LEMMA SessionGoesOn ==
    ASSUME Typing, [Next]_vars, NEW u \in Users, SessionIsSound(u),
           \A t \in TokenIds :
               t <= issued /\ tokens[t].user = u => tokens'[t].revoked = tokens[t].revoked,
           jar'[u] \in {0, jar[u]},
           \A r \in Requests : Refreshes(r, u)' =>
               /\ request[r].job \in {"present", "rotate"} /\ request[r].user = u
               /\ request'[r].token = request[r].token
    PROVE  SessionIsSound(u)'
<1>1. ASSUME jar'[u] # 0
      PROVE  /\ jar'[u] = jar[u] /\ jar[u] # 0 /\ jar[u] \in TokenIds /\ jar[u] <= issued
             /\ tokens[jar[u]].user = u
  BY <1>1 DEF Typing, TypeOK, RowsExist, TokenIds
<1>2. ASSUME NEW r \in Requests, Refreshes(r, u)'
      PROVE  /\ Refreshes(r, u)
             /\ request'[r].token = request[r].token
             /\ request[r].token \in TokenIds /\ request[r].token <= issued
  BY <1>2, RequestShapes DEF Refreshes, Typing, RowsExist
<1>3. \A t \in TokenIds : t <= issued => tokens'[t].family = tokens[t].family
  BY TokenSteps
<1>4. jar'[u] # 0 => ~tokens'[jar'[u]].revoked
  BY <1>1 DEF SessionIsSound
<1>5. \A r, o \in Requests : Refreshes(r, u)' /\ Refreshes(o, u)' => o = r
  BY <1>2 DEF SessionIsSound
<1>6. ASSUME NEW r \in Requests, Refreshes(r, u)', jar'[u] # 0
      PROVE  \/ jar'[u] = request'[r].token
             \/ tokens'[jar'[u]].family # tokens'[request'[r].token].family
  <2>1. \/ jar[u] = request[r].token
        \/ tokens[jar[u]].family # tokens[request[r].token].family
    BY <1>1, <1>2, <1>6 DEF SessionIsSound
  <2> QED BY <1>1, <1>2, <1>3, <1>6, <2>1
<1> QED BY <1>4, <1>5, <1>6 DEF SessionIsSound

(* A revocation of others' tokens lets those of a user be.                *)
LEMMA RevocationsElsewhere ==
    ASSUME Typing, NEW S \in SUBSET (1..issued), tokens' = Revoked(tokens, S),
           NEW u \in Users, \A t \in S : tokens[t].user # u
    PROVE  \A t \in TokenIds :
               t <= issued /\ tokens[t].user = u => tokens'[t].revoked = tokens[t].revoked
<1> SUFFICES ASSUME NEW t \in TokenIds, t <= issued, tokens[t].user = u
             PROVE  tokens'[t].revoked = tokens[t].revoked
  OBVIOUS
<1>1. t \notin S
  OBVIOUS
<1> QED BY <1>1 DEF Revoked

(* The tokens a family has are of the user of any of them.                 *)
LEMMA FamilyOfUser ==
    ASSUME Typing, NEW t \in TokenIds, t <= issued
    PROVE  /\ FamilyOf(t) \in SUBSET (1..issued)
           /\ \A x \in FamilyOf(t) : tokens[x].user = tokens[t].user
<1>1. issued \in 0..MaxTokens /\ MaxTokens \in Nat
  BY AccountsAssumption DEF Typing, TypeOK
<1>2. \A x \in FamilyOf(t) : /\ x \in TokenIds /\ x <= issued
                             /\ tokens[x].family = tokens[t].family
  BY <1>1 DEF FamilyOf, TokenIds
<1> QED BY <1>2, FamiliesAreOfOneUser DEF FamilyOf

LEMMA SessionsStaySound ==
    ASSUME Typing, SessionsAreSound, [Next]_vars
    PROVE  SessionsAreSound'
<1>t. /\ issued \in 0..MaxTokens /\ MaxTokens \in Nat /\ TokenIds = 1..MaxTokens
      /\ jar \in [Users -> 0..MaxTokens]
      /\ request \in [Requests -> {Idle} \cup Request]
      /\ tokens \in [TokenIds -> Token \cup {None}]
  BY AccountsAssumption DEF Typing, TypeOK, TokenIds
<1>j. ASSUME NEW v \in Users, jar[v] # 0
      PROVE  jar[v] \in TokenIds /\ jar[v] <= issued /\ tokens[jar[v]].user = v
  BY <1>j, <1>t DEF Typing, RowsExist
<1>q. ASSUME NEW r \in Requests, request[r].job \in {"present", "rotate"}
      PROVE  /\ request[r].user \in Users
             /\ request[r].token \in TokenIds /\ request[r].token <= issued
             /\ tokens[request[r].token].user = request[r].user
  BY <1>q, RequestShapes DEF Typing, RowsExist, Idle
(* No refresh begins when a request ends. *)
<1>d. ASSUME NEW r \in Requests, Done(r), NEW u \in Users
      PROVE  \A o \in Requests : Refreshes(o, u)' =>
                 /\ o # r
                 /\ request'[o] = request[o]
                 /\ request[o].job \in {"present", "rotate"} /\ request[o].user = u
                 /\ request'[o].token = request[o].token
  BY <1>d, <1>t DEF Done, Refreshes, Idle
<1> SUFFICES ASSUME NEW u \in Users, u \notin excused'
             PROVE  SessionIsSound(u)'
  BY DEF SessionsAreSound
<1> DEFINE Kept == \A t \in TokenIds :
               t <= issued /\ tokens[t].user = u => tokens'[t].revoked = tokens[t].revoked
           NoNew == \A r \in Requests : Refreshes(r, u)' =>
               /\ request[r].job \in {"present", "rotate"} /\ request[r].user = u
               /\ request'[r].token = request[r].token
<1>g. ASSUME u \notin excused, Kept, NoNew, jar'[u] \in {0, jar[u]}
      PROVE  SessionIsSound(u)'
  BY <1>g, SessionGoesOn DEF SessionsAreSound
<1>h. ASSUME UNCHANGED tokens PROVE Kept
  BY <1>h
<1>i. ASSUME NEW S \in SUBSET (1..issued), tokens' = Revoked(tokens, S),
             \A t \in S : tokens[t].user # u
      PROVE  Kept
  BY <1>i, RevocationsElsewhere
<1>n. ASSUME NEW r \in Requests, Done(r) PROVE NoNew
  BY <1>n, <1>d
<1> HIDE DEF Kept, NoNew
<1>1. ASSUME NEW r \in Requests, RefuseReuse(r) PROVE SessionIsSound(u)'
  <2>1. /\ request[r].job = "present" /\ tokens[request[r].token].revoked
        /\ tokens' = Revoked(tokens, FamilyOf(request[r].token))
        /\ Done(r) /\ jar' = jar /\ u \notin excused
    BY <1>1 DEF RefuseReuse, clientVars, historyVars
  <2>2. /\ request[r].token \in TokenIds /\ request[r].token <= issued
        /\ tokens[request[r].token].user = request[r].user
    BY <2>1, <1>q
  <2>3. /\ FamilyOf(request[r].token) \in SUBSET (1..issued)
        /\ \A x \in FamilyOf(request[r].token) : tokens[x].user = request[r].user
    BY <2>2, FamilyOfUser
  <2>4. CASE request[r].user # u
    BY <2>1, <2>3, <2>4, <1>g, <1>i, <1>n
  <2>5. CASE request[r].user = u
    <3>1. SessionIsSound(u) /\ Refreshes(r, u)
      BY <2>1, <2>5 DEF SessionsAreSound, Refreshes
    <3>2. \A o \in Requests : ~Refreshes(o, u)'
      BY <3>1, <2>1, <1>d DEF SessionIsSound, Refreshes
    <3>3. jar[u] # 0 => ~tokens'[jar[u]].revoked
      <4> SUFFICES ASSUME jar[u] # 0 PROVE ~tokens'[jar[u]].revoked
        OBVIOUS
      <4>1. /\ ~tokens[jar[u]].revoked
            /\ tokens[jar[u]].family # tokens[request[r].token].family
        BY <3>1, <2>1 DEF SessionIsSound
      <4>2. jar[u] \notin FamilyOf(request[r].token)
        BY <4>1 DEF FamilyOf
      <4> QED BY <4>1, <4>2, <1>j, <2>1, <2>3, RevokedTokens
    <3> QED BY <2>1, <3>2, <3>3 DEF SessionIsSound
  <2> QED BY <2>4, <2>5
<1>2. ASSUME NEW r \in Requests, NEW upto \in 0..MaxTokens, CommitDeactivate(r, upto)
      PROVE  SessionIsSound(u)'
  <2>1. /\ Done(r) /\ jar' = jar /\ u \notin excused /\ request[r].user # u
        /\ tokens' = Revoked(tokens, TokensOf(request[r].user) \cap 1..upto)
    BY <1>2 DEF CommitDeactivate, clientVars
  <2>2. /\ TokensOf(request[r].user) \cap 1..upto \in SUBSET (1..issued)
        /\ \A t \in TokensOf(request[r].user) \cap 1..upto : tokens[t].user # u
    BY <2>1 DEF TokensOf
  <2> QED BY <2>1, <2>2, <1>g, <1>i, <1>n
<1>3. ASSUME NEW v \in Users, Logout(v) PROVE SessionIsSound(u)'
  <2>1. /\ jar[v] # 0 /\ UNCHANGED request /\ u \notin excused
        /\ jar' = [jar EXCEPT ![v] = 0]
        /\ tokens' = tokens \/ tokens' = Revoked(tokens, FamilyOf(jar[v]))
    BY <1>3 DEF Logout, historyVars
  <2>2. CASE v = u
    <3>1. jar'[u] = 0 /\ SessionIsSound(u)
      BY <2>1, <2>2, <1>t DEF SessionsAreSound
    <3> QED BY <2>1, <3>1 DEF SessionIsSound, Refreshes
  <2>3. CASE v # u
    <3>1. /\ FamilyOf(jar[v]) \in SUBSET (1..issued)
          /\ \A x \in FamilyOf(jar[v]) : tokens[x].user = v
      BY <2>1, <1>j, FamilyOfUser
    <3>2. Kept
      BY <2>1, <2>3, <3>1, <1>h, <1>i
    <3>3. NoNew
      BY <2>1 DEF NoNew, Refreshes
    <3>4. jar'[u] = jar[u]
      BY <2>1, <2>3, <1>t
    <3> QED BY <2>1, <3>2, <3>3, <3>4, <1>g
  <2> QED BY <2>2, <2>3
<1>4. ASSUME NEW r \in Requests, NEW v \in Users, SendRefresh(r, v) PROVE SessionIsSound(u)'
  <2>1. /\ UNCHANGED <<tokens, jar>> /\ u \notin excused /\ jar[v] # 0
        /\ request'[r] = [job |-> "present", user |-> v, token |-> jar[v]]
        /\ \A o \in Requests \ {r} : request'[o] = request[o]
        /\ v = u => ~Refreshing(u)
    BY <1>4, <1>t DEF SendRefresh, Start, tokenVars, clientVars
  <2>2. SessionIsSound(u)
    BY <2>1 DEF SessionsAreSound
  <2>3. CASE v = u
    <3>1. \A o \in Requests : Refreshes(o, u)' => o = r
      BY <2>1, <2>3 DEF Refreshing, Refreshes
    <3> QED BY <2>1, <2>2, <2>3, <3>1 DEF SessionIsSound
  <2>4. CASE v # u
    <3>1. NoNew
      BY <2>1, <2>4 DEF NoNew, Refreshes
    <3> QED BY <2>1, <3>1, <1>g, <1>h
  <2> QED BY <2>3, <2>4
<1>5. ASSUME NEW r \in Requests, NEW heard \in BOOLEAN, CommitRotate(r, heard)
      PROVE  SessionIsSound(u)'
  <2>1. /\ Done(r) /\ u \notin excused /\ request[r].job = "rotate"
        /\ Deliver(request[r].user, request[r].role, heard)
        /\ request[r].user = u => heard
        /\ Store(request[r].user, tokens[request[r].token].family,
                 tokens[request[r].token].revoked, Revoked(tokens, {request[r].token}))
    BY <1>5 DEF CommitRotate
  <2>2. /\ request[r].token \in TokenIds /\ request[r].token <= issued
        /\ tokens[request[r].token].user = request[r].user /\ request[r].user \in Users
    BY <2>1, <1>q
  <2>3. CASE request[r].user = u
    <3>1. Refreshes(r, u) /\ SessionIsSound(u)
      BY <2>1, <2>3 DEF SessionsAreSound, Refreshes
    <3>2. \A o \in Requests : ~Refreshes(o, u)'
      BY <3>1, <2>1, <1>d DEF SessionIsSound, Refreshes
    <3>3. jar'[u] = issued' /\ issued' # issued
      BY <2>1, <2>3, <1>t DEF Deliver, Store
    <3>4. ~tokens'[jar'[u]].revoked
      BY <3>3, TokenSteps
    <3> QED BY <3>2, <3>4 DEF SessionIsSound
  <2>4. CASE request[r].user # u
    <3>1. jar'[u] = jar[u]
      BY <2>1, <2>4, <1>t DEF Deliver, clientVars
    <3>2. Kept
      <4> SUFFICES ASSUME NEW t \in TokenIds, t <= issued, tokens[t].user = u
                   PROVE  tokens'[t].revoked = tokens[t].revoked
        BY DEF Kept
      <4>1. t # issued + 1 /\ t # request[r].token
        BY <2>2, <2>4, <1>t
      <4>2. tokens'[t] = Revoked(tokens, {request[r].token})[t]
        BY <2>1, <4>1 DEF Store, Revoked
      <4> QED BY <4>1, <4>2 DEF Revoked
    <3> QED BY <2>1, <3>1, <3>2, <1>g, <1>n
  <2> QED BY <2>3, <2>4
<1>6. ASSUME NEW r \in Requests, NEW heard \in BOOLEAN,
             CommitAccept(r, heard) \/ CommitLogin(r, heard)
      PROVE  SessionIsSound(u)'
  <2>1. /\ Done(r) /\ Deliver(request[r].user, request[r].role, heard)
        /\ Store(request[r].user, 0, FALSE, tokens)
        /\ \/ u \notin excused
           \/ heard /\ request[r].user = u /\ ~Refreshing(u)
        /\ request[r].job \in {"accept", "login"}
    BY <1>6 DEF CommitAccept, CommitLogin
  <2>2. request[r].user \in Users
    BY <2>1, RequestShapes DEF Typing, Idle
  <2>3. /\ issued' = issued + 1 /\ issued' \in TokenIds
        /\ tokens'[issued'].family = issued' /\ ~tokens'[issued'].revoked
        /\ \A t \in TokenIds : t # issued' => tokens'[t] = tokens[t]
    <3>1. 0 \in 0..MaxTokens
      BY <1>t
    <3>2. PICK v \in Users : v = request[r].user /\ Store(v, 0, FALSE, tokens)
      BY <2>1, <2>2
    <3>3. /\ issued' = issued + 1 /\ issued' \in TokenIds
          /\ tokens'[issued'] =
                 [user |-> v, family |-> issued', revoked |-> FALSE,
                  crossed |-> Leaving(v), forked |-> FALSE]
          /\ \A t \in TokenIds : t # issued' => tokens'[t] = tokens[t]
      BY <3>1, <3>2, <1>t, StoredToken
    <3> QED BY <3>3
  <2>4. Kept
    BY <2>3, <1>t DEF Kept
  <2>5. NoNew
    BY <2>1, <1>n
  <2>6. CASE heard /\ request[r].user = u
    <3>1. jar'[u] = issued'
      BY <2>1, <2>3, <2>6, <1>t DEF Deliver
    <3>2. \A x, y \in Requests : Refreshes(x, u)' /\ Refreshes(y, u)' => x = y
      <4>1. CASE u \notin excused
        BY <4>1, <2>5 DEF NoNew, SessionsAreSound, SessionIsSound, Refreshes
      <4>2. CASE ~Refreshing(u)
        BY <4>2, <2>5 DEF NoNew, Refreshing
      <4> QED BY <2>1, <4>1, <4>2
    <3>3. ASSUME NEW o \in Requests, Refreshes(o, u)'
          PROVE  tokens'[jar'[u]].family # tokens'[request'[o].token].family
      <4>1. /\ request[o].token \in TokenIds /\ request[o].token <= issued
            /\ request'[o].token = request[o].token
        BY <3>3, <2>5, <1>q DEF NoNew
      <4>2. tokens'[request[o].token] = tokens[request[o].token]
        BY <4>1, <2>3, <1>t
      <4>3. /\ tokens[request[o].token].family <= request[o].token
            /\ tokens[request[o].token] \in Token
        BY <4>1 DEF Typing, TypeOK, RowsExist
      <4> QED BY <3>1, <4>1, <4>2, <4>3, <2>3, <1>t DEF Token
    <3> QED BY <3>1, <3>2, <3>3, <2>3 DEF SessionIsSound
  <2>7. CASE ~(heard /\ request[r].user = u)
    <3>1. jar'[u] = jar[u]
      BY <2>1, <2>7, <1>t DEF Deliver, clientVars
    <3> QED BY <2>1, <2>4, <2>5, <2>7, <3>1, <1>g
  <2> QED BY <2>6, <2>7
<1>7. ASSUME UNCHANGED <<tokens, jar, excused>>, NoNew
      PROVE  SessionIsSound(u)'
  BY <1>7, <1>g, <1>h
<1>8. ASSUME NEW r \in Requests, BeginRotate(r) PROVE NoNew
  <2>1. /\ request[r].job = "present"
        /\ request'[r] = [job |-> "rotate", user |-> request[r].user,
                          token |-> request[r].token, role |-> users[request[r].user].role]
        /\ \A o \in Requests \ {r} : request'[o] = request[o]
    BY <1>8, <1>t DEF BeginRotate
  <2> QED BY <2>1 DEF NoNew, Refreshes
<1>9. ASSUME NEW r \in Requests, NEW v \in Users,
             \/ BeginAccept(r, v) \/ BeginLogin(r, v) \/ BeginDeactivate(r, v)
             \/ \E to \in Roles : BeginRole(r, v, to)
      PROVE  NoNew
  <2>1. /\ request'[r].job \notin {"present", "rotate"}
        /\ \A o \in Requests \ {r} : request'[o] = request[o]
    BY <1>9, <1>t DEF BeginAccept, BeginLogin, BeginDeactivate, BeginRole, Start
  <2> QED BY <2>1 DEF NoNew, Refreshes
<1>10. ASSUME UNCHANGED request PROVE NoNew
  BY <1>10 DEF NoNew, Refreshes
<1>11. CASE UNCHANGED <<tokens, jar, excused>>
  BY <1>1, <1>2, <1>3, <1>4, <1>5, <1>6, <1>7, <1>8, <1>9, <1>10, <1>11, <1>n
     DEF Next, vars, Invite, ConfirmMfa, RefuseRefresh, CommitRole, Reactivate, Abort
<1>12. CASE ~UNCHANGED <<tokens, jar, excused>>
  BY <1>1, <1>2, <1>3, <1>4, <1>5, <1>6, <1>12
     DEF Next, vars, tokenVars, clientVars, historyVars, Invite, BeginAccept, BeginLogin,
         ConfirmMfa, RefuseRefresh, BeginRotate, BeginRole, CommitRole, BeginDeactivate,
         Reactivate, Abort
<1> QED BY <1>11, <1>12

(* A browser's cookie has been revoked only for a cause: a deactivation,   *)
(* an answer lost, or two refreshes at once, however many requests of a    *)
(* user overlap (rotate_refresh_token and its reuse detection).            *)
THEOREM LoggedOutHolds == Spec => []LoggedOutForACause
<1>1. Init => SessionsAreSound
  BY DEF Init, SessionsAreSound, SessionIsSound, Refreshes, Idle
<1>2. Typing /\ SessionsAreSound /\ [Next]_vars => Typing' /\ SessionsAreSound'
  BY TypingHolds, SessionsStaySound
<1>3. SessionsAreSound => LoggedOutForACause
  BY DEF SessionsAreSound, SessionIsSound, LoggedOutForACause
<1> QED BY FirstTyping, <1>1, <1>2, <1>3, PTL DEF Spec
=============================================================================
