------------------------------- MODULE Accounts -------------------------------
(***************************************************************************)
(* Users, their roles and invitations, and the refresh tokens that keep    *)
(* them logged in.  Requests run at READ COMMITTED and lock nothing they   *)
(* read: a request that decides by what it has read and writes later is    *)
(* two steps, and what it read can be out of date by the second.  The ORM  *)
(* writes a column only if its value differs from the one loaded.          *)
(*                                                                         *)
(* A browser keeps one refresh token per user in its cookie jar and sends  *)
(* it along with every refresh; its tabs share the jar.  Passwords, codes  *)
(* and tokens are right or absent.  Tokens expire: a refresh token may be  *)
(* refused at any time, and an access token that has expired only takes    *)
(* something away, which never is what a step of the model needs.          *)
(***************************************************************************)
EXTENDS Naturals, FiniteSets

CONSTANTS
    None,
    Users,         \* e-mail addresses that have, or may get, an account
    Founders,      \* owners there are at the start
    Roles,         \* of the roles OWNER, ACCOUNTANT, BUYER, those in use
    MfaEnforced,   \* mfa_enforcement_enabled
    Requests,      \* requests the server can have in flight
    MaxTokens,     \* bound: refresh tokens issued
    MaxChanges     \* bound: administrative requests made

Privileged == {"OWNER", "ACCOUNTANT"}

ASSUME AccountsAssumption ==
    /\ Founders \subseteq Users /\ Founders # {}
    /\ Roles \subseteq {"OWNER", "ACCOUNTANT", "BUYER"} /\ "OWNER" \in Roles
    /\ MfaEnforced \in BOOLEAN
    /\ MaxTokens \in Nat /\ MaxChanges \in Nat
    /\ None \notin Roles

VARIABLES
    users,      \* users and user_roles
    tokens,     \* refresh_tokens, in order of issue
    issued,     \* how many there are
    access,     \* the role in the last access token each user got, or None
    jar,        \* the refresh token each user's browser holds, or 0
    request,    \* what each request has read
    changes,    \* administrative requests made so far
    raced,      \* history: removals of owners have overlapped
    revived,    \* history: users reactivated without ever having accepted
    promoted,   \* history: users given a role that needs MFA later on
    excused     \* history: users whose session may have ended for a cause

tokenVars == <<tokens, issued>>
clientVars == <<access, jar>>
historyVars == <<raced, revived, promoted, excused>>
vars == <<users, tokenVars, clientVars, request, changes, historyVars>>

-----------------------------------------------------------------------------

TokenIds == 1..MaxTokens
Statuses == {"PENDING", "ACTIVE", "DEACTIVATED"}

User ==
    [status : Statuses, role : Roles, password : BOOLEAN,
     secret : BOOLEAN, enrolled : BOOLEAN]

(* Two fields are history.  crossed: when the token was stored, the user   *)
(* had been deactivated or a request to do so was under way.  forked: the  *)
(* token it was rotated from had been revoked by then.                     *)
Token ==
    [user : Users, family : TokenIds, revoked : BOOLEAN,
     crossed : BOOLEAN, forked : BOOLEAN]

Idle == [job |-> "idle"]

Request ==
    [job : {"accept", "login"}, user : Users, role : Roles]
    \cup [job : {"role"}, user : Users, role : Roles, to : Roles]
    \cup [job : {"deactivate"}, user : Users, status : Statuses, issued : 0..MaxTokens]
    \cup [job : {"present"}, user : Users, token : TokenIds]
    \cup [job : {"rotate"}, user : Users, token : TokenIds, role : Roles]

ASSUME NullAssumption == None \notin User \cup Token

TypeOK ==
    /\ users \in [Users -> User \cup {None}]
    /\ issued \in 0..MaxTokens
    /\ tokens \in [TokenIds -> Token \cup {None}]
    /\ access \in [Users -> Roles \cup {None}]
    /\ jar \in [Users -> 0..MaxTokens]
    /\ request \in [Requests -> {Idle} \cup Request]
    /\ changes \in 0..MaxChanges
    /\ raced \in BOOLEAN
    /\ revived \subseteq Users /\ promoted \subseteq Users /\ excused \subseteq Users

Init ==
    /\ users = [u \in Users |->
           IF u \in Founders
           THEN [status |-> "ACTIVE", role |-> "OWNER", password |-> TRUE,
                 secret |-> TRUE, enrolled |-> TRUE]
           ELSE None]
    /\ issued = 0
    /\ tokens = [t \in TokenIds |-> None]
    /\ access = [u \in Users |-> None]
    /\ jar = [u \in Users |-> 0]
    /\ request = [r \in Requests |-> Idle]
    /\ changes = 0
    /\ raced = FALSE
    /\ revived = {} /\ promoted = {} /\ excused = {}

-----------------------------------------------------------------------------

Exists(u) == users[u] # None
IsOwner(u) == Exists(u) /\ users[u].role = "OWNER"

(* Someone acts as an owner: by the role in an access token, whatever the  *)
(* table says by now.                                                      *)
AnOwnerActs == \E a \in Users : access[a] = "OWNER"

Administer ==
    /\ AnOwnerActs
    /\ changes < MaxChanges
    /\ changes' = changes + 1

(* A mutant of RemainingOwners: the user in question counts too.           *)
AllOwners(u) == {o \in Users : IsOwner(o) /\ users[o].status # "DEACTIVATED"}

(* The owners other than u, those with a pending invitation included.      *)
RemainingOwners(u) ==
    {o \in Users \ {u} : IsOwner(o) /\ users[o].status # "DEACTIVATED"}

(* A mutant of NewUser: somebody invited can log in at once.               *)
NewUserActive(role) ==
    [status |-> "ACTIVE", role |-> role, password |-> FALSE,
     secret |-> FALSE, enrolled |-> FALSE]

(* A mutant of NewUser: the row of user_roles is forgotten.                *)
NewUserWithoutRole(role) ==
    [status |-> "PENDING", role |-> None, password |-> FALSE,
     secret |-> FALSE, enrolled |-> FALSE]

NewUser(role) ==
    [status |-> "PENDING", role |-> role, password |-> FALSE,
     secret |-> FALSE, enrolled |-> FALSE]

Invite(u, role) ==
    /\ Administer
    /\ ~Exists(u)
    /\ users' = [users EXCEPT ![u] = NewUser(role)]
    /\ UNCHANGED <<tokenVars, clientVars, request, historyVars>>

Start(r, what) ==
    /\ request[r] = Idle
    /\ request' = [request EXCEPT ![r] = what]

Done(r) == request' = [request EXCEPT ![r] = Idle]

-----------------------------------------------------------------------------
(* Sessions.                                                               *)

(* u has been deactivated, or is about to be.                              *)
Leaving(u) ==
    \/ users[u].status = "DEACTIVATED"
    \/ \E r \in Requests : request[r].job = "deactivate" /\ request[r].user = u

(* A refresh of u is under way. *)
Refreshing(u) ==
    \E r \in Requests : request[r].job \in {"present", "rotate"} /\ request[r].user = u

(* A token stored for u; one of a new family is its own family.            *)
Store(u, family, forked, before) ==
    /\ issued < MaxTokens
    /\ issued' = issued + 1
    /\ tokens' = [before EXCEPT ![issued + 1] =
           [user |-> u, family |-> IF family = 0 THEN issued + 1 ELSE family,
            revoked |-> FALSE, crossed |-> Leaving(u), forked |-> forked]]

(* The browser gets the pair of tokens, unless the answer is lost.         *)
Deliver(u, role, heard) ==
    IF heard
    THEN /\ access' = [access EXCEPT ![u] = role]
         /\ jar' = [jar EXCEPT ![u] = issued + 1]
    ELSE UNCHANGED clientVars

Revoked(ts, S) == [t \in TokenIds |-> IF t \in S THEN [ts[t] EXCEPT !.revoked = TRUE]
                                      ELSE ts[t]]

FamilyOf(t) == {x \in 1..issued : tokens[x].family = tokens[t].family}
TokensOf(u) == {x \in 1..issued : tokens[x].user = u}

(* accept_invite up to the password check: the invitation is still open.   *)
BeginAccept(r, u) ==
    /\ Exists(u)
    /\ users[u].status = "PENDING"
    /\ Start(r, [job |-> "accept", user |-> u, role |-> users[u].role])
    /\ UNCHANGED <<changes, users, tokenVars, clientVars, historyVars>>

(* A mutant of Accepted: the TOTP secret is left for later.                *)
AcceptedWithoutSecret(user, role) ==
    [user EXCEPT !.password = TRUE, !.status = "ACTIVE"]

(* The user as accepted: a role that needs MFA gets a secret, to be        *)
(* confirmed.  enrolled was FALSE when loaded, so it is not written.       *)
Accepted(user, role) ==
    [user EXCEPT !.password = TRUE, !.status = "ACTIVE",
                 !.secret = @ \/ role \in Privileged]

(* Accepting logs in.                                                      *)
CommitAccept(r, heard) ==
    LET q == request[r]
    IN  /\ q.job = "accept"
        /\ Store(q.user, 0, FALSE, tokens)
        /\ users' = [users EXCEPT ![q.user] = Accepted(@, q.role)]
        /\ Deliver(q.user, q.role, heard)
        /\ Done(r)
        /\ excused' = IF heard /\ ~Refreshing(q.user) THEN excused \ {q.user} ELSE excused
        /\ UNCHANGED <<changes, raced, revived, promoted>>

(* authenticate: password, status and, for a privileged role, MFA.         *)
MayLogIn(u) ==
    /\ Exists(u)
    /\ users[u].password
    /\ users[u].status = "ACTIVE"
    /\ MfaEnforced /\ users[u].role \in Privileged => users[u].enrolled

BeginLogin(r, u) ==
    /\ MayLogIn(u)
    /\ Start(r, [job |-> "login", user |-> u, role |-> users[u].role])
    /\ UNCHANGED <<changes, users, tokenVars, clientVars, historyVars>>

CommitLogin(r, heard) ==
    LET q == request[r]
    IN  /\ q.job = "login"
        /\ Store(q.user, 0, FALSE, tokens)
        /\ Deliver(q.user, q.role, heard)
        /\ Done(r)
        /\ excused' = IF heard /\ ~Refreshing(q.user) THEN excused \ {q.user} ELSE excused
        /\ UNCHANGED <<changes, users, raced, revived, promoted>>

ConfirmMfa(u) ==
    /\ access[u] # None
    /\ users[u].secret
    /\ users' = [users EXCEPT ![u].enrolled = TRUE]
    /\ UNCHANGED <<changes, tokenVars, clientVars, request, historyVars>>

(* A tab sends the cookie of the jar.  Another tab may have done the same. *)
SendRefresh(r, u) ==
    /\ jar[u] # 0
    /\ Start(r, [job |-> "present", user |-> u, token |-> jar[u]])
    /\ excused' = IF Refreshing(u) THEN excused \cup {u} ELSE excused
    /\ UNCHANGED <<changes, users, tokenVars, clientVars, raced, revived, promoted>>

(* The token has been revoked: the whole family is, and that is committed  *)
(* before the request is refused.                                          *)
RefuseReuse(r) ==
    LET q == request[r]
    IN  /\ q.job = "present"
        /\ tokens[q.token].revoked
        /\ tokens' = Revoked(tokens, FamilyOf(q.token))
        /\ Done(r)
        /\ UNCHANGED <<changes, users, issued, clientVars, historyVars>>

(* The token has expired, or the user is not active.                       *)
RefuseRefresh(r) ==
    LET q == request[r]
    IN  /\ q.job = "present"
        /\ ~tokens[q.token].revoked
        /\ Done(r)
        /\ UNCHANGED <<changes, users, tokenVars, clientVars, historyVars>>

BeginRotate(r) ==
    LET q == request[r]
    IN  /\ q.job = "present"
        /\ ~tokens[q.token].revoked
        /\ users[q.user].status = "ACTIVE"
        /\ request' = [request EXCEPT ![r] =
               [job |-> "rotate", user |-> q.user, token |-> q.token,
                role |-> users[q.user].role]]
        /\ UNCHANGED <<changes, users, tokenVars, clientVars, historyVars>>

(* Mutants of CommitRotate: the old token stays valid; the browser keeps   *)
(* the old cookie.                                                         *)
CommitRotateKeeping(r, heard) ==
    LET q == request[r]
    IN  /\ q.job = "rotate"
        /\ Store(q.user, tokens[q.token].family, tokens[q.token].revoked, tokens)
        /\ Deliver(q.user, q.role, heard)
        /\ Done(r)
        /\ excused' = IF heard THEN excused ELSE excused \cup {q.user}
        /\ UNCHANGED <<changes, users, raced, revived, promoted>>

CommitRotateSilently(r, heard) ==
    LET q == request[r]
    IN  /\ q.job = "rotate"
        /\ Store(q.user, tokens[q.token].family, tokens[q.token].revoked,
                 Revoked(tokens, {q.token}))
        /\ access' = [access EXCEPT ![q.user] = q.role]
        /\ Done(r)
        /\ excused' = IF heard THEN excused ELSE excused \cup {q.user}
        /\ UNCHANGED <<changes, users, jar, raced, revived, promoted>>

(* The successor is stored in the family and the old token marked          *)
(* replaced, whatever has become of it meanwhile.                          *)
CommitRotate(r, heard) ==
    LET q == request[r]
    IN  /\ q.job = "rotate"
        /\ Store(q.user, tokens[q.token].family, tokens[q.token].revoked,
                 Revoked(tokens, {q.token}))
        /\ Deliver(q.user, q.role, heard)
        /\ Done(r)
        /\ excused' = IF heard THEN excused ELSE excused \cup {q.user}
        /\ UNCHANGED <<changes, users, raced, revived, promoted>>

Logout(u) ==
    /\ jar[u] # 0
    /\ tokens' = IF tokens[jar[u]].revoked THEN tokens
                 ELSE Revoked(tokens, FamilyOf(jar[u]))
    /\ jar' = [jar EXCEPT ![u] = 0]
    /\ UNCHANGED <<changes, users, issued, access, request, historyVars>>

-----------------------------------------------------------------------------
(* Administration.                                                         *)

(* Another request that may take an owner away is in flight.               *)
RemovalInFlight == \E o \in Requests : request[o].job \in {"role", "deactivate"}

BeginRole(r, u, to) ==
    /\ Administer
    /\ Exists(u)
    /\ users[u].role = "OWNER" /\ to # "OWNER" => RemainingOwners(u) # {}
    /\ Start(r, [job |-> "role", user |-> u, role |-> users[u].role, to |-> to])
    /\ raced' = (raced \/ RemovalInFlight)
    /\ UNCHANGED <<users, tokenVars, clientVars, revived, promoted, excused>>

CommitRole(r) ==
    LET q == request[r]
    IN  /\ q.job = "role"
        /\ users' = IF q.to = q.role THEN users
                    ELSE [users EXCEPT ![q.user].role = q.to]
        /\ promoted' = IF q.to \in Privileged \ {q.role}
                       THEN promoted \cup {q.user} ELSE promoted
        /\ Done(r)
        /\ UNCHANGED <<changes, tokenVars, clientVars, raced, revived, excused>>

BeginDeactivate(r, u) ==
    /\ Administer
    /\ Exists(u)
    /\ IsOwner(u) => RemainingOwners(u) # {}
    /\ Start(r, [job |-> "deactivate", user |-> u, status |-> users[u].status,
                 issued |-> issued])
    /\ raced' = (raced \/ RemovalInFlight)
    /\ UNCHANGED <<users, tokenVars, clientVars, revived, promoted, excused>>

(* A mutant of CommitDeactivate: the sessions go on.                       *)
CommitDeactivateOnly(r, upto) ==
    LET q == request[r]
    IN  /\ q.job = "deactivate"
        /\ upto = issued
        /\ users' = [users EXCEPT ![q.user].status = "DEACTIVATED"]
        /\ excused' = excused \cup {q.user}
        /\ Done(r)
        /\ UNCHANGED <<changes, tokenVars, clientVars, raced, revived, promoted>>

(* The status is flipped, unless it was loaded as it should be, and the    *)
(* sessions are revoked that were stored when the UPDATE of refresh_tokens *)
(* ran, some time since the request began.                                 *)
CommitDeactivate(r, upto) ==
    LET q == request[r]
    IN  /\ q.job = "deactivate"
        /\ upto \in q.issued..issued
        /\ users' = IF q.status = "DEACTIVATED" THEN users
                    ELSE [users EXCEPT ![q.user].status = "DEACTIVATED"]
        /\ tokens' = Revoked(tokens, TokensOf(q.user) \cap 1..upto)
        /\ excused' = excused \cup {q.user}
        /\ Done(r)
        /\ UNCHANGED <<changes, issued, clientVars, raced, revived, promoted>>

Reactivate(u) ==
    /\ Administer
    /\ Exists(u)
    /\ users[u].status = "DEACTIVATED"
    /\ users' = [users EXCEPT ![u].status = "ACTIVE"]
    /\ revived' = IF users[u].password THEN revived ELSE revived \cup {u}
    /\ UNCHANGED <<tokenVars, clientVars, request, raced, promoted, excused>>

(* A request ends without a trace.                                         *)
Abort(r) ==
    /\ request[r] # Idle
    /\ Done(r)
    /\ UNCHANGED <<changes, users, tokenVars, clientVars, historyVars>>

-----------------------------------------------------------------------------

Next ==
    \/ \E u \in Users, role \in Roles : Invite(u, role)
    \/ \E r \in Requests, u \in Users : BeginAccept(r, u)
    \/ \E r \in Requests, heard \in BOOLEAN : CommitAccept(r, heard)
    \/ \E r \in Requests, u \in Users : BeginLogin(r, u)
    \/ \E r \in Requests, heard \in BOOLEAN : CommitLogin(r, heard)
    \/ \E u \in Users : ConfirmMfa(u)
    \/ \E r \in Requests, u \in Users : SendRefresh(r, u)
    \/ \E r \in Requests : RefuseReuse(r)
    \/ \E r \in Requests : RefuseRefresh(r)
    \/ \E r \in Requests : BeginRotate(r)
    \/ \E r \in Requests, heard \in BOOLEAN : CommitRotate(r, heard)
    \/ \E u \in Users : Logout(u)
    \/ \E r \in Requests, u \in Users, to \in Roles : BeginRole(r, u, to)
    \/ \E r \in Requests : CommitRole(r)
    \/ \E r \in Requests, u \in Users : BeginDeactivate(r, u)
    \/ \E r \in Requests, upto \in 0..MaxTokens : CommitDeactivate(r, upto)
    \/ \E u \in Users : Reactivate(u)
    \/ \E r \in Requests : Abort(r)

Spec == Init /\ [][Next]_vars

-----------------------------------------------------------------------------
(* There is always an owner who is not deactivated, whoever acts by        *)
(* whatever access token, unless two requests that take roles or users     *)
(* away have overlapped (the last-owner guard of change_role and           *)
(* deactivate).                                                            *)
OwnerRemains ==
    raced \/ \E u \in Users : IsOwner(u) /\ users[u].status # "DEACTIVATED"

(* Rotation replaces: of the tokens of one family at most one is valid,    *)
(* unless one was rotated after it had been revoked, by a request that     *)
(* read it before (rotate_refresh_token).                                  *)
OneValidTokenPerFamily ==
    \A s, t \in 1..issued :
        (/\ s < t
         /\ tokens[s].family = tokens[t].family
         /\ ~tokens[s].revoked /\ ~tokens[t].revoked)
        => \E x \in 1..issued : tokens[x].family = tokens[s].family /\ tokens[x].forked

(* A deactivated user has no valid refresh token, but for one stored by a  *)
(* login, refresh or acceptance that overlapped the deactivation           *)
(* (deactivate, revoke_all_for_user).                                      *)
DeactivationEndsSessions ==
    \A t \in 1..issued :
        (~tokens[t].revoked /\ users[tokens[t].user].status = "DEACTIVATED")
            => tokens[t].crossed

(* An active user has accepted an invitation and chosen a password, unless *)
(* deactivated and reactivated before doing so (reactivate).               *)
ActiveUsersAccepted ==
    \A u \in Users :
        (Exists(u) /\ users[u].status = "ACTIVE" /\ ~users[u].password)
            => u \in revived

(* Who has a privileged role and a password can enrol for MFA, having a    *)
(* secret, unless the role was given after the invitation: only accepting  *)
(* makes a secret (accept_invite, change_role).                            *)
EnrolmentIsPossible ==
    \A u \in Users :
        (Exists(u) /\ users[u].password /\ users[u].role \in Privileged)
            => users[u].secret \/ u \in promoted

(* The cookie a browser holds has not been revoked, unless the user was    *)
(* deactivated, an answer got lost or two tabs refreshed at once: nobody   *)
(* is logged out for nothing.                                              *)
LoggedOutForACause ==
    \A u \in Users :
        (jar[u] # 0 /\ tokens[jar[u]].revoked) => u \in excused
=============================================================================
