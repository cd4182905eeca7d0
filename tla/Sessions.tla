------------------------------ MODULE Sessions ------------------------------
(***************************************************************************)
(* Accounts and sessions (AuthService): signing up, signing in, trading a  *)
(* refresh token for a new session, changing the password, while           *)
(* administrators give and take roles and suspend the hotel.               *)
(*                                                                         *)
(* No request holds a transaction or a lock: each query and each access to *)
(* the cache is a step.  A session is the pair of tokens a request issues, *)
(* named after the request.  A token carries the roles of its user, and    *)
(* the cache remembers the refresh tokens that were traded in, as long as  *)
(* they would last; its errors are ignored.  It knows a token by the end   *)
(* of the text that was presented, and the texts of a token can end in     *)
(* more than one way, as the decoding of the signature is not strict.      *)
(* Nothing else remembers a session: signing out only clears cookies.      *)
(***************************************************************************)
EXTENDS Integers

CONSTANTS
    Account,
    Exempt,         \* accounts of no hotel, or of platform administrators
    Role, Guest,
    Secret,         \* passwords
    Call,           \* requests, and the sessions they issue
    Ending,         \* the last 32 characters of the texts that stand for one token
    RefreshTTL,     \* JWT_REFRESH_TTL
    None

ASSUME SessionsAssumption ==
    /\ Exempt \subseteq Account
    /\ Guest \in Role
    /\ RefreshTTL \in Nat \ {0}
    /\ None \notin Account \cup Call \cup Secret \cup [roles : SUBSET Role, life : 0..RefreshTTL]

VARIABLES
    users,              \* the accounts with a row in this table
    profiles,           \* the accounts that have had a row in this one: the table API
                        \* can delete rows of it, and users can save them again
    roles,              \* user_roles
    password,           \* password_hash
    active,             \* is_active of the hotel
    deny,               \* time left to the cache's entry for a text of a refresh token, 0 for none
    session,            \* [roles, life]: the claims of a session, time left to its refresh token
    call,               \* [op, user, token, given, new, at]: each request
    got,                \* the roles a request has read

    \* History variables: no guard reads them.
    traded,             \* texts of refresh tokens that were ever entered in the cache
    replays,            \* requests whose text was so when the cache answered them
    closed,             \* requests in whose time the hotel was always suspended
    taken,              \* roles of its session taken from its user since they were read
    raced               \* password changes overtaken by another one of the account

accounts == <<users, profiles, roles, password>>
history == <<traded, replays, closed, taken, raced>>
vars == <<accounts, active, deny, session, call, got, history>>

At == {"start", "profile", "role", "find", "hotel", "roles", "deny", "issue", "write", "done"}

\* What is presented for a new session: the session it is of, and the key of the cache.
Text == [of : Call, ending : Ending]

Request == [op : {"none", "signup", "signin", "refresh", "password"}, user : Account \cup {None},
            token : Text \cup {None}, given : Secret \cup {None}, new : Secret \cup {None}, at : At]

Session == [roles : SUBSET Role, life : 0..RefreshTTL]

TypeOK ==
    /\ users \subseteq Account /\ profiles \subseteq Account
    /\ roles \in [Account -> SUBSET Role]
    /\ password \in [Account -> Secret]
    /\ active \in BOOLEAN
    /\ deny \in [Text -> 0..RefreshTTL]
    /\ session \in [Call -> Session \cup {None}]
    /\ call \in [Call -> Request]
    /\ got \in [Call -> SUBSET Role]
    /\ traded \subseteq Text /\ replays \subseteq Call /\ closed \subseteq Call /\ raced \subseteq Call
    /\ taken \in [Call -> SUBSET Role]

Blank == [op |-> "none", user |-> None, token |-> None, given |-> None, new |-> None, at |-> "start"]

\* Some accounts were made before; those of staff may have any roles.
Init ==
    /\ users \in SUBSET Account /\ profiles = users
    /\ roles \in [Account -> SUBSET Role] /\ \A u \in Account \ users : roles[u] = {}
    /\ password \in [Account -> Secret]
    /\ active \in BOOLEAN
    /\ deny = [t \in Text |-> 0]
    /\ session = [c \in Call |-> None]
    /\ call = [c \in Call |-> Blank]
    /\ got = [c \in Call |-> {}]
    /\ traded = {} /\ replays = {} /\ closed = {} /\ raced = {}
    /\ taken = [c \in Call |-> {}]

-----------------------------------------------------------------------------

Begin(c, request) ==
    /\ call[c].at = "start"
    /\ call' = [call EXCEPT ![c] = request]
    /\ closed' = IF active THEN closed ELSE closed \cup {c}

Goto(c, op, from, to) ==
    /\ call[c].op = op /\ call[c].at = from
    /\ call' = [call EXCEPT ![c].at = to]

\* A request that is answered leaves nothing but its session.
Finish(c, op, user) ==
    /\ call' = [call EXCEPT ![c] = [Blank EXCEPT !.op = op, !.user = user, !.at = "done"]]
    /\ got' = [got EXCEPT ![c] = {}]
    /\ closed' = closed \ {c}

\* Any error return: not found, not valid, suspended, or the database fails.
Fails(c) ==
    /\ call[c].at # "done"
    /\ Finish(c, "none", None)
    /\ taken' = [taken EXCEPT ![c] = {}]
    /\ replays' = replays \ {c} /\ raced' = raced \ {c}
    /\ UNCHANGED <<accounts, active, deny, session, traded>>

-----------------------------------------------------------------------------
(* SignUp: three INSERTs, and a session of a guest.  No look at the hotel. *)

\* Mutant: the INSERT of a user is an upsert.
InsertUserOrUpdate(c) ==
    \E u \in Account, p \in Secret :
        /\ Begin(c, [op |-> "signup", user |-> u, token |-> None, given |-> None, new |-> None,
                     at |-> "profile"])
        /\ users' = users \cup {u}
        /\ password' = [password EXCEPT ![u] = p]
        /\ UNCHANGED <<profiles, roles, active, deny, session, got, traded, replays, taken, raced>>

\* The email is unique.
InsertUser(c) ==
    \E u \in Account \ users, p \in Secret :
        /\ Begin(c, [op |-> "signup", user |-> u, token |-> None, given |-> None, new |-> None,
                     at |-> "profile"])
        /\ users' = users \cup {u}
        /\ password' = [password EXCEPT ![u] = p]
        /\ UNCHANGED <<profiles, roles, active, deny, session, got, traded, replays, taken, raced>>

\* One profile per account; one that was saved meanwhile may be gone again.
InsertProfile(c) ==
    /\ Goto(c, "signup", "profile", "role")
    /\ profiles' = profiles \cup {call[c].user}
    /\ UNCHANGED <<users, roles, password, active, deny, session, got, history>>

InsertRole(c) ==
    /\ Goto(c, "signup", "role", "issue")
    /\ roles' = [roles EXCEPT ![call[c].user] = @ \cup {Guest}]
    /\ got' = [got EXCEPT ![c] = {Guest}]
    /\ UNCHANGED <<users, profiles, password, active, deny, session, history>>

-----------------------------------------------------------------------------
(* SignIn and RefreshSession.                                              *)

CheckPassword(c) ==
    \E u \in users :
        /\ Begin(c, [op |-> "signin", user |-> u, token |-> None, given |-> None,
                     new |-> None, at |-> "hotel"])
        /\ UNCHANGED <<accounts, active, deny, session, got, traded, replays, taken, raced>>

\* The cache says whether the token has been traded in under this text; if it fails, that
\* is a no.
CheckToken(c) ==
    \E t \in Text :
        /\ session[t.of] # None
        /\ Begin(c, [op |-> "refresh", user |-> call[t.of].user, token |-> t, given |-> None,
                     new |-> None, at |-> "find"])
        /\ \/ /\ deny[t] = 0
              /\ replays' = IF t \in traded THEN replays \cup {c} ELSE replays
           \/ UNCHANGED replays
        /\ UNCHANGED <<accounts, active, deny, session, got, traded, taken, raced>>

\* The token is parsed, the user found: users are never deleted.
FindUser(c) ==
    /\ Goto(c, "refresh", "find", "hotel")
    /\ session[call[c].token.of].life > 0
    /\ UNCHANGED <<accounts, active, deny, session, got, history>>

\* Mutant: the hotel is looked at when signing in only.
EnsureActiveAtSignIn(c) ==
    /\ call[c].at = "hotel"
    /\ call[c].op = "refresh" \/ call[c].user \in Exempt \/ active
    /\ call' = [call EXCEPT ![c].at = "roles"]
    /\ UNCHANGED <<accounts, active, deny, session, got, history>>

EnsureActive(c) ==
    /\ call[c].at = "hotel"
    /\ call[c].user \in Exempt \/ active
    /\ call' = [call EXCEPT ![c].at = "roles"]
    /\ UNCHANGED <<accounts, active, deny, session, got, history>>

AfterRoles(c) == IF call[c].op = "signin" THEN "issue" ELSE "deny"

\* Mutant: a new session has the roles of the old one.
ReadRolesOfToken(c) ==
    /\ call[c].at = "roles"
    /\ call' = [call EXCEPT ![c].at = AfterRoles(c)]
    /\ got' = [got EXCEPT ![c] =
           IF call[c].op = "signin" THEN roles[call[c].user] ELSE session[call[c].token.of].roles]
    /\ UNCHANGED <<accounts, active, deny, session, history>>

\* Mutant: whoever signs in while the roles cannot be read has a role that does not exist.
ReadRolesUndefined(c) ==
    /\ call[c].at = "roles"
    /\ call' = [call EXCEPT ![c].at = AfterRoles(c)]
    /\ \E read \in {roles[call[c].user], IF call[c].op = "signin" THEN {None} ELSE {}} :
         got' = [got EXCEPT ![c] = read]
    /\ UNCHANGED <<accounts, active, deny, session, history>>

\* If the query fails, whoever signs in is a guest and whoever refreshes has no role.
ReadRoles(c) ==
    /\ call[c].at = "roles"
    /\ call' = [call EXCEPT ![c].at = AfterRoles(c)]
    /\ \E read \in {roles[call[c].user], IF call[c].op = "signin" THEN {Guest} ELSE {}} :
         got' = [got EXCEPT ![c] = read]
    /\ UNCHANGED <<accounts, active, deny, session, history>>

\* Mutant: the entry does not last as long as the token may.
DenyTokenBriefly(c) ==
    /\ Goto(c, "refresh", "deny", "issue")
    /\ deny' = [deny EXCEPT ![call[c].token] = RefreshTTL - 1]
    /\ traded' = traded \cup {call[c].token}
    /\ UNCHANGED <<accounts, active, session, got, replays, closed, taken, raced>>

\* The cache may fail to enter it, and nobody notices.
DenyToken(c) ==
    /\ Goto(c, "refresh", "deny", "issue")
    /\ \/ /\ deny' = [deny EXCEPT ![call[c].token] = RefreshTTL]
          /\ traded' = traded \cup {call[c].token}
       \/ UNCHANGED <<deny, traded>>
    /\ UNCHANGED <<accounts, active, session, got, replays, closed, taken, raced>>

\* buildSession.
Issue(c) ==
    /\ call[c].at = "issue"
    /\ Finish(c, call[c].op, call[c].user)
    /\ session' = [session EXCEPT ![c] = [roles |-> got[c], life |-> RefreshTTL]]
    /\ UNCHANGED <<accounts, active, deny, traded, replays, taken, raced>>

-----------------------------------------------------------------------------
(* UpdatePasswordWithCurrent: the password is read, compared and replaced. *)

\* Mutant: the password is replaced without the current one, as UpdatePassword does.
ReadPasswordUnchecked(c) ==
    \E u \in users, p, q \in Secret :
        /\ Begin(c, [op |-> "password", user |-> u, token |-> None, given |-> p, new |-> q,
                     at |-> "write"])
        /\ UNCHANGED <<accounts, active, deny, session, got, traded, replays, taken, raced>>

ReadPassword(c) ==
    \E u \in users, p, q \in Secret :
        /\ password[u] = p
        /\ Begin(c, [op |-> "password", user |-> u, token |-> None, given |-> p, new |-> q,
                     at |-> "write"])
        /\ UNCHANGED <<accounts, active, deny, session, got, traded, replays, taken, raced>>

Changing(u) == {c \in Call : call[c].op = "password" /\ call[c].at = "write" /\ call[c].user = u}

WritePassword(c) ==
    LET u == call[c].user
    IN  /\ call[c].op = "password" /\ call[c].at = "write"
        /\ Finish(c, "none", None)
        /\ taken' = [taken EXCEPT ![c] = {}]
        /\ password' = [password EXCEPT ![u] = call[c].new]
        /\ raced' = (raced \cup Changing(u)) \ {c}
        /\ UNCHANGED <<users, profiles, roles, active, deny, session, traded, replays>>

-----------------------------------------------------------------------------
(* Administrators, guests who edit their profile, and time.                *)

\* insertProfile of the table API, an upsert.
SaveProfile(u) ==
    /\ u \in users
    /\ profiles' = profiles \cup {u}
    /\ UNCHANGED <<users, roles, password, active, deny, session, call, got, history>>

AddRole(u, r) ==
    /\ u \in users
    /\ roles' = [roles EXCEPT ![u] = @ \cup {r}]
    /\ UNCHANGED <<users, profiles, password, active, deny, session, call, got, history>>

\* The roles of the session a request has issued or is to issue.
Claims(c) == IF session[c] = None THEN got[c] ELSE session[c].roles

RemoveRole(u, r) ==
    /\ roles' = [roles EXCEPT ![u] = @ \ {r}]
    /\ taken' = [c \in Call |->
           IF call[c].user = u THEN taken[c] \cup ({r} \cap Claims(c)) ELSE taken[c]]
    /\ UNCHANGED <<users, profiles, password, active, deny, session, call, got, traded, replays,
                   closed, raced>>

\* UpdateTenantPlan suspends the hotel, or puts it back into service.
SetActive(b) ==
    /\ active' = b
    /\ closed' = IF b THEN {} ELSE closed
    /\ UNCHANGED <<accounts, deny, session, call, got, traded, replays, taken, raced>>

Less(n) == IF n = 0 THEN 0 ELSE n - 1

Tick ==
    /\ deny' = [t \in Text |-> Less(deny[t])]
    /\ session' = [c \in Call |->
           IF session[c] = None THEN None ELSE [session[c] EXCEPT !.life = Less(@)]]
    /\ UNCHANGED <<accounts, active, call, got, history>>

Serve(c) ==
    \/ Fails(c) \/ InsertUser(c) \/ InsertProfile(c) \/ InsertRole(c)
    \/ CheckPassword(c) \/ CheckToken(c) \/ FindUser(c) \/ EnsureActive(c) \/ ReadRoles(c)
    \/ DenyToken(c) \/ Issue(c) \/ ReadPassword(c) \/ WritePassword(c)

Next ==
    \/ \E c \in Call : Serve(c)
    \/ \E u \in Account, r \in Role : AddRole(u, r) \/ RemoveRole(u, r)
    \/ \E u \in Account : SaveProfile(u)
    \/ \E b \in BOOLEAN : SetActive(b)
    \/ Tick

Spec == Init /\ [][Next]_vars

-----------------------------------------------------------------------------
(* Properties.                                                             *)

\* The text of a refresh token is good for one session: once it has been entered in the
\* cache, no later request that presents it and that the cache answers gets a session for
\* it, not even when the entry has lapsed.  Two requests that overlap can both have one,
\* and so can one that finds the cache out of order; and of another text that ends
\* differently the cache knows nothing, though it be of the same token.
TradedOnce == \A c \in Call : session[c] # None => c \notin replays

\* A role that was taken away is in no session that was asked for later, through any
\* number of refreshes; only one who signs in while the roles cannot be read is a guest.
RolesFade ==
    \A c \in Call : session[c] # None =>
        \A r \in session[c].roles \ taken[c] :
            r \in roles[call[c].user] \/ (r = Guest /\ call[c].op = "signin")

\* While the hotel is suspended nobody of the hotel signs in, and no session is renewed,
\* unless the request was there before; only signing up is not prevented.
SuspendedStayOut ==
    [][\A c \in Call :
         session[c] = None /\ session'[c] # None
             => c \notin closed \/ call[c].user \in Exempt \/ call[c].op = "signup"]_vars

\* Of the requests to sign up with one email at most one gets a session, and then
\* the account has got its profile.
SignedUpOnce ==
    \A c, d \in Call :
        /\ session[c] # None /\ call[c].op = "signup"
        /\ call[d].op = "signup" /\ call[d].user = call[c].user
        => c = d /\ call[c].user \in users \cap profiles

\* A password is replaced by one who gave it, or by one it overtook.
PasswordKnown ==
    [][\A u \in users : password'[u] # password[u] =>
         \E c \in Changing(u) : call[c].given = password[u] \/ c \in raced]_vars

=============================================================================
