--------------------------- MODULE SessionsProofs ---------------------------
(* Theorems about Sessions, for any accounts, roles, requests and lifetimes. *)
EXTENDS Sessions, TLAPS

\* What a request has and where it is: it has a user once it has begun, no session before
\* it is done, and no roles before it has read them.
Stage ==
    \A c \in Call :
        /\ call[c].at = "start" => call[c] = Blank
        /\ session[c] # None => call[c].at = "done" /\ call[c].user \in Account
        /\ call[c].user = None => call[c].at \in {"start", "done"} /\ got[c] = {}
        /\ call[c].at \in {"start", "done", "hotel", "find", "write"} => got[c] = {}
        /\ call[c].at \in {"profile", "role"} => call[c].op = "signup"
        /\ call[c].at \in {"hotel", "roles"} => call[c].op \in {"signin", "refresh"}
        /\ call[c].at \in {"find", "deny"} => call[c].op = "refresh"
        /\ call[c].op = "refresh" /\ call[c].at # "done" =>
               call[c].token \in Text /\ session[call[c].token.of] # None
        /\ call[c].at = "write" => call[c].new \in Secret

\* The entry of a text that was traded in lasts at least as long as its token, and a
\* request that finds it gone finds the token expired.
Outlasted ==
    /\ \A t \in traded : session[t.of] # None /\ session[t.of].life <= deny[t]
    /\ \A c \in replays :
          /\ call[c].op = "refresh" /\ call[c].at = "find"
          /\ session[call[c].token.of].life = 0

\* The roles a request has read are those of its user, or were taken since.
RolesKnown ==
    \A c \in Call : \A r \in Claims(c) \ taken[c] :
        r \in roles[call[c].user] \/ (r = Guest /\ call[c].op = "signin")

\* A request that has found the hotel in service has it in service at some time.
ClosedOut ==
    /\ active => closed = {}
    /\ \A c \in closed :
          call[c].at \in {"roles", "deny", "issue"} /\ call[c].op # "signup" => call[c].user \in Exempt

\* Who signs up has inserted the account, and nobody else has.
SigningUp ==
    /\ \A c \in Call : call[c].op = "signup" =>
          /\ call[c].user \in users
          /\ call[c].at \in {"role", "issue", "done"} => call[c].user \in profiles
    /\ \A c, d \in Call :
          call[c].op = "signup" /\ call[d].op = "signup" /\ call[c].user = call[d].user => c = d

\* Who is about to replace a password gave it, unless it was replaced meanwhile.
PasswordGiven ==
    \A c \in Call : call[c].at = "write" =>
        /\ call[c].op = "password" /\ call[c].user \in users
        /\ c \in raced \/ call[c].given = password[call[c].user]

IInv == TypeOK /\ Stage /\ Outlasted /\ RolesKnown /\ ClosedOut /\ SigningUp /\ PasswordGiven

LEMMA InitInvariant == Init => IInv
<1> SUFFICES ASSUME Init PROVE IInv
  OBVIOUS
<1> USE SessionsAssumption DEF Init, Blank
<1>1. TypeOK
  BY DEF TypeOK, Request, At
<1>2. Stage /\ Outlasted /\ RolesKnown
  BY DEF Stage, Outlasted, RolesKnown, Claims
<1>3. ClosedOut /\ SigningUp /\ PasswordGiven
  BY DEF ClosedOut, SigningUp, PasswordGiven
<1> QED
  BY <1>1, <1>2, <1>3 DEF IInv

-----------------------------------------------------------------------------
(* What the steps do to the requests.                                      *)

\* The steps that begin a request.
Begins(c) == InsertUser(c) \/ CheckPassword(c) \/ CheckToken(c) \/ ReadPassword(c)

\* The steps that take it further.
Proceeds(c) ==
    InsertProfile(c) \/ InsertRole(c) \/ FindUser(c) \/ EnsureActive(c) \/ ReadRoles(c) \/ DenyToken(c)

\* The steps that end it.
Ends(c) == Fails(c) \/ Issue(c) \/ WritePassword(c)

\* A request begins with a user, in its first place.
LEMMA BeginStep ==
  ASSUME IInv, NEW c \in Call, Begins(c)
  PROVE  \E r \in Request :
           /\ call[c].at = "start" /\ call' = [call EXCEPT ![c] = r]
           /\ r.user \in Account
           /\ \/ r.op = "signup" /\ r.at = "profile"
              \/ r.op = "signin" /\ r.at = "hotel"
              \/ r.op = "refresh" /\ r.at = "find" /\ r.token \in Text /\ session[r.token.of] # None
              \/ r.op = "password" /\ r.at = "write" /\ r.new \in Secret
           /\ UNCHANGED <<session, got>>
<1>1. CASE InsertUser(c)
  <2>1. PICK u \in Account : Begin(c, [op |-> "signup", user |-> u, token |-> None, given |-> None,
                                     new |-> None, at |-> "profile"])
    BY <1>1 DEF InsertUser
  <2>2. UNCHANGED <<session, got>>
    BY <1>1 DEF InsertUser
  <2>3. [op |-> "signup", user |-> u, token |-> None, given |-> None, new |-> None, at |-> "profile"]
            \in Request
    BY DEF Request, At
  <2> QED
    BY <2>1, <2>2, <2>3 DEF Begin
<1>2. CASE CheckPassword(c)
  <2>1. PICK u \in users : Begin(c, [op |-> "signin", user |-> u, token |-> None, given |-> None,
                                    new |-> None, at |-> "hotel"])
    BY <1>2 DEF CheckPassword
  <2>2. UNCHANGED <<session, got>>
    BY <1>2 DEF CheckPassword
  <2>3. u \in Account
    BY DEF IInv, TypeOK
  <2>4. [op |-> "signin", user |-> u, token |-> None, given |-> None, new |-> None, at |-> "hotel"]
            \in Request
    BY <2>3 DEF Request, At
  <2> QED
    BY <2>1, <2>2, <2>3, <2>4 DEF Begin
<1>3. CASE CheckToken(c)
  <2>1. PICK t \in Text :
           /\ session[t.of] # None
           /\ Begin(c, [op |-> "refresh", user |-> call[t.of].user, token |-> t, given |-> None,
                        new |-> None, at |-> "find"])
    BY <1>3 DEF CheckToken
  <2>2. UNCHANGED <<session, got>>
    BY <1>3 DEF CheckToken
  <2>3. call[t.of].user \in Account
    BY <2>1 DEF IInv, Stage, Text
  <2>4. [op |-> "refresh", user |-> call[t.of].user, token |-> t, given |-> None, new |-> None,
         at |-> "find"] \in Request
    BY <2>3 DEF Request, At
  <2> QED
    BY <2>1, <2>2, <2>3, <2>4 DEF Begin
<1>4. CASE ReadPassword(c)
  <2>1. PICK u \in users, p \in Secret, q \in Secret :
           Begin(c, [op |-> "password", user |-> u, token |-> None, given |-> p, new |-> q,
                     at |-> "write"])
    BY <1>4 DEF ReadPassword
  <2>2. UNCHANGED <<session, got>>
    BY <1>4 DEF ReadPassword
  <2>3. u \in Account
    BY DEF IInv, TypeOK
  <2>4. [op |-> "password", user |-> u, token |-> None, given |-> p, new |-> q, at |-> "write"]
            \in Request
    BY <2>3 DEF Request, At
  <2> QED
    BY <2>1, <2>2, <2>3, <2>4 DEF Begin
<1> QED
  BY <1>1, <1>2, <1>3, <1>4 DEF Begins

\* A request under way goes from place to place.
LEMMA ProceedStep ==
  ASSUME IInv, NEW c \in Call, Proceeds(c)
  PROVE  \E to \in At :
           /\ call' = [call EXCEPT ![c].at = to]
           /\ call[c].user # None
           /\ \/ /\ call[c].op = "signup"
                 /\ <<call[c].at, to>> \in {<<"profile", "role">>, <<"role", "issue">>}
              \/ /\ call[c].op = "signin"
                 /\ <<call[c].at, to>> \in {<<"hotel", "roles">>, <<"roles", "issue">>}
              \/ /\ call[c].op = "refresh"
                 /\ <<call[c].at, to>> \in {<<"find", "hotel">>, <<"hotel", "roles">>,
                                            <<"roles", "deny">>, <<"deny", "issue">>}
           /\ call[c].at \notin {"role", "roles"} => got' = got
           /\ \A d \in Call : d # c => got'[d] = got[d]
           /\ session' = session
<1> USE DEF IInv, TypeOK, Stage, Goto, At
<1>1. CASE InsertProfile(c)
  BY <1>1 DEF InsertProfile
<1>2. CASE InsertRole(c)
  BY <1>2 DEF InsertRole
<1>3. CASE FindUser(c)
  BY <1>3 DEF FindUser
<1>4. CASE EnsureActive(c)
  BY <1>4 DEF EnsureActive
<1>5. CASE ReadRoles(c)
  BY <1>5 DEF ReadRoles, AfterRoles
<1>6. CASE DenyToken(c)
  BY <1>6 DEF DenyToken
<1> QED
  BY <1>1, <1>2, <1>3, <1>4, <1>5, <1>6 DEF Proceeds

\* A request that ends is blank again, but for whom its session is.
LEMMA EndStep ==
  ASSUME IInv, NEW c \in Call, Ends(c)
  PROVE  \E op \in {"none", call[c].op}, u \in {None, call[c].user} :
           /\ call[c].at # "done"
           /\ call' = [call EXCEPT ![c] = [Blank EXCEPT !.op = op, !.user = u, !.at = "done"]]
           /\ got' = [got EXCEPT ![c] = {}]
           /\ Issue(c) => op = call[c].op /\ u = call[c].user
           /\ ~Issue(c) => op = "none" /\ u = None /\ session' = session
BY DEF Ends, Fails, Issue, WritePassword, Finish

-----------------------------------------------------------------------------
(* The invariant is preserved.                                             *)

\* The steps that are not those of a request.
Around ==
    \/ \E u \in Account, r \in Role : AddRole(u, r) \/ RemoveRole(u, r)
    \/ \E u \in Account : SaveProfile(u)
    \/ \E b \in BOOLEAN : SetActive(b)
    \/ Tick
    \/ UNCHANGED vars

LEMMA Steps ==
  ASSUME [Next]_vars
  PROVE  (\E c \in Call : Begins(c) \/ Proceeds(c) \/ Ends(c)) \/ Around
BY DEF Next, Serve, Begins, Proceeds, Ends, Around

\* What the others leave alone: the requests, and whether a session was issued.
LEMMA AroundStep ==
  ASSUME IInv, Around
  PROVE  /\ UNCHANGED <<users, password, call, got, traded, replays, raced>>
         /\ profiles \subseteq profiles'
         /\ \A c \in Call : session'[c] = None <=> session[c] = None
         /\ \A c \in Call : session[c] # None => session'[c].roles = session[c].roles
<1>1. CASE Tick
  <2>1. ASSUME NEW c \in Call, session[c] # None
        PROVE  session'[c] # None /\ session'[c].roles = session[c].roles
    <3>1. session[c] \in Session
      BY <2>1 DEF IInv, TypeOK
    <3>2. session'[c] = [session[c] EXCEPT !.life = Less(session[c].life)]
      BY <1>1, <2>1 DEF Tick
    <3>3. session'[c] = [roles |-> session[c].roles, life |-> Less(session[c].life)]
      BY <3>1, <3>2 DEF Session
    <3>4. session'[c] \in [roles : SUBSET Role, life : 0..RefreshTTL]
      BY <3>1, <3>3, SessionsAssumption DEF Session, Less
    <3> QED
      BY <3>3, <3>4, SessionsAssumption
  <2>2. ASSUME NEW c \in Call, session[c] = None PROVE session'[c] = None
    BY <1>1, <2>2 DEF Tick
  <2> QED
    BY <1>1, <2>1, <2>2 DEF Tick, accounts, history
<1>2. CASE ~Tick
  BY <1>2 DEF Around, AddRole, RemoveRole, SetActive, SaveProfile, vars, accounts, history
<1> QED
  BY <1>1, <1>2

LEMMA TypePreserved == IInv /\ [Next]_vars => TypeOK'
<1> SUFFICES ASSUME IInv, [Next]_vars PROVE TypeOK'
  OBVIOUS
<1>1. call' \in [Call -> Request]
  <2>1. call \in [Call -> Request]
    BY DEF IInv, TypeOK
  <2>2. ASSUME NEW c \in Call, Begins(c) PROVE call' \in [Call -> Request]
    BY <2>1, <2>2, BeginStep
  <2>3. ASSUME NEW c \in Call, Proceeds(c) PROVE call' \in [Call -> Request]
    <3>1. PICK to \in At : call' = [call EXCEPT ![c].at = to]
      BY <2>3, ProceedStep
    <3> QED
      BY <2>1, <3>1 DEF Request
  <2>4. ASSUME NEW c \in Call, Ends(c) PROVE call' \in [Call -> Request]
    <3>1. PICK op \in {"none", call[c].op}, u \in {None, call[c].user} :
             call' = [call EXCEPT ![c] = [Blank EXCEPT !.op = op, !.user = u, !.at = "done"]]
      BY <2>4, EndStep
    <3>2. [Blank EXCEPT !.op = op, !.user = u, !.at = "done"] \in Request
      BY <2>1 DEF Blank, Request, At
    <3> QED
      BY <2>1, <3>1, <3>2
  <2>5. CASE Around
    BY <2>1, <2>5, AroundStep
  <2> QED
    BY <2>2, <2>3, <2>4, <2>5, Steps
<1>2. users' \subseteq Account /\ profiles' \subseteq Account /\ active' \in BOOLEAN
  <2> USE DEF IInv, TypeOK
  <2>1. ASSUME NEW c \in Call, InsertProfile(c) PROVE profiles' \subseteq Account
    BY <2>1 DEF InsertProfile, Goto, SigningUp
  <2> QED
    BY <2>1
       DEF Next, Serve, vars, accounts, Fails, InsertUser, InsertProfile, InsertRole, CheckPassword,
           CheckToken, FindUser, EnsureActive, ReadRoles, DenyToken, Issue, ReadPassword,
           WritePassword, AddRole, RemoveRole, SetActive, SaveProfile, Tick
<1>3. /\ roles' \in [Account -> SUBSET Role] /\ password' \in [Account -> Secret]
  <2> USE SessionsAssumption DEF IInv, TypeOK
  <2>1. ASSUME NEW c \in Call, WritePassword(c) PROVE password' \in [Account -> Secret]
    BY <2>1 DEF WritePassword, Stage
  <2>2. ASSUME NEW c \in Call, InsertUser(c) PROVE password' \in [Account -> Secret]
    BY <2>2 DEF InsertUser
  <2>3. ASSUME NEW c \in Call, InsertRole(c) PROVE roles' \in [Account -> SUBSET Role]
    BY <2>3 DEF InsertRole
  <2>4. ASSUME NEW u \in Account, NEW r \in Role, AddRole(u, r) \/ RemoveRole(u, r)
        PROVE  roles' \in [Account -> SUBSET Role]
    BY <2>4 DEF AddRole, RemoveRole
  <2>5. ASSUME NEW c \in Call, Fails(c) \/ InsertProfile(c) \/ CheckPassword(c) \/ CheckToken(c)
                 \/ FindUser(c) \/ EnsureActive(c) \/ ReadRoles(c) \/ DenyToken(c) \/ Issue(c)
                 \/ ReadPassword(c)
        PROVE  UNCHANGED <<roles, password>>
    BY <2>5 DEF accounts, Fails, InsertProfile, CheckPassword, CheckToken, FindUser, EnsureActive,
                ReadRoles, DenyToken, Issue, ReadPassword
  <2>6. ASSUME NEW c \in Call, Serve(c)
        PROVE  roles' \in [Account -> SUBSET Role] /\ password' \in [Account -> Secret]
    <3>1. InsertUser(c) => roles' = roles
      BY DEF InsertUser
    <3>2. WritePassword(c) => roles' = roles
      BY DEF WritePassword
    <3>3. InsertRole(c) => password' = password
      BY DEF InsertRole
    <3> QED
      BY <2>1, <2>2, <2>3, <2>5, <2>6, <3>1, <3>2, <3>3 DEF Serve
  <2>7. CASE Around
    BY <2>4, <2>7 DEF Around, AddRole, RemoveRole, SetActive, SaveProfile, Tick, vars, accounts
  <2> QED
    BY <2>6, <2>7 DEF Next, Around
<1>4. deny' \in [Text -> 0..RefreshTTL] /\ session' \in [Call -> Session \cup {None}]
  <2> USE SessionsAssumption DEF IInv, TypeOK
  <2>1. CASE Tick
    <3>1. \A n \in 0..RefreshTTL : Less(n) \in 0..RefreshTTL
      BY DEF Less
    <3>2. deny' \in [Text -> 0..RefreshTTL]
      BY <2>1, <3>1 DEF Tick
    <3>3. ASSUME NEW s \in Session PROVE [s EXCEPT !.life = Less(@)] \in Session
      BY <3>1 DEF Session
    <3> QED
      BY <2>1, <3>2, <3>3 DEF Tick
  <2>2. ASSUME NEW c \in Call, DenyToken(c) PROVE deny' \in [Text -> 0..RefreshTTL]
    BY <2>2 DEF DenyToken
  <2>3. ASSUME NEW c \in Call, Issue(c) PROVE session' \in [Call -> Session \cup {None}]
    BY <2>3 DEF Issue, Session
  <2> QED
    BY <2>1, <2>2, <2>3
       DEF Next, Serve, vars, accounts, Fails, InsertUser, InsertProfile, InsertRole, CheckPassword,
           CheckToken, FindUser, EnsureActive, ReadRoles, DenyToken, Issue, ReadPassword,
           WritePassword, AddRole, RemoveRole, SetActive, SaveProfile
<1>5. got' \in [Call -> SUBSET Role] /\ taken' \in [Call -> SUBSET Role]
  <2> USE SessionsAssumption DEF IInv, TypeOK, history
  <2>1. ASSUME NEW c \in Call, ReadRoles(c) PROVE got' \in [Call -> SUBSET Role]
    <3>1. call[c].user \in Account
      BY <2>1 DEF ReadRoles, Stage, Request
    <3>2. PICK read \in SUBSET Role : got' = [got EXCEPT ![c] = read]
      BY <2>1, <3>1 DEF ReadRoles
    <3> QED
      BY <3>2
  <2>2. ASSUME NEW c \in Call, InsertRole(c) \/ Ends(c)
        PROVE  got' \in [Call -> SUBSET Role] /\ taken' \in [Call -> SUBSET Role]
    BY <2>2 DEF InsertRole, Ends, Fails, Issue, WritePassword, Finish
  <2>3. ASSUME NEW u \in Account, NEW r \in Role, RemoveRole(u, r)
        PROVE  got' = got /\ taken' \in [Call -> SUBSET Role]
    BY <2>3 DEF RemoveRole
  <2>4. ASSUME NEW c \in Call, Begins(c) \/ FindUser(c) \/ EnsureActive(c) \/ InsertProfile(c)
                 \/ DenyToken(c)
        PROVE  UNCHANGED <<got, taken>>
    BY <2>4 DEF Begins, InsertUser, CheckPassword, CheckToken, ReadPassword, FindUser, EnsureActive,
                InsertProfile, DenyToken
  <2>5. ASSUME NEW c \in Call, ReadRoles(c) PROVE taken' = taken
    BY <2>5 DEF ReadRoles
  <2>6. CASE Around
    BY <2>3, <2>6 DEF Around, AddRole, SetActive, SaveProfile, Tick, vars
  <2> QED
    BY <2>1, <2>2, <2>3, <2>4, <2>5, <2>6, Steps DEF Proceeds
<1>6. traded' \subseteq Text /\ replays' \subseteq Call /\ closed' \subseteq Call /\ raced' \subseteq Call
  <2> USE DEF IInv, TypeOK, history
  <2>1. ASSUME NEW c \in Call, DenyToken(c) PROVE traded' \subseteq Text
    BY <2>1 DEF DenyToken, Goto, Stage
  <2>2. ASSUME NEW c \in Call, CheckToken(c) PROVE replays' \subseteq Call /\ closed' \subseteq Call
    BY <2>2 DEF CheckToken, Begin
  <2> QED
    BY <2>1, <2>2
       DEF Next, Serve, vars, Begin, Finish, Changing, Fails, InsertUser, InsertProfile, InsertRole,
           CheckPassword, CheckToken, FindUser, EnsureActive, ReadRoles, DenyToken, Issue,
           ReadPassword, WritePassword, AddRole, RemoveRole, SetActive, SaveProfile, Tick
<1> QED
  BY <1>1, <1>2, <1>3, <1>4, <1>5, <1>6 DEF TypeOK

LEMMA StagePreserved == IInv /\ [Next]_vars => Stage'
<1> SUFFICES ASSUME IInv, [Next]_vars, NEW d \in Call
             PROVE  /\ call'[d].at = "start" => call'[d] = Blank
                    /\ session'[d] # None => call'[d].at = "done" /\ call'[d].user \in Account
                    /\ call'[d].user = None => call'[d].at \in {"start", "done"} /\ got'[d] = {}
                    /\ call'[d].at \in {"start", "done", "hotel", "find", "write"} => got'[d] = {}
                    /\ call'[d].at \in {"profile", "role"} => call'[d].op = "signup"
                    /\ call'[d].at \in {"hotel", "roles"} => call'[d].op \in {"signin", "refresh"}
                    /\ call'[d].at \in {"find", "deny"} => call'[d].op = "refresh"
                    /\ call'[d].op = "refresh" /\ call'[d].at # "done" =>
                           call'[d].token \in Text /\ session'[call'[d].token.of] # None
                    /\ call'[d].at = "write" => call'[d].new \in Secret
  BY DEF Stage
<1> USE DEF Stage
<1>0. call \in [Call -> Request] /\ session \in [Call -> Session \cup {None}] /\ got \in [Call -> SUBSET Role]
  BY DEF IInv, TypeOK
<1>1. ASSUME NEW c \in Call, Begins(c)
      PROVE  /\ UNCHANGED <<session, got>> /\ \A e \in Call : e # c => call'[e] = call[e]
             /\ d = c => /\ call[c].at = "start" /\ call'[c] \in Request /\ call'[c].user \in Account
                         /\ \/ call'[c].op = "signup" /\ call'[c].at = "profile"
                            \/ call'[c].op = "signin" /\ call'[c].at = "hotel"
                            \/ /\ call'[c].op = "refresh" /\ call'[c].at = "find"
                               /\ call'[c].token \in Text /\ session[call'[c].token.of] # None
                            \/ call'[c].op = "password" /\ call'[c].at = "write" /\ call'[c].new \in Secret
  BY <1>0, <1>1, BeginStep
<1>2. ASSUME NEW c \in Call, Proceeds(c)
      PROVE  /\ session' = session /\ \A e \in Call : e # c => call'[e] = call[e] /\ got'[e] = got[e]
             /\ call[c].user # None
             /\ call[c].at \notin {"role", "roles"} => got' = got
             /\ \E to \in At :
                  /\ call'[c] = [call[c] EXCEPT !.at = to]
                  /\ \/ /\ call[c].op = "signup"
                        /\ <<call[c].at, to>> \in {<<"profile", "role">>, <<"role", "issue">>}
                     \/ /\ call[c].op = "signin"
                        /\ <<call[c].at, to>> \in {<<"hotel", "roles">>, <<"roles", "issue">>}
                     \/ /\ call[c].op = "refresh"
                        /\ <<call[c].at, to>> \in {<<"find", "hotel">>, <<"hotel", "roles">>,
                                                   <<"roles", "deny">>, <<"deny", "issue">>}
  BY <1>0, <1>2, ProceedStep
<1>3. ASSUME NEW c \in Call, Ends(c)
      PROVE  /\ \A e \in Call : e # c => call'[e] = call[e] /\ got'[e] = got[e] /\ session'[e] = session[e]
             /\ call[c].at # "done" /\ got'[c] = {} /\ call'[c].at = "done"
             /\ session'[c] # None => Issue(c) /\ call'[c].user = call[c].user
  <2>1. PICK op \in {"none", call[c].op}, u \in {None, call[c].user} :
           /\ call[c].at # "done"
           /\ call' = [call EXCEPT ![c] = [Blank EXCEPT !.op = op, !.user = u, !.at = "done"]]
           /\ got' = [got EXCEPT ![c] = {}]
           /\ Issue(c) => op = call[c].op /\ u = call[c].user
           /\ ~Issue(c) => op = "none" /\ u = None /\ session' = session
    BY <1>3, EndStep
  <2>2. call'[c].at = "done" /\ call'[c].user = u
    BY <1>0, <2>1 DEF Blank
  <2>3. \A e \in Call : e # c => call'[e] = call[e] /\ got'[e] = got[e]
    BY <1>0, <2>1
  <2>4. \A e \in Call : e # c => session'[e] = session[e]
    BY <1>0, <2>1 DEF Issue
  <2>5. session'[c] # None => Issue(c)
    BY <2>1 DEF IInv
  <2> QED
    BY <1>0, <2>1, <2>2, <2>3, <2>4, <2>5
<1>4. CASE \E c \in Call : Begins(c)
  BY <1>0, <1>1, <1>4, SessionsAssumption DEF IInv
<1>5. CASE \E c \in Call : Proceeds(c)
  <2>1. PICK c \in Call : Proceeds(c)
    BY <1>5
  <2>2. PICK to :
           /\ call'[c] = [call[c] EXCEPT !.at = to]
           /\ \/ /\ call[c].op = "signup"
                 /\ <<call[c].at, to>> \in {<<"profile", "role">>, <<"role", "issue">>}
              \/ /\ call[c].op = "signin"
                 /\ <<call[c].at, to>> \in {<<"hotel", "roles">>, <<"roles", "issue">>}
              \/ /\ call[c].op = "refresh"
                 /\ <<call[c].at, to>> \in {<<"find", "hotel">>, <<"hotel", "roles">>,
                                            <<"roles", "deny">>, <<"deny", "issue">>}
    BY <1>2, <2>1
  <2>3. /\ call'[c].op = call[c].op /\ call'[c].user = call[c].user
        /\ call'[c].token = call[c].token /\ call'[c].at = to
    BY <1>0, <2>2 DEF Request
  <2>4. to \notin {"start", "profile", "find", "write", "done"} /\ call[c].at # "done"
    BY <2>2
  <2>5. CASE d = c
    <3>1. session'[c] = None
      BY <1>2, <2>1, <2>4 DEF IInv
    <3>2. to = "role" => call[c].op = "signup" /\ call[c].at = "profile"
      BY <2>2
    <3>3. to = "hotel" => call[c].op = "refresh" /\ call[c].at = "find" /\ got'[c] = {}
      BY <1>2, <2>1, <2>2 DEF IInv
    <3>4. to = "roles" => call[c].op \in {"signin", "refresh"}
      BY <2>2
    <3>5. to = "deny" => call[c].op = "refresh"
      BY <2>2
    <3>6. call'[c].op = "refresh" => call[c].token \in Text /\ session'[call[c].token.of] # None
      BY <1>2, <2>1, <2>3, <2>4 DEF IInv
    <3> QED
      BY <1>2, <2>1, <2>3, <2>4, <2>5, <3>1, <3>2, <3>3, <3>4, <3>5, <3>6
  <2>6. CASE d # c
    BY <1>2, <2>1, <2>6 DEF IInv
  <2> QED
    BY <2>5, <2>6
<1>6. CASE \E c \in Call : Ends(c)
  <2>1. PICK c \in Call : Ends(c)
    BY <1>6
  <2>2. Issue(c) => call[c].user \in Account
    BY <1>0 DEF Issue, IInv, Request
  <2>3. \A e \in Call : session[e] # None => session'[e] # None
    BY <1>3, <2>1 DEF IInv
  <2>4. call'[d].op = "refresh" /\ call'[d].at # "done" => d # c
    BY <1>3, <2>1
  <2> QED
    BY <1>3, <2>1, <2>2, <2>3, <2>4 DEF IInv, Text
<1>7. CASE Around
  BY <1>7, AroundStep DEF IInv, Text
<1> QED
  BY <1>4, <1>5, <1>6, <1>7, Steps

LEMMA OutlastedPreserved == IInv /\ [Next]_vars => Outlasted'
<1> SUFFICES ASSUME IInv, [Next]_vars PROVE Outlasted'
  OBVIOUS
<1> USE SessionsAssumption DEF IInv, TypeOK, Outlasted
<1>1. ASSUME NEW c \in Call, Begins(c) PROVE Outlasted'
  <2>1. UNCHANGED <<session, deny, traded>> /\ c \notin replays
    BY <1>1, BeginStep DEF Begins, InsertUser, CheckPassword, CheckToken, ReadPassword
  <2>2. \A d \in Call : d # c => call'[d] = call[d]
    BY <1>1, BeginStep
  <2>3. CASE CheckToken(c)
    <3>1. PICK t \in Text :
             /\ session[t.of] # None
             /\ call'[c].op = "refresh" /\ call'[c].at = "find" /\ call'[c].token = t
             /\ replays' = replays \/ (deny[t] = 0 /\ t \in traded /\ replays' = replays \cup {c})
      BY <2>3 DEF CheckToken, Begin
    <3>2. session[t.of].life \in Nat /\ (t \in traded /\ deny[t] = 0 => session[t.of].life = 0)
      BY <3>1 DEF Session, Text
    <3> QED
      BY <2>1, <2>2, <3>1, <3>2
  <2>4. CASE replays' = replays
    BY <2>1, <2>2, <2>4
  <2> QED
    BY <1>1, <2>3, <2>4 DEF Begins, InsertUser, CheckPassword, ReadPassword
<1>2. ASSUME NEW c \in Call, Proceeds(c) PROVE Outlasted'
  <2>1. c \notin replays
    <3>1. CASE FindUser(c)
      BY <3>1 DEF FindUser
    <3>2. CASE call[c].at # "find"
      BY <3>2
    <3> QED
      BY <1>2, <3>1, <3>2 DEF Proceeds, InsertProfile, InsertRole, EnsureActive, ReadRoles, DenyToken, Goto
  <2>2. session' = session /\ \A d \in Call : d # c => call'[d] = call[d]
    BY <1>2, ProceedStep
  <2>3. replays' = replays
    BY <1>2 DEF Proceeds, InsertProfile, InsertRole, FindUser, EnsureActive, ReadRoles, DenyToken, history
  <2>4. CASE UNCHANGED <<deny, traded>>
    BY <2>1, <2>2, <2>3, <2>4
  <2>5. CASE DenyToken(c)
    <3>1. call[c].token \in Text /\ session[call[c].token.of] # None
      BY <2>5 DEF DenyToken, Goto, Stage
    <3>2. session[call[c].token.of].life \in 0..RefreshTTL
      BY <3>1 DEF Session, Text
    <3> QED
      BY <2>1, <2>2, <2>3, <2>5, <3>1, <3>2 DEF DenyToken
  <2> QED
    BY <1>2, <2>4, <2>5 DEF Proceeds, InsertProfile, InsertRole, FindUser, EnsureActive, ReadRoles, history
<1>3. ASSUME NEW c \in Call, Ends(c) PROVE Outlasted'
  <2>1. PICK op \in {"none", call[c].op}, u \in {None, call[c].user} :
           /\ call[c].at # "done"
           /\ call' = [call EXCEPT ![c] = [Blank EXCEPT !.op = op, !.user = u, !.at = "done"]]
           /\ ~Issue(c) => session' = session
    BY <1>3, EndStep
  <2>2. /\ \A d \in Call : d # c => call'[d] = call[d] /\ session'[d] = session[d]
        /\ session[c] = None
    BY <2>1 DEF Issue, Stage
  <2>3. UNCHANGED <<deny, traded>> /\ \A t \in traded : t.of \in Call /\ t.of # c
    BY <1>3, <2>2 DEF Ends, Fails, Issue, WritePassword, Text
  <2>4. replays' \subseteq replays /\ c \notin replays'
    BY <1>3 DEF Ends, Fails, Issue, WritePassword
  <2>5. ASSUME NEW d \in replays PROVE call[d].token \in Text /\ call[d].token.of \in Call \ {c}
    BY <2>5, <2>2 DEF Stage, Text
  <2> QED
    BY <2>2, <2>3, <2>4, <2>5
<1>4. ASSUME Around PROVE Outlasted'
  <2>1. UNCHANGED <<call, traded, replays>>
    BY <1>4, AroundStep
  <2>2. \A c \in replays : call[c].token.of \in Call /\ session[call[c].token.of] # None
    BY DEF Stage, Text
  <2>3. CASE Tick
    <3>1. ASSUME NEW t \in Call, session[t] # None
          PROVE  /\ session'[t] # None
                 /\ session'[t].life = Less(session[t].life) /\ session[t].life \in Nat
      <4>1. session[t] \in Session
        BY <3>1
      <4> QED
        BY <1>4, <2>3, <3>1, <4>1, AroundStep DEF Tick, Session
    <3>2. \A t \in Text : deny'[t] = Less(deny[t])
      BY <2>3 DEF Tick
    <3>3. ASSUME NEW t \in traded PROVE session'[t.of] # None /\ session'[t.of].life <= deny'[t]
      <4>1. t \in Text /\ deny[t] \in Nat
        OBVIOUS
      <4>2. t.of \in Call
        BY <4>1 DEF Text
      <4>3. session[t.of] # None /\ session[t.of].life <= deny[t]
        OBVIOUS
      <4>4. deny'[t] = Less(deny[t])
        BY <3>2, <4>1
      <4>5. \A m, n \in Nat : m <= n => Less(m) <= Less(n)
        BY DEF Less
      <4>6. Less(session[t.of].life) <= deny'[t]
        BY <3>1, <4>1, <4>2, <4>3, <4>4, <4>5
      <4> QED
        BY <3>1, <4>2, <4>3, <4>6
    <3>4. ASSUME NEW c \in replays PROVE session'[call[c].token.of].life = 0
      BY <2>2, <3>1 DEF Less
    <3> QED
      BY <2>1, <3>3, <3>4
  <2>4. CASE UNCHANGED <<session, deny>>
    BY <2>1, <2>4
  <2> QED
    BY <1>4, <2>3, <2>4 DEF Around, AddRole, RemoveRole, SetActive, SaveProfile, vars
<1> QED
  BY <1>1, <1>2, <1>3, <1>4, Steps

LEMMA RolesKnownPreserved == IInv /\ [Next]_vars => RolesKnown'
<1> SUFFICES ASSUME IInv, [Next]_vars, NEW d \in Call, NEW r \in Claims(d)', r \notin taken'[d]
             PROVE  r \in roles'[call'[d].user] \/ (r = Guest /\ call'[d].op = "signin")
  BY DEF RolesKnown
<1> USE DEF IInv, TypeOK, RolesKnown, Claims
<1>1. ASSUME NEW c \in Call, Begins(c) PROVE r \in roles'[call'[d].user] \/ (r = Guest /\ call'[d].op = "signin")
  <2>1. /\ UNCHANGED <<session, got, taken>> /\ call[c].at = "start"
        /\ \A e \in Call : e # c => call'[e] = call[e]
    BY <1>1, BeginStep DEF Begins, InsertUser, CheckPassword, CheckToken, ReadPassword
  <2>2. roles' = roles
    BY <1>1 DEF Begins, InsertUser, CheckPassword, CheckToken, ReadPassword, accounts
  <2>3. d # c
    BY <2>1 DEF Stage
  <2> QED
    BY <2>1, <2>2, <2>3
<1>2. ASSUME NEW c \in Call, Proceeds(c)
      PROVE  r \in roles'[call'[d].user] \/ (r = Guest /\ call'[d].op = "signin")
  <2>1. /\ session' = session /\ call'[d].user = call[d].user /\ call'[d].op = call[d].op
        /\ \A e \in Call : e # c => got'[e] = got[e]
        /\ call[c].user # None /\ session[c] = None
    BY <1>2, ProceedStep DEF Request, Stage
  <2>2. taken' = taken
    BY <1>2 DEF Proceeds, InsertProfile, InsertRole, FindUser, EnsureActive, ReadRoles, DenyToken, history
  <2>3. call[c].user \in Account
    BY <2>1 DEF Request
  <2>4. CASE InsertRole(c)
    BY <2>1, <2>2, <2>3, <2>4 DEF InsertRole, Stage, Request
  <2>5. CASE ReadRoles(c)
    <3>1. roles' = roles
      BY <2>5 DEF ReadRoles, accounts
    <3>2. \A q \in got'[c] : q \in roles[call[c].user] \/ (q = Guest /\ call[c].op = "signin")
      BY <2>5 DEF ReadRoles
    <3> QED
      BY <2>1, <2>2, <3>1, <3>2
  <2>6. CASE UNCHANGED <<roles, got>>
    BY <2>1, <2>2, <2>6
  <2> QED
    BY <1>2, <2>4, <2>5, <2>6 DEF Proceeds, InsertProfile, FindUser, EnsureActive, DenyToken, accounts
<1>3. ASSUME NEW c \in Call, Ends(c)
      PROVE  r \in roles'[call'[d].user] \/ (r = Guest /\ call'[d].op = "signin")
  <2>1. PICK op \in {"none", call[c].op}, u \in {None, call[c].user} :
           /\ call[c].at # "done"
           /\ call' = [call EXCEPT ![c] = [Blank EXCEPT !.op = op, !.user = u, !.at = "done"]]
           /\ got' = [got EXCEPT ![c] = {}]
           /\ Issue(c) => op = call[c].op /\ u = call[c].user
           /\ ~Issue(c) => session' = session
    BY <1>3, EndStep
  <2>2. session[c] = None /\ roles' = roles
    BY <1>3, <2>1 DEF Stage, Ends, Fails, Issue, WritePassword, accounts
  <2>3. CASE d # c
    <3>1. call'[d] = call[d] /\ got'[d] = got[d] /\ session'[d] = session[d] /\ taken'[d] = taken[d]
      BY <1>3, <2>1, <2>3 DEF Ends, Fails, Issue, WritePassword
    <3> QED
      BY <2>2, <3>1
  <2>4. CASE d = c /\ Issue(c)
    <3>1. session'[c] = [roles |-> got[c], life |-> RefreshTTL] /\ taken' = taken
      BY <2>4 DEF Issue
    <3>2. r \in got[c]
      <4>1. session'[c] # None
        BY <3>1, SessionsAssumption
      <4> QED
        BY <2>4, <3>1, <4>1
    <3>3. call'[c].user = call[c].user /\ call'[c].op = call[c].op
      BY <2>1, <2>4 DEF Blank
    <3> QED
      BY <2>2, <2>4, <3>1, <3>2, <3>3
  <2>5. CASE d = c /\ ~Issue(c)
    BY <2>1, <2>2, <2>5
  <2> QED
    BY <2>3, <2>4, <2>5
<1>4. ASSUME Around PROVE r \in roles'[call'[d].user] \/ (r = Guest /\ call'[d].op = "signin")
  <2>1. UNCHANGED <<call, got>> /\ r \in Claims(d)
    BY <1>4, AroundStep
  <2>2. ASSUME NEW u \in Account, NEW q \in Role, RemoveRole(u, q)
        PROVE  r \in roles'[call[d].user] \/ (r = Guest /\ call[d].op = "signin")
    <3>1. taken'[d] = IF call[d].user = u THEN taken[d] \cup ({q} \cap Claims(d)) ELSE taken[d]
      BY <2>2 DEF RemoveRole
    <3>2. r \notin taken[d] /\ (call[d].user = u => r # q)
      BY <2>1, <3>1
    <3> QED
      BY <2>1, <2>2, <3>2 DEF RemoveRole, Request
  <2>3. ASSUME NEW u \in Account, NEW q \in Role, AddRole(u, q)
        PROVE  r \in roles'[call[d].user] \/ (r = Guest /\ call[d].op = "signin")
    BY <2>1, <2>3 DEF AddRole, history, Request
  <2>4. CASE UNCHANGED <<roles, taken>>
    BY <2>1, <2>4
  <2> QED
    BY <1>4, <2>1, <2>2, <2>3, <2>4 DEF Around, SetActive, SaveProfile, Tick, vars, accounts, history
<1> QED
  BY <1>1, <1>2, <1>3, <1>4, Steps

LEMMA ClosedOutPreserved == IInv /\ [Next]_vars => ClosedOut'
<1> SUFFICES ASSUME IInv, [Next]_vars PROVE ClosedOut'
  OBVIOUS
<1> USE DEF IInv, TypeOK, ClosedOut
<1>1. ASSUME NEW c \in Call, Begins(c) PROVE ClosedOut'
  <2>1. /\ active' = active /\ closed' = IF active THEN closed ELSE closed \cup {c}
        /\ \A d \in Call : d # c => call'[d] = call[d]
    BY <1>1, BeginStep DEF Begins, InsertUser, CheckPassword, CheckToken, ReadPassword, Begin
  <2>2. call'[c].at \notin {"roles", "deny", "issue"}
    BY <1>1, BeginStep
  <2> QED
    BY <2>1, <2>2
<1>2. ASSUME NEW c \in Call, Proceeds(c) PROVE ClosedOut'
  <2>1. /\ call'[c].op = call[c].op /\ call'[c].user = call[c].user
        /\ \A d \in Call : d # c => call'[d] = call[d]
        /\ call[c].op = "signup" \/ call[c].at \in {"find", "hotel", "roles", "deny"}
        /\ call[c].at = "find" => call'[c].at = "hotel"
    BY <1>2, ProceedStep DEF Request
  <2>2. UNCHANGED <<active, closed>>
    BY <1>2 DEF Proceeds, InsertProfile, InsertRole, FindUser, EnsureActive, ReadRoles, DenyToken, history
  <2>3. call[c].at = "hotel" => call[c].user \in Exempt \/ active
    BY <1>2 DEF Proceeds, InsertProfile, InsertRole, FindUser, EnsureActive, ReadRoles, DenyToken, Goto
  <2> QED
    BY <2>1, <2>2, <2>3
<1>3. ASSUME NEW c \in Call, Ends(c) PROVE ClosedOut'
  <2>1. \A d \in Call : d # c => call'[d] = call[d]
    BY <1>3, EndStep
  <2>2. active' = active /\ closed' = closed \ {c}
    BY <1>3 DEF Ends, Fails, Issue, WritePassword, Finish
  <2> QED
    BY <2>1, <2>2
<1>4. ASSUME Around PROVE ClosedOut'
  BY <1>4, AroundStep DEF Around, AddRole, RemoveRole, SetActive, SaveProfile, Tick, vars, history
<1> QED
  BY <1>1, <1>2, <1>3, <1>4, Steps

LEMMA SigningUpPreserved == IInv /\ [Next]_vars => SigningUp'
<1> SUFFICES ASSUME IInv, [Next]_vars PROVE SigningUp'
  OBVIOUS
<1> USE DEF IInv, TypeOK, SigningUp
<1>1. ASSUME NEW c \in Call, Begins(c) PROVE SigningUp'
  <2>1. \A d \in Call : d # c => call'[d] = call[d]
    BY <1>1, BeginStep
  <2>2. users \subseteq users' /\ profiles' = profiles
    BY <1>1 DEF Begins, InsertUser, CheckPassword, CheckToken, ReadPassword, accounts
  <2>3. call'[c].op = "signup" => /\ call'[c].at = "profile"
                                  /\ call'[c].user \in users' \ users
    BY <1>1 DEF Begins, InsertUser, CheckPassword, CheckToken, ReadPassword, Begin
  <2> QED
    BY <2>1, <2>2, <2>3
<1>2. ASSUME NEW c \in Call, Proceeds(c) PROVE SigningUp'
  <2>1. /\ call'[c].op = call[c].op /\ call'[c].user = call[c].user
        /\ \A d \in Call : d # c => call'[d] = call[d]
        /\ call[c].op = "signup" => call[c].at \in {"profile", "role"}
    BY <1>2, ProceedStep DEF Request
  <2>2. users' = users /\ profiles \subseteq profiles'
    BY <1>2 DEF Proceeds, InsertProfile, InsertRole, FindUser, EnsureActive, ReadRoles, DenyToken, accounts
  <2>3. call[c].op = "signup" /\ call[c].at = "profile" => call[c].user \in profiles'
    BY <1>2 DEF Proceeds, InsertProfile, InsertRole, FindUser, EnsureActive, ReadRoles, DenyToken, Goto
  <2> QED
    BY <2>1, <2>2, <2>3
<1>3. ASSUME NEW c \in Call, Ends(c) PROVE SigningUp'
  <2>1. PICK op \in {"none", call[c].op}, u \in {None, call[c].user} :
           /\ call' = [call EXCEPT ![c] = [Blank EXCEPT !.op = op, !.user = u, !.at = "done"]]
           /\ Issue(c) => op = call[c].op /\ u = call[c].user
           /\ ~Issue(c) => op = "none" /\ u = None
    BY <1>3, EndStep
  <2>2. /\ \A d \in Call : d # c => call'[d] = call[d]
        /\ call'[c].op = op /\ call'[c].user = u
    BY <2>1 DEF Blank
  <2>3. users' = users /\ profiles' = profiles
    BY <1>3 DEF Ends, Fails, Issue, WritePassword, accounts
  <2>4. Issue(c) => call[c].at = "issue"
    BY DEF Issue
  <2> QED
    BY <2>1, <2>2, <2>3, <2>4
<1>4. ASSUME Around PROVE SigningUp'
  BY <1>4, AroundStep
<1> QED
  BY <1>1, <1>2, <1>3, <1>4, Steps

LEMMA PasswordGivenPreserved == IInv /\ [Next]_vars => PasswordGiven'
<1> SUFFICES ASSUME IInv, [Next]_vars PROVE PasswordGiven'
  OBVIOUS
<1> USE DEF IInv, TypeOK, PasswordGiven
<1>1. ASSUME NEW c \in Call, Begins(c) PROVE PasswordGiven'
  <2>1. \A d \in Call : d # c => call'[d] = call[d]
    BY <1>1, BeginStep
  <2>2. raced' = raced
    BY <1>1 DEF Begins, InsertUser, CheckPassword, CheckToken, ReadPassword
  <2>3. CASE InsertUser(c)
    <3>1. PICK u \in Account \ users, p \in Secret :
             /\ Begin(c, [op |-> "signup", user |-> u, token |-> None, given |-> None,
                          new |-> None, at |-> "profile"])
             /\ password' = [password EXCEPT ![u] = p] /\ users' = users \cup {u}
      BY <2>3 DEF InsertUser
    <3>2. call'[c].at = "profile"
      BY <3>1 DEF Begin
    <3>3. \A d \in Call : call[d].at = "write" =>
             call[d].user \in users' /\ password'[call[d].user] = password[call[d].user]
      BY <3>1
    <3> QED
      BY <2>1, <2>2, <3>2, <3>3
  <2>4. CASE ~InsertUser(c)
    <3>1. password' = password /\ users' = users
      BY <1>1, <2>4 DEF Begins, CheckPassword, CheckToken, ReadPassword, accounts
    <3>2. call'[c].at = "write" => /\ call'[c].op = "password" /\ call'[c].user \in users
                                   /\ call'[c].given = password[call'[c].user]
      BY <1>1, <2>4 DEF Begins, CheckPassword, CheckToken, ReadPassword, Begin
    <3> QED
      BY <2>1, <2>2, <3>1, <3>2
  <2> QED
    BY <2>3, <2>4
<1>2. ASSUME NEW c \in Call, Proceeds(c) PROVE PasswordGiven'
  <2>1. call'[c].at # "write" /\ \A d \in Call : d # c => call'[d] = call[d]
    BY <1>2, ProceedStep DEF Request
  <2>2. password' = password /\ raced' = raced /\ users' = users
    BY <1>2 DEF Proceeds, InsertProfile, InsertRole, FindUser, EnsureActive, ReadRoles, DenyToken,
                accounts, history
  <2> QED
    BY <2>1, <2>2
<1>3. ASSUME NEW c \in Call, Ends(c) PROVE PasswordGiven'
  <2>1. call'[c].at = "done" /\ \A d \in Call : d # c => call'[d] = call[d]
    <3>1. PICK op \in {"none", call[c].op}, u \in {None, call[c].user} :
             call' = [call EXCEPT ![c] = [Blank EXCEPT !.op = op, !.user = u, !.at = "done"]]
      BY <1>3, EndStep
    <3> QED
      BY <3>1 DEF Blank
  <2>2. CASE WritePassword(c)
    <3>1. /\ password' = [password EXCEPT ![call[c].user] = call[c].new]
          /\ raced' = (raced \cup Changing(call[c].user)) \ {c}
          /\ users' = users
      BY <2>2 DEF WritePassword
    <3>2. ASSUME NEW d \in Call, call'[d].at = "write"
          PROVE  /\ call'[d].op = "password" /\ call'[d].user \in users'
                 /\ d \in raced' \/ call'[d].given = password'[call'[d].user]
      <4>1. d # c /\ call'[d] = call[d] /\ call[d].user \in users
        BY <2>1, <3>2
      <4>2. CASE call[d].user = call[c].user
        BY <3>1, <3>2, <4>1, <4>2 DEF Changing
      <4>3. CASE call[d].user # call[c].user
        BY <3>1, <3>2, <4>1, <4>3
      <4> QED
        BY <4>2, <4>3
    <3> QED
      BY <3>2
  <2>3. CASE password' = password /\ users' = users /\ raced \ {c} \subseteq raced'
    BY <2>1, <2>3
  <2> QED
    BY <1>3, <2>2, <2>3 DEF Ends, Fails, Issue, accounts
<1>4. ASSUME Around PROVE PasswordGiven'
  BY <1>4, AroundStep
<1> QED
  BY <1>1, <1>2, <1>3, <1>4, Steps

-----------------------------------------------------------------------------
(* The theorems.                                                           *)

\* Requests, tokens, roles and passwords stay related as the lemmas say.
THEOREM Invariant == Spec => []IInv
<1>1. IInv /\ [Next]_vars => IInv'
  BY TypePreserved, StagePreserved, OutlastedPreserved, RolesKnownPreserved, ClosedOutPreserved,
     SigningUpPreserved, PasswordGivenPreserved DEF IInv
<1> QED
  BY InitInvariant, <1>1, PTL DEF Spec

\* The tables, the cache and the requests keep their types.
THEOREM TypeCorrect == Spec => []TypeOK
BY Invariant, PTL DEF IInv

\* RefreshSession: the text of a refresh token that was entered in the cache buys no second
\* session from a request the cache answers.
THEOREM NoReplay == Spec => []TradedOnce
<1>1. IInv => TradedOnce
  BY DEF IInv, TradedOnce, Outlasted, Stage
<1> QED
  BY <1>1, Invariant, PTL

\* SignIn, RefreshSession: no session is issued with a role its user has lost before.
THEOREM RolesAreFresh == Spec => []RolesFade
<1>1. IInv => RolesFade
  <2> SUFFICES ASSUME IInv, NEW c \in Call, session[c] # None, NEW r \in session[c].roles \ taken[c]
               PROVE  r \in roles[call[c].user] \/ (r = Guest /\ call[c].op = "signin")
    BY DEF RolesFade
  <2> QED
    BY DEF IInv, RolesKnown, Claims
<1> QED
  BY <1>1, Invariant, PTL

\* ensureHotelActive: nobody of a suspended hotel gets a session but by signing up.
THEOREM SuspensionHolds == Spec => SuspendedStayOut
<1>1. IInv /\ [Next]_vars =>
        [\A c \in Call : session[c] = None /\ session'[c] # None
             => c \notin closed \/ call[c].user \in Exempt \/ call[c].op = "signup"]_vars
  <2> SUFFICES ASSUME IInv, [Next]_vars, NEW c \in Call, session[c] = None, session'[c] # None
               PROVE  c \notin closed \/ call[c].user \in Exempt \/ call[c].op = "signup"
    OBVIOUS
  <2>1. ~Around
    BY AroundStep
  <2>2. PICK d \in Call : Begins(d) \/ Proceeds(d) \/ Ends(d)
    BY <2>1, Steps
  <2>3. Issue(d)
    BY <2>2, BeginStep, ProceedStep, EndStep
  <2>4. d = c /\ call[c].at = "issue"
    BY <2>3 DEF Issue, IInv, TypeOK
  <2> QED
    BY <2>4 DEF IInv, ClosedOut
<1> QED
  BY <1>1, Invariant, PTL DEF Spec, SuspendedStayOut

\* SignUp: of the requests for one email at most one gets a session, for a whole account.
THEOREM OneSignUp == Spec => []SignedUpOnce
<1>1. IInv => SignedUpOnce
  BY DEF IInv, Stage, SigningUp, SignedUpOnce
<1> QED
  BY <1>1, Invariant, PTL

\* UpdatePasswordWithCurrent: whoever replaces a password gave it, or was overtaken.
THEOREM PasswordsKept == Spec => PasswordKnown
<1>1. IInv /\ [Next]_vars =>
        [\A u \in users : password'[u] # password[u] =>
             \E c \in Changing(u) : call[c].given = password[u] \/ c \in raced]_vars
  <2> SUFFICES ASSUME IInv, [Next]_vars, NEW u \in users, password'[u] # password[u]
               PROVE  \E c \in Changing(u) : call[c].given = password[u] \/ c \in raced
    OBVIOUS
  <2>1. ~Around
    BY AroundStep
  <2>2. PICK c \in Call : Begins(c) \/ Proceeds(c) \/ Ends(c)
    BY <2>1, Steps
  <2>3. ~InsertUser(c)
    BY DEF InsertUser, IInv, TypeOK
  <2>4. WritePassword(c)
    BY <2>2, <2>3
       DEF Begins, Proceeds, Ends, CheckPassword, CheckToken, ReadPassword, InsertProfile, InsertRole,
           FindUser, EnsureActive, ReadRoles, DenyToken, Fails, Issue, accounts
  <2>5. call[c].user = u /\ call[c].at = "write" /\ call[c].op = "password"
    BY <2>4 DEF WritePassword, IInv, TypeOK
  <2> QED
    BY <2>5 DEF Changing, IInv, PasswordGiven
<1> QED
  BY <1>1, Invariant, PTL DEF Spec, PasswordKnown

=============================================================================
