------------------------------ MODULE ApiProofs -----------------------------
(***************************************************************************)
(* Proofs about the API. About Accounts, for any users, browsers and       *)
(* scenarios: types, an administrator remains, a second factor has its     *)
(* secret, a revoked session stays revoked, and a policy reaches the       *)
(* sessions. About KeysetPages, for any list, any rows and any changes     *)
(* between two pages: what a reader of the pages misses or sees twice.     *)
(* About PostureEvaluation, for any device: what a posture is judged on.   *)
(* About PolicyEvaluation, for any policy whose groups end: what its rules *)
(* permit, and what a review of them finds. About PolicyDuplicates, for any *)
(* policy: what is removed of it, and that nothing it says is lost.        *)
(***************************************************************************)
EXTENDS Accounts, KeysetPages, PostureEvaluation, PolicyEvaluation, PolicyDuplicates,
        FiniteSetTheorems, WellFoundedInduction, TLAPS

(* What the requests have loaded: rows that are typed, of accounts and      *)
(* sessions that are never deleted.                                         *)
Targeting == {"update_user", "reset_password", "reset_mfa"}
Anonymous == {"idle", "setup", "login", "verify"}
Own == {"op", "ready", "user", "session", "me", "restricted"}   \* fields of a signed-in request

RequestOK(q) ==
    /\ q.op = "setup" => q.user \in User
    /\ q.op \notin {"idle", "setup"} => q.user \in DOMAIN account /\ q.me \in Account
    /\ q.op \notin Anonymous =>
          /\ Own \subseteq DOMAIN q
          /\ q.session \in DOMAIN session /\ q.restricted \in BOOLEAN /\ q.ready \in BOOLEAN
    /\ q.op = "create_user" => q.target \in User /\ q.role \in Role
    /\ q.op \in Targeting \cup {"revoke_user"} =>
          "target" \in DOMAIN q /\ q.target \in DOMAIN account
    /\ q.op = "update_user" =>
          {"role", "active"} \subseteq DOMAIN q /\ q.role \in Role /\ q.active \in BOOLEAN
    /\ q.op \in Targeting /\ q.ready => q.loaded \in Account
    /\ q.op = "policy" => "roles" \in DOMAIN q /\ q.roles \in SUBSET Role
    /\ q.op = "policy" /\ q.ready => \A u \in DOMAIN q.accounts : q.accounts[u] \in Account

RequestsOK == \A c \in Browser : RequestOK(request[c])

(* A request that removes the second factor of an account knows that the    *)
(* account has one, unless another request changed it meanwhile: only then  *)
(* could it delete the secret and leave the account asking for codes.       *)
KnowsFactor(q) ==
    /\ q.op = "disable" /\ q.user \notin crossed /\ account[q.user].mfa => q.me.mfa
    /\ q.op = "reset_mfa" /\ q.target \notin crossed /\ account[q.target].mfa =>
          IF q.ready THEN q.loaded.mfa ELSE q.target = q.user => q.me.mfa

FactorIsKnown == \A c \in Browser : KnowsFactor(request[c])

IInv == TypeOK /\ RequestsOK /\ AdministratorRemains /\ EnabledHasCredential /\ FactorIsKnown
-----------------------------------------------------------------------------
(* The parts of the type invariant.                                         *)

BoundsOK ==
    /\ scenario \in Scenarios /\ requests \in 0 .. scenario.requests
    /\ DOMAIN request = Browser

RowsOK ==
    /\ cookie \in [Browser -> DOMAIN session \cup {None}]
    /\ challenge \in [Browser -> DOMAIN account \cup {None}]
    /\ DOMAIN account \subseteq User /\ \A u \in DOMAIN account : account[u] \in Account
    /\ DOMAIN session \subseteq SessionId
    /\ \A s \in DOMAIN session : session[s] \in Session /\ session[s].user \in DOMAIN account
    /\ credential \in [User -> {"none", "started", "enrolled"}]
    /\ codes \subseteq DOMAIN account
    /\ required \subseteq Role
    /\ miscounted \in BOOLEAN /\ crossed \subseteq User

\* TypeOK says both.
LEMMA TypeParts == TypeOK <=> BoundsOK /\ RowsOK
BY DEF TypeOK, BoundsOK, RowsOK

\* The same of the state after a step.
LEMMA TypePartsPrimed == TypeOK' <=> BoundsOK' /\ RowsOK'
BY DEF TypeOK, BoundsOK, RowsOK

\* A row and its fields.
LEMMA AccountFields ==
    ASSUME NEW a \in Account
    PROVE  /\ a = [role |-> a.role, active |-> a.active, must_change |-> a.must_change,
                   mfa |-> a.mfa]
           /\ a.role \in Role /\ a.active \in BOOLEAN /\ a.must_change \in BOOLEAN
           /\ a.mfa \in BOOLEAN
           /\ DOMAIN a = {"role", "active", "must_change", "mfa"}
BY DEF Account

\* A session and its fields.
LEMMA SessionFields ==
    ASSUME NEW x \in Session
    PROVE  /\ x = [user |-> x.user, revoked |-> x.revoked, restricted |-> x.restricted]
           /\ x.user \in User /\ x.revoked \in BOOLEAN /\ x.restricted \in BOOLEAN
BY DEF Session

(* What response_for_user decides is a truth value.                         *)
LEMMA OnboardingType ==
    ASSUME NEW a \in Account
    PROVE  NeedsOnboarding(a) \in BOOLEAN
<1>1. a.must_change \in BOOLEAN
  BY AccountFields
<1> QED
  BY <1>1 DEF NeedsOnboarding

(* What a commit writes of a row: the columns that the request changed, the *)
(* others stay as they are.                                                 *)
LEMMA WrittenRow ==
    ASSUME NEW loaded \in Account, NEW value \in Account, NEW row \in Account
    PROVE  /\ Written(loaded, value, row) \in Account
           /\ Written(loaded, value, row).role
                = IF value.role # loaded.role THEN value.role ELSE row.role
           /\ Written(loaded, value, row).active
                = IF value.active # loaded.active THEN value.active ELSE row.active
           /\ Written(loaded, value, row).mfa
                = IF value.mfa # loaded.mfa THEN value.mfa ELSE row.mfa
<1> DEFINE w == Written(loaded, value, row)
           pick(f) == IF value[f] # loaded[f] THEN value[f] ELSE row[f]
<1>1. DOMAIN row = {"role", "active", "must_change", "mfa"}
  BY AccountFields
<1>2. w = [role |-> pick("role"), active |-> pick("active"),
           must_change |-> pick("must_change"), mfa |-> pick("mfa")]
  BY <1>1 DEF Written
<1>3. /\ pick("role") \in Role /\ pick("active") \in BOOLEAN
      /\ pick("must_change") \in BOOLEAN /\ pick("mfa") \in BOOLEAN
  BY AccountFields
<1>4. /\ pick("role") = IF value.role # loaded.role THEN value.role ELSE row.role
      /\ pick("active") = IF value.active # loaded.active THEN value.active ELSE row.active
      /\ pick("mfa") = IF value.mfa # loaded.mfa THEN value.mfa ELSE row.mfa
  OBVIOUS
<1> HIDE DEF pick
<1>5. w \in Account
  BY <1>2, <1>3 DEF Account
<1>6. w.role = pick("role") /\ w.active = pick("active") /\ w.mfa = pick("mfa")
  BY <1>2
<1> QED
  BY <1>4, <1>5, <1>6
-----------------------------------------------------------------------------
(* Requests begin.                                                          *)

\* The request of c is q from now on, and nothing else changes.
Asked(c, q) ==
    /\ request[c] = Idle /\ request' = [request EXCEPT ![c] = q]
    /\ requests < scenario.requests /\ requests' = requests + 1
    /\ UNCHANGED <<scenario, cookie, challenge, account, session, credential, codes, required,
                   miscounted, crossed>>

\* Its browser is signed in with a session of its user.
Authenticated(q) ==
    /\ Own \subseteq DOMAIN q
    /\ q.user \in DOMAIN account /\ q.me \in Account /\ q.me = account[q.user]
    /\ q.session \in DOMAIN session /\ q.restricted \in BOOLEAN /\ q.ready = FALSE

\* What current_session and current_user load.
LEMMA MeFields ==
    ASSUME TypeOK, NEW c \in Browser, Signed(c)
    PROVE  /\ Me(c) = [user |-> Me(c).user, session |-> Me(c).session, me |-> Me(c).me,
                       restricted |-> Me(c).restricted]
           /\ Me(c).user \in DOMAIN account /\ Me(c).me = account[Me(c).user]
           /\ Me(c).me \in Account
           /\ Me(c).session \in DOMAIN session /\ Me(c).restricted \in BOOLEAN
<1>1. cookie[c] \in DOMAIN session
  BY DEF TypeOK, Signed
<1>2. session[cookie[c]] \in Session /\ session[cookie[c]].user \in DOMAIN account
  BY <1>1 DEF TypeOK
<1>3. session[cookie[c]].restricted \in BOOLEAN
  BY <1>2, SessionFields
<1>4. account[session[cookie[c]].user] \in Account
  BY <1>2 DEF TypeOK
<1> QED
  BY <1>1, <1>2, <1>3, <1>4 DEF Me

\* A request about the own account.
LEMMA OwnAsks ==
    ASSUME TypeOK, NEW c \in Browser, NEW op, OwnRequest(c, op)
    PROVE  \E q : q.op = op /\ Authenticated(q) /\ Asked(c, q)
<1> DEFINE q == Merged([op |-> op], Merged([ready |-> FALSE], Me(c)))
<1>1. Signed(c) /\ Asks(c, op, Merged([ready |-> FALSE], Me(c)))
  BY DEF OwnRequest
<1>2. PICK u, s, m, t : Me(c) = [user |-> u, session |-> s, me |-> m, restricted |-> t]
  BY DEF Me
<1>3. /\ u \in DOMAIN account /\ m = account[u] /\ m \in Account
      /\ s \in DOMAIN session /\ t \in BOOLEAN
  BY <1>1, <1>2, MeFields
<1>4. q.op = op /\ q.ready = FALSE /\ q.user = u /\ q.session = s /\ q.me = m /\ q.restricted = t
  BY <1>2 DEF Merged
<1>5. Asked(c, q)
  BY <1>1 DEF Asks, Asked, rows, history
<1>6. Own \subseteq DOMAIN q
  BY <1>2 DEF Merged, Own
<1> HIDE DEF q
<1> QED
  BY <1>3, <1>4, <1>5, <1>6 DEF Authenticated

\* A request of an administrator, with what it asks for.
LEMMA AdminAsks ==
    ASSUME TypeOK, NEW c \in Browser, NEW op, NEW asked, AdminRequest(c, op, asked),
           DOMAIN asked \subseteq {"target", "role", "active", "roles"}
    PROVE  \E q : /\ q.op = op /\ Authenticated(q) /\ Asked(c, q)
                  /\ DOMAIN asked \subseteq DOMAIN q /\ \A f \in DOMAIN asked : q[f] = asked[f]
<1> DEFINE q == Merged([op |-> op], Merged([ready |-> FALSE], Merged(asked, Me(c))))
<1>1. Signed(c) /\ Asks(c, op, Merged([ready |-> FALSE], Merged(asked, Me(c))))
  BY DEF AdminRequest
<1>2. PICK u, s, m, t : Me(c) = [user |-> u, session |-> s, me |-> m, restricted |-> t]
  BY DEF Me
<1>3. /\ u \in DOMAIN account /\ m = account[u] /\ m \in Account
      /\ s \in DOMAIN session /\ t \in BOOLEAN
  BY <1>1, <1>2, MeFields
<1>4. q.op = op /\ q.ready = FALSE /\ q.user = u /\ q.session = s /\ q.me = m /\ q.restricted = t
  BY <1>2 DEF Merged
<1>5. DOMAIN asked \subseteq DOMAIN q /\ \A f \in DOMAIN asked : q[f] = asked[f]
  BY DEF Merged
<1>6. Asked(c, q)
  BY <1>1 DEF Asks, Asked, rows, history
<1>7. Own \subseteq DOMAIN q
  BY <1>2 DEF Merged, Own
<1> HIDE DEF q
<1> QED
  BY <1>3, <1>4, <1>5, <1>6, <1>7 DEF Authenticated
-----------------------------------------------------------------------------
(* Requests begin and load.                                                 *)

\* The request of c becomes q, and nothing else changes.
Prepares(c, q) ==
    /\ q.op # "idle" /\ (request[c].op = "policy" => q.op = "policy")
    /\ request' = [request EXCEPT ![c] = q]
    /\ requests' \in 0 .. scenario.requests
    /\ UNCHANGED <<scenario, cookie, challenge, account, session, credential, codes, required,
                   miscounted, crossed>>

Starts(c) ==
    \/ setup_admin(c) \/ login(c) \/ verify_login_mfa(c) \/ logout(c) \/ me(c)
    \/ change_password(c) \/ revoke_own_session(c) \/ revoke_other_sessions(c)
    \/ enroll_mfa(c) \/ confirm_mfa(c) \/ disable_mfa(c) \/ regenerate_recovery_codes(c)
    \/ create_app_user(c) \/ update_app_user(c) \/ reset_app_user_password(c)
    \/ reset_app_user_mfa(c) \/ revoke_app_user_sessions(c) \/ revoke_app_session(c)
    \/ set_auth_policy(c)

LoadsMore(c) ==
    \/ LoadEnroll(c) \/ LoadConfirm(c) \/ LoadUpdate(c) \/ LoadReset(c) \/ LoadResetFactor(c)
    \/ LoadPolicy(c)

\* A request that has just begun is one of those that are counted.
LEMMA AskedPrepares ==
    ASSUME TypeOK, NEW c \in Browser, NEW q, Asked(c, q), q.op # "idle"
    PROVE  Prepares(c, q)
<1>1. requests \in 0 .. scenario.requests /\ scenario.requests \in Nat
  BY AccountsAssumption DEF TypeOK, ScenarioOK
<1>2. requests' \in 0 .. scenario.requests
  BY <1>1 DEF Asked
<1>3. request[c].op # "policy"
  BY DEF Asked, Idle
<1> QED
  BY <1>2, <1>3 DEF Asked, Prepares

\* A request about the own account knows the account as it is.
LEMMA OwnIsOK ==
    ASSUME TypeOK, NEW c \in Browser,
           NEW op \in {"logout", "me", "password", "revoke", "revoke_others", "enroll", "confirm",
                       "disable", "codes"},
           OwnRequest(c, op)
    PROVE  \E q : Prepares(c, q) /\ RequestOK(q) /\ KnowsFactor(q)
<1>1. PICK q : q.op = op /\ Authenticated(q) /\ Asked(c, q)
  BY OwnAsks
<1>2. Prepares(c, q)
  BY <1>1, AskedPrepares
<1>3. RequestOK(q)
  BY <1>1 DEF RequestOK, Authenticated, Targeting, Anonymous
<1>4. KnowsFactor(q)
  BY <1>1 DEF KnowsFactor, Authenticated
<1> QED
  BY <1>2, <1>3, <1>4

\* A request about an account names one that there is.
LEMMA TargetIsOK ==
    ASSUME TypeOK, NEW c \in Browser, NEW op \in {"reset_password", "reset_mfa", "revoke_user"},
           Targets(c, op)
    PROVE  \E q : Prepares(c, q) /\ RequestOK(q) /\ KnowsFactor(q)
<1>1. PICK u \in DOMAIN account : AdminRequest(c, op, [target |-> u])
  BY DEF Targets
<1> DEFINE asked == [target |-> u]
<1>2. DOMAIN asked = {"target"} /\ asked.target = u
  OBVIOUS
<1>3. AdminRequest(c, op, asked)
  BY <1>1
<1> HIDE DEF asked
<1>4. PICK q : /\ q.op = op /\ Authenticated(q) /\ Asked(c, q)
               /\ DOMAIN asked \subseteq DOMAIN q /\ \A f \in DOMAIN asked : q[f] = asked[f]
  BY <1>2, <1>3, AdminAsks
<1>5. "target" \in DOMAIN q /\ q.target = u
  BY <1>2, <1>4
<1>6. Prepares(c, q)
  BY <1>4, AskedPrepares
<1>7. RequestOK(q)
  BY <1>4, <1>5 DEF RequestOK, Authenticated, Targeting, Anonymous
<1>8. KnowsFactor(q)
  BY <1>4, <1>5 DEF KnowsFactor, Authenticated
<1> QED
  BY <1>6, <1>7, <1>8

\* A new account.
LEMMA CreateIsOK ==
    ASSUME TypeOK, NEW c \in Browser, create_app_user(c)
    PROVE  \E q : Prepares(c, q) /\ RequestOK(q) /\ KnowsFactor(q)
<1>1. PICK u \in User, r \in Role : AdminRequest(c, "create_user", [target |-> u, role |-> r])
  BY DEF create_app_user
<1> DEFINE asked == [target |-> u, role |-> r]
<1>2. DOMAIN asked = {"target", "role"} /\ asked.target = u /\ asked.role = r
  OBVIOUS
<1>3. AdminRequest(c, "create_user", asked)
  BY <1>1
<1> HIDE DEF asked
<1>4. PICK q : /\ q.op = "create_user" /\ Authenticated(q) /\ Asked(c, q)
               /\ DOMAIN asked \subseteq DOMAIN q /\ \A f \in DOMAIN asked : q[f] = asked[f]
  BY <1>2, <1>3, AdminAsks
<1>5. q.target = u /\ q.role = r
  BY <1>2, <1>4
<1>6. Prepares(c, q)
  BY <1>4, AskedPrepares
<1>7. RequestOK(q)
  BY <1>4, <1>5 DEF RequestOK, Authenticated, Targeting, Anonymous
<1>8. KnowsFactor(q)
  BY <1>4 DEF KnowsFactor
<1> QED
  BY <1>6, <1>7, <1>8

\* Another role for an account, or no access.
LEMMA UpdateIsOK ==
    ASSUME TypeOK, NEW c \in Browser, update_app_user(c)
    PROVE  \E q : Prepares(c, q) /\ RequestOK(q) /\ KnowsFactor(q)
<1>1. PICK u \in DOMAIN account, r \in Role, a \in BOOLEAN :
         AdminRequest(c, "update_user", [target |-> u, role |-> r, active |-> a])
  BY DEF update_app_user
<1> DEFINE asked == [target |-> u, role |-> r, active |-> a]
<1>2. /\ DOMAIN asked = {"target", "role", "active"}
      /\ asked.target = u /\ asked.role = r /\ asked.active = a
  OBVIOUS
<1>3. AdminRequest(c, "update_user", asked)
  BY <1>1
<1> HIDE DEF asked
<1>4. PICK q : /\ q.op = "update_user" /\ Authenticated(q) /\ Asked(c, q)
               /\ DOMAIN asked \subseteq DOMAIN q /\ \A f \in DOMAIN asked : q[f] = asked[f]
  BY <1>2, <1>3, AdminAsks
<1>5. {"target", "role", "active"} \subseteq DOMAIN q /\ q.target = u /\ q.role = r /\ q.active = a
  BY <1>2, <1>4
<1>6. Prepares(c, q)
  BY <1>4, AskedPrepares
<1>7. RequestOK(q)
  BY <1>4, <1>5 DEF RequestOK, Authenticated, Targeting, Anonymous
<1>8. KnowsFactor(q)
  BY <1>4 DEF KnowsFactor
<1> QED
  BY <1>6, <1>7, <1>8
\* The end of one session.
LEMMA RevokeSessionIsOK ==
    ASSUME TypeOK, NEW c \in Browser, revoke_app_session(c)
    PROVE  \E q : Prepares(c, q) /\ RequestOK(q) /\ KnowsFactor(q)
<1> DEFINE asked == <<>>
<1>1. DOMAIN asked = {} /\ AdminRequest(c, "revoke_session", asked)
  BY DEF revoke_app_session
<1> HIDE DEF asked
<1>2. PICK q : q.op = "revoke_session" /\ Authenticated(q) /\ Asked(c, q)
  BY <1>1, AdminAsks
<1>3. Prepares(c, q)
  BY <1>2, AskedPrepares
<1>4. RequestOK(q)
  BY <1>2 DEF RequestOK, Authenticated, Targeting, Anonymous
<1>5. KnowsFactor(q)
  BY <1>2 DEF KnowsFactor
<1> QED
  BY <1>3, <1>4, <1>5

\* Other roles that need a second factor.
LEMMA PolicyIsOK ==
    ASSUME TypeOK, NEW c \in Browser, set_auth_policy(c)
    PROVE  \E q : Prepares(c, q) /\ RequestOK(q) /\ KnowsFactor(q)
<1>1. PICK roles \in SUBSET Role : AdminRequest(c, "policy", [roles |-> roles])
  BY DEF set_auth_policy
<1> DEFINE asked == [roles |-> roles]
<1>2. DOMAIN asked = {"roles"} /\ asked.roles = roles
  OBVIOUS
<1>3. AdminRequest(c, "policy", asked)
  BY <1>1
<1> HIDE DEF asked
<1>4. PICK q : /\ q.op = "policy" /\ Authenticated(q) /\ Asked(c, q)
               /\ DOMAIN asked \subseteq DOMAIN q /\ \A f \in DOMAIN asked : q[f] = asked[f]
  BY <1>2, <1>3, AdminAsks
<1>5. "roles" \in DOMAIN q /\ q.roles = roles
  BY <1>2, <1>4
<1>6. Prepares(c, q)
  BY <1>4, AskedPrepares
<1>7. RequestOK(q)
  BY <1>4, <1>5 DEF RequestOK, Authenticated, Targeting, Anonymous
<1>8. KnowsFactor(q)
  BY <1>4 DEF KnowsFactor
<1> QED
  BY <1>6, <1>7, <1>8

\* The first account.
LEMMA SetupIsOK ==
    ASSUME TypeOK, NEW c \in Browser, setup_admin(c)
    PROVE  \E q : Prepares(c, q) /\ RequestOK(q) /\ KnowsFactor(q)
<1>1. PICK u \in User : Asks(c, "setup", [user |-> u])
  BY DEF setup_admin
<1> DEFINE q == Merged([op |-> "setup"], [user |-> u])
<1>2. q.op = "setup" /\ q.user = u
  BY DEF Merged
<1>3. Asked(c, q)
  BY <1>1 DEF Asks, Asked, rows, history
<1> HIDE DEF q
<1>4. Prepares(c, q)
  BY <1>2, <1>3, AskedPrepares
<1>5. RequestOK(q)
  BY <1>2 DEF RequestOK, Targeting, Anonymous
<1>6. KnowsFactor(q)
  BY <1>2 DEF KnowsFactor
<1> QED
  BY <1>4, <1>5, <1>6

\* A password or a code is sent for an account that there is.
LEMMA SigningInIsOK ==
    ASSUME TypeOK, NEW c \in Browser, NEW op \in {"login", "verify"}, NEW u \in DOMAIN account,
           Asks(c, op, [user |-> u, me |-> account[u]])
    PROVE  \E q : Prepares(c, q) /\ RequestOK(q) /\ KnowsFactor(q)
<1> DEFINE q == Merged([op |-> op], [user |-> u, me |-> account[u]])
<1>1. q.op = op /\ q.user = u /\ q.me = account[u]
  BY DEF Merged
<1>2. Asked(c, q)
  BY DEF Asks, Asked, rows, history
<1> HIDE DEF q
<1>3. account[u] \in Account
  BY DEF TypeOK
<1>4. Prepares(c, q)
  BY <1>1, <1>2, AskedPrepares
<1>5. RequestOK(q)
  BY <1>1, <1>3 DEF RequestOK, Targeting, Anonymous
<1>6. KnowsFactor(q)
  BY <1>1 DEF KnowsFactor
<1> QED
  BY <1>4, <1>5, <1>6

\* Whatever a request begins with is what its kind of request has.
LEMMA StartsAreOK ==
    ASSUME TypeOK, NEW c \in Browser, Starts(c)
    PROVE  \E q : Prepares(c, q) /\ RequestOK(q) /\ KnowsFactor(q)
<1>1. CASE setup_admin(c)
  BY <1>1, SetupIsOK
<1>2. CASE login(c)
  BY <1>2, SigningInIsOK DEF login
<1>3. CASE verify_login_mfa(c)
  <2>1. challenge[c] \in DOMAIN account
    BY <1>3 DEF verify_login_mfa, TypeOK
  <2> QED
    BY <1>3, <2>1, SigningInIsOK DEF verify_login_mfa
<1>4. CASE \/ logout(c) \/ me(c) \/ change_password(c) \/ revoke_own_session(c)
           \/ revoke_other_sessions(c) \/ enroll_mfa(c) \/ confirm_mfa(c) \/ disable_mfa(c)
           \/ regenerate_recovery_codes(c)
  BY <1>4, OwnIsOK DEF logout, me, change_password, revoke_own_session, revoke_other_sessions,
     enroll_mfa, confirm_mfa, disable_mfa, regenerate_recovery_codes
<1>5. CASE \/ reset_app_user_password(c) \/ reset_app_user_mfa(c) \/ revoke_app_user_sessions(c)
  BY <1>5, TargetIsOK DEF reset_app_user_password, reset_app_user_mfa, revoke_app_user_sessions
<1>6. CASE create_app_user(c)
  BY <1>6, CreateIsOK
<1>7. CASE update_app_user(c)
  BY <1>7, UpdateIsOK
<1>8. CASE revoke_app_session(c)
  BY <1>8, RevokeSessionIsOK
<1>9. CASE set_auth_policy(c)
  BY <1>9, PolicyIsOK
<1> QED
  BY <1>1, <1>2, <1>3, <1>4, <1>5, <1>6, <1>7, <1>8, <1>9 DEF Starts

\* Loading adds to what a request has.
LEMMA LoadsFields ==
    ASSUME NEW p, NEW more, "ready" \in DOMAIN p, "ready" \notin DOMAIN more
    PROVE  LET q == Merged(more, [p EXCEPT !.ready = TRUE])
           IN /\ DOMAIN q = DOMAIN p \cup DOMAIN more /\ q.ready = TRUE
              /\ \A f \in DOMAIN p \ (DOMAIN more \cup {"ready"}) : q[f] = p[f]
              /\ \A f \in DOMAIN more : q[f] = more[f]
BY DEF Merged

\* A request that loads its credential.
LEMMA CredentialIsOK ==
    ASSUME TypeOK, RequestsOK, NEW c \in Browser, NEW op \in {"enroll", "confirm"},
           LoadsCredential(c, op)
    PROVE  \E q : Prepares(c, q) /\ RequestOK(q) /\ KnowsFactor(q)
<1> DEFINE p == request[c]
           more == [credential |-> credential[p.user]]
           q == Merged(more, [p EXCEPT !.ready = TRUE])
<1>1. /\ p.op = op /\ ~p.ready /\ request' = [request EXCEPT ![c] = q]
      /\ UNCHANGED <<scenario, requests, cookie, challenge, rows, history>>
  BY DEF TypeOK, LoadsCredential, Loads
<1>2. RequestOK(p)
  BY DEF RequestsOK
<1>3. DOMAIN more = {"credential"}
  OBVIOUS
<1>4. Own \subseteq DOMAIN p
  BY <1>1, <1>2 DEF RequestOK, Anonymous
<1> HIDE DEF p, more
<1>5. /\ DOMAIN q = DOMAIN p \cup DOMAIN more /\ q.ready = TRUE
      /\ \A f \in DOMAIN p \ (DOMAIN more \cup {"ready"}) : q[f] = p[f]
  BY <1>3, <1>4, LoadsFields DEF Own
<1> HIDE DEF q
<1>6. /\ q.op = p.op /\ q.user = p.user /\ q.me = p.me /\ q.session = p.session
      /\ q.restricted = p.restricted
  BY <1>3, <1>4, <1>5 DEF Own
<1>7. Prepares(c, q)
  BY <1>1, <1>6 DEF Prepares, TypeOK, rows, history, p
<1>8. RequestOK(q)
  BY <1>1, <1>2, <1>4, <1>5, <1>6 DEF RequestOK, Anonymous, Targeting
<1>9. KnowsFactor(q)
  BY <1>1, <1>6 DEF KnowsFactor
<1> QED
  BY <1>7, <1>8, <1>9
\* A request that loads its target: its own row as it was, or the row there is.
LEMMA TargetLoadIsOK ==
    ASSUME TypeOK, RequestsOK, FactorIsKnown, NEW c \in Browser, NEW op \in Targeting,
           LoadsTarget(c, op)
    PROVE  \E q : Prepares(c, q) /\ RequestOK(q) /\ KnowsFactor(q)
<1> DEFINE p == request[c]
           row == Loaded(c, p.target)
           more == [loaded |-> row, count |-> Cardinality(ActiveAdministrators)]
           q == Merged(more, [p EXCEPT !.ready = TRUE])
<1>1. /\ p.op = op /\ ~p.ready /\ request' = [request EXCEPT ![c] = q]
      /\ UNCHANGED <<scenario, requests, cookie, challenge, rows, history>>
  BY DEF TypeOK, LoadsTarget, Loads
<1>2. RequestOK(p) /\ KnowsFactor(p)
  BY DEF RequestsOK, FactorIsKnown
<1>3. row = IF p.target = p.user THEN p.me ELSE account[p.target]
  BY DEF Loaded
<1>4. DOMAIN more = {"loaded", "count"} /\ more.loaded = row
  OBVIOUS
<1>5. /\ Own \subseteq DOMAIN p /\ p.user \in DOMAIN account /\ p.me \in Account
      /\ "target" \in DOMAIN p /\ p.target \in DOMAIN account
      /\ p.session \in DOMAIN session /\ p.restricted \in BOOLEAN
  BY <1>1, <1>2 DEF RequestOK, Anonymous, Targeting
<1>6. op = "update_user" =>
         {"role", "active"} \subseteq DOMAIN p /\ p.role \in Role /\ p.active \in BOOLEAN
  BY <1>1, <1>2 DEF RequestOK
<1> HIDE DEF p, more, row
<1>7. /\ DOMAIN q = DOMAIN p \cup DOMAIN more /\ q.ready = TRUE
      /\ \A f \in DOMAIN p \ (DOMAIN more \cup {"ready"}) : q[f] = p[f]
      /\ \A f \in DOMAIN more : q[f] = more[f]
  <2>1. "ready" \in DOMAIN p /\ "ready" \notin DOMAIN more
    BY <1>4, <1>5 DEF Own
  <2> HIDE DEF q
  <2> QED
    BY <2>1, LoadsFields DEF q
<1> HIDE DEF q
<1>8. /\ q.op = op /\ q.user = p.user /\ q.me = p.me /\ q.session = p.session
      /\ q.restricted = p.restricted /\ q.target = p.target /\ q.loaded = row
      /\ Own \subseteq DOMAIN q /\ "target" \in DOMAIN q
  BY <1>1, <1>4, <1>5, <1>7 DEF Own
<1>9. op = "update_user" =>
         {"role", "active"} \subseteq DOMAIN q /\ q.role = p.role /\ q.active = p.active
  BY <1>4, <1>6, <1>7
<1>10. row \in Account
  BY <1>3, <1>5 DEF TypeOK
<1>11. Prepares(c, q)
  BY <1>1, <1>8 DEF Prepares, TypeOK, rows, history, p, Targeting
<1>12. RequestOK(q)
  BY <1>5, <1>6, <1>7, <1>8, <1>9, <1>10 DEF RequestOK, Anonymous, Targeting
<1>13. KnowsFactor(q)
  BY <1>1, <1>2, <1>3, <1>7, <1>8 DEF KnowsFactor, Targeting
<1> QED
  BY <1>11, <1>12, <1>13

\* A new policy that loads the policy and the accounts.
LEMMA PolicyLoadIsOK ==
    ASSUME TypeOK, RequestsOK, NEW c \in Browser, LoadPolicy(c)
    PROVE  \E q : Prepares(c, q) /\ RequestOK(q) /\ KnowsFactor(q)
<1> DEFINE p == request[c]
           all == [u \in DOMAIN account |-> Loaded(c, u)]
           more == [required |-> required, accounts |-> all]
           q == Merged(more, [p EXCEPT !.ready = TRUE])
<1>1. /\ p.op = "policy" /\ ~p.ready /\ request' = [request EXCEPT ![c] = q]
      /\ UNCHANGED <<scenario, requests, cookie, challenge, rows, history>>
  BY DEF TypeOK, LoadPolicy, Loads
<1>2. RequestOK(p)
  BY DEF RequestsOK
<1>3. /\ Own \subseteq DOMAIN p /\ p.user \in DOMAIN account /\ p.me \in Account
      /\ "roles" \in DOMAIN p /\ p.roles \in SUBSET Role
      /\ p.session \in DOMAIN session /\ p.restricted \in BOOLEAN
  BY <1>1, <1>2 DEF RequestOK, Anonymous, Targeting
<1>4. \A u \in DOMAIN all : all[u] \in Account
  BY <1>3 DEF Loaded, TypeOK
<1> HIDE DEF p, all
<1>5. DOMAIN more = {"required", "accounts"} /\ more.accounts = all
  OBVIOUS
<1> HIDE DEF more
<1>6. /\ DOMAIN q = DOMAIN p \cup DOMAIN more /\ q.ready = TRUE
      /\ \A f \in DOMAIN p \ (DOMAIN more \cup {"ready"}) : q[f] = p[f]
      /\ \A f \in DOMAIN more : q[f] = more[f]
  <2>1. "ready" \in DOMAIN p /\ "ready" \notin DOMAIN more
    BY <1>3, <1>5 DEF Own
  <2> HIDE DEF q
  <2> QED
    BY <2>1, LoadsFields DEF q
<1> HIDE DEF q
<1>7. /\ q.op = "policy" /\ q.user = p.user /\ q.me = p.me /\ q.session = p.session
      /\ q.restricted = p.restricted /\ q.roles = p.roles /\ q.accounts = all
      /\ Own \subseteq DOMAIN q /\ "roles" \in DOMAIN q
  BY <1>1, <1>3, <1>5, <1>6 DEF Own
<1>8. Prepares(c, q)
  BY <1>1, <1>7 DEF Prepares, TypeOK, rows, history, p
<1>9. RequestOK(q)
  BY <1>3, <1>4, <1>6, <1>7 DEF RequestOK, Anonymous, Targeting
<1>10. KnowsFactor(q)
  BY <1>7 DEF KnowsFactor
<1> QED
  BY <1>8, <1>9, <1>10

\* A request that loads has what its kind of request has.
LEMMA LoadsAreOK ==
    ASSUME TypeOK, RequestsOK, FactorIsKnown, NEW c \in Browser, LoadsMore(c)
    PROVE  \E q : Prepares(c, q) /\ RequestOK(q) /\ KnowsFactor(q)
<1>1. CASE LoadEnroll(c) \/ LoadConfirm(c)
  BY <1>1, CredentialIsOK DEF LoadEnroll, LoadConfirm
<1>2. CASE LoadUpdate(c) \/ LoadReset(c) \/ LoadResetFactor(c)
  BY <1>2, TargetLoadIsOK DEF LoadUpdate, LoadReset, LoadResetFactor, Targeting
<1>3. CASE LoadPolicy(c)
  BY <1>3, PolicyLoadIsOK
<1> QED
  BY <1>1, <1>2, <1>3 DEF LoadsMore

\* While requests begin and load, the rows are as they were.
LEMMA PreparesIsSafe ==
    ASSUME IInv, NEW c \in Browser, NEW q, Prepares(c, q), RequestOK(q), KnowsFactor(q)
    PROVE  IInv'
<1> USE DEF IInv
<1>1. UNCHANGED <<scenario, cookie, challenge, account, session, credential, codes, required,
                  miscounted, crossed>>
  BY DEF Prepares
<1>2. DOMAIN request' = Browser /\ request'[c] = q
  BY DEF Prepares, TypeOK
<1>3. ASSUME NEW d \in Browser, d # c
      PROVE  request'[d] = request[d]
  BY <1>3 DEF Prepares, TypeOK
<1>4. TypeOK'
  <2>1. BoundsOK'
    BY <1>1, <1>2, TypeParts DEF Prepares, BoundsOK
  <2>2. RowsOK'
    BY <1>1, TypeParts DEF RowsOK
  <2> QED
    BY <2>1, <2>2, TypePartsPrimed
<1>5. RequestsOK'
  <2> SUFFICES ASSUME NEW d \in Browser PROVE RequestOK(request[d])'
    BY DEF RequestsOK
  <2>1. CASE d = c
    BY <1>1, <1>2, <2>1 DEF RequestOK
  <2>2. CASE d # c
    <3>1. RequestOK(request[d])
      BY DEF RequestsOK
    <3> QED
      BY <1>1, <1>3, <2>2, <3>1 DEF RequestOK
  <2> QED
    BY <2>1, <2>2
<1>6. AdministratorRemains' /\ EnabledHasCredential'
  BY <1>1 DEF AdministratorRemains, EnabledHasCredential, ActiveAdministrators
<1>7. FactorIsKnown'
  <2> SUFFICES ASSUME NEW d \in Browser PROVE KnowsFactor(request[d])'
    BY DEF FactorIsKnown
  <2>1. CASE d = c
    BY <1>1, <1>2, <2>1 DEF KnowsFactor
  <2>2. CASE d # c
    <3>1. KnowsFactor(request[d])
      BY DEF FactorIsKnown
    <3> QED
      BY <1>1, <1>3, <2>2, <3>1 DEF KnowsFactor
  <2> QED
    BY <2>1, <2>2
<1> QED
  BY <1>4, <1>5, <1>6, <1>7
-----------------------------------------------------------------------------
(* Requests end: what happens to the sessions.                              *)

\* S has the sessions that there are, with those revoked that were.
KeepsSessions(S) ==
    /\ DOMAIN S = DOMAIN session
    /\ \A s \in DOMAIN session :
          /\ S[s] \in Session /\ S[s].user = session[s].user
          /\ session[s].revoked => S[s].revoked

SessionStep ==
    /\ DOMAIN session \subseteq DOMAIN session' /\ DOMAIN session' \subseteq SessionId
    /\ \A s \in DOMAIN session' : session'[s] \in Session /\ session'[s].user \in DOMAIN account'
    /\ \A s \in DOMAIN session : session[s].revoked => session'[s].revoked
    /\ cookie' \in [Browser -> DOMAIN session' \cup {None}]

\* The UPDATE of the sessions.
LEMMA RevokedKeeps ==
    ASSUME TypeOK, NEW gone
    PROVE  KeepsSessions(Revoked(gone))
<1> DEFINE S == Revoked(gone)
<1>1. DOMAIN S = DOMAIN session
  BY DEF Revoked
<1>2. ASSUME NEW s \in DOMAIN session
      PROVE  S[s] \in Session /\ S[s].user = session[s].user /\ (session[s].revoked => S[s].revoked)
  <2>1. session[s] \in Session
    BY <1>2 DEF TypeOK
  <2>2. PICK u \in User, r \in BOOLEAN, t \in BOOLEAN :
           session[s] = [user |-> u, revoked |-> r, restricted |-> t]
    BY <2>1 DEF Session
  <2>3. CASE s \in gone
    <3>1. S[s] = [user |-> u, revoked |-> TRUE, restricted |-> t]
      <4>1. S[s] = [session[s] EXCEPT !.revoked = TRUE]
        BY <1>2, <2>3 DEF Revoked
      <4>2. [session[s] EXCEPT !.revoked = TRUE]
               = [f \in {"user", "revoked", "restricted"} |->
                    IF f = "revoked" THEN TRUE ELSE session[s][f]]
        BY <2>2
      <4>3. session[s].user = u /\ session[s].restricted = t
        BY <2>2
      <4> QED
        BY <4>1, <4>2, <4>3
    <3> HIDE DEF S
    <3>2. S[s].user = u /\ S[s].revoked = TRUE
      BY <3>1
    <3>3. S[s] \in Session
      BY <3>1 DEF Session
    <3> QED
      BY <2>2, <3>2, <3>3
  <2>4. CASE s \notin gone
    <3>1. S[s] = session[s]
      BY <1>2, <2>4 DEF Revoked
    <3> HIDE DEF S
    <3> QED
      BY <2>1, <3>1
  <2> QED
    BY <2>3, <2>4
<1> HIDE DEF S
<1>3. KeepsSessions(S)
  BY <1>1, <1>2 DEF KeepsSessions
<1> QED
  BY <1>3 DEF S

\* The own session, with the restriction that the loaded row asks for.
LEMMA RefreshedKeeps ==
    ASSUME TypeOK, NEW c \in Browser, NEW a \in Account, request[c].session \in DOMAIN session
    PROVE  KeepsSessions(Refreshed(c, a))
<1> DEFINE q == request[c]
           own == q.session
           x == session[own]
           need == NeedsOnboarding(a)
           S == [session EXCEPT ![own].restricted = need]
<1>1. KeepsSessions(session)
  BY DEF KeepsSessions, TypeOK
<1>2. KeepsSessions(S)
  <2>1. /\ x = [user |-> x.user, revoked |-> x.revoked, restricted |-> x.restricted]
        /\ x.user \in User /\ x.revoked \in BOOLEAN /\ x.restricted \in BOOLEAN
    BY SessionFields DEF TypeOK
  <2>2. need \in BOOLEAN
    BY OnboardingType
  <2>3. DOMAIN S = DOMAIN session /\ S[own] = [x EXCEPT !.restricted = need]
    OBVIOUS
  <2>4. \A s \in DOMAIN session : s # own => S[s] = session[s]
    OBVIOUS
  <2>5. x = session[own] /\ own \in DOMAIN session
    OBVIOUS
  <2> HIDE DEF x, S, own, need
  <2>6. S[own] = [user |-> x.user, revoked |-> x.revoked, restricted |-> need]
    BY <2>1, <2>3
  <2>7. S[own].user = x.user /\ S[own].revoked = x.revoked
    BY <2>6
  <2>8. S[own] \in Session
    BY <2>1, <2>2, <2>6 DEF Session
  <2>9. \A s \in DOMAIN session : session[s] \in Session
    BY DEF TypeOK
  <2>10. ASSUME NEW s \in DOMAIN session
         PROVE  /\ S[s] \in Session /\ S[s].user = session[s].user
                /\ session[s].revoked => S[s].revoked
    <3>1. CASE s = own
      BY <2>5, <2>7, <2>8, <3>1
    <3>2. CASE s # own
      BY <2>4, <2>9, <3>2
    <3> QED
      BY <3>1, <3>2
  <2> QED
    BY <2>3, <2>10 DEF KeepsSessions
<1>3. Refreshed(c, a) = session \/ Refreshed(c, a) = S
  BY DEF Refreshed
<1> HIDE DEF S
<1> QED
  BY <1>1, <1>2, <1>3

\* No session begins.
LEMMA KeptSessions ==
    ASSUME TypeOK, KeepsSessions(session'), DOMAIN account \subseteq DOMAIN account',
           cookie' \in [Browser -> DOMAIN session \cup {None}]
    PROVE  SessionStep
BY DEF SessionStep, KeepsSessions, TypeOK

\* A session begins, under an id that no session has had.
LEMMA SignInStep ==
    ASSUME TypeOK, NEW c \in Browser, NEW u \in User, NEW a \in Account, NEW S,
           KeepsSessions(S), SignIn(c, u, a, S), u \in DOMAIN account',
           DOMAIN account \subseteq DOMAIN account'
    PROVE  SessionStep
<1> DEFINE n == CHOOSE t \in SessionId : t \notin DOMAIN session
           row == [user |-> u, revoked |-> FALSE, restricted |-> NeedsOnboarding(a)]
<1>1. /\ DOMAIN session # SessionId /\ session' = With(S, n, row)
      /\ cookie' = [cookie EXCEPT ![c] = n]
  BY DEF SignIn
<1>2. \E t \in SessionId : t \notin DOMAIN session
  BY <1>1 DEF TypeOK
<1>3. n \in SessionId /\ n \notin DOMAIN session
  BY <1>2
<1>4. row \in Session /\ row.user = u
  BY OnboardingType DEF Session
<1> HIDE DEF n, row
<1>5. /\ DOMAIN session' = DOMAIN session \cup {n} /\ session'[n] = row
      /\ \A s \in DOMAIN session : session'[s] = S[s]
  BY <1>1, <1>3 DEF With, KeepsSessions
<1>6. \A s \in DOMAIN session : S[s] \in Session /\ S[s].user \in DOMAIN account'
  BY DEF KeepsSessions, TypeOK
<1>7. \A s \in DOMAIN session : session[s].revoked => session'[s].revoked
  BY <1>5 DEF KeepsSessions
<1>8. cookie' \in [Browser -> DOMAIN session' \cup {None}]
  BY <1>1, <1>5 DEF TypeOK
<1>9. DOMAIN session \subseteq DOMAIN session' /\ DOMAIN session' \subseteq SessionId
  BY <1>3, <1>5 DEF TypeOK
<1>10. \A s \in DOMAIN session' : session'[s] \in Session /\ session'[s].user \in DOMAIN account'
  BY <1>4, <1>5, <1>6
<1> QED
  BY <1>7, <1>8, <1>9, <1>10 DEF SessionStep
-----------------------------------------------------------------------------
(* Requests end: what happens to the accounts.                              *)

AccountStep ==
    /\ DOMAIN account \subseteq DOMAIN account' /\ DOMAIN account' \subseteq User
    /\ \A u \in DOMAIN account' : account'[u] \in Account

\* Where an account starts to ask for a code, no other request is about to
\* delete its secret; or else the account has crossed.
Deletes(q, u) ==
    \/ q.op = "disable" /\ q.user = u
    \/ q.op = "reset_mfa" /\ q.target = u

FactorStep(c) ==
    /\ crossed \subseteq crossed' /\ crossed' \subseteq User
    /\ \A u \in DOMAIN account \ crossed' :
          account'[u].mfa /\ ~account[u].mfa => \A d \in Browser \ {c} : ~Deletes(request[d], u)

\* One row changes, and not what its user may do.
LEMMA RightsStay ==
    ASSUME IInv, NEW u \in DOMAIN account, NEW w \in Account,
           account' = [account EXCEPT ![u] = w],
           w.role = account[u].role, w.active = account[u].active, UNCHANGED miscounted
    PROVE  /\ AccountStep /\ DOMAIN account' = DOMAIN account /\ AdministratorRemains'
           /\ account'[u] = w /\ \A v \in DOMAIN account : v # u => account'[v] = account[v]
<1>1. /\ DOMAIN account' = DOMAIN account /\ account'[u] = w
      /\ \A v \in DOMAIN account : v # u => account'[v] = account[v]
  OBVIOUS
<1>2. AccountStep
  BY <1>1 DEF AccountStep, IInv, TypeOK
<1>3. \A v \in DOMAIN account :
         account'[v].role = account[v].role /\ account'[v].active = account[v].active
  BY <1>1
<1>4. ActiveAdministrators \subseteq ActiveAdministrators'
  BY <1>1, <1>3 DEF ActiveAdministrators
<1>5. AdministratorRemains'
  BY <1>1, <1>4 DEF IInv, AdministratorRemains
<1> QED
  BY <1>1, <1>2, <1>5

\* The request of c ends, and its changes keep what the invariant says.
LEMMA EndsSafely ==
    ASSUME IInv, NEW c \in Browser, NEW op, Ends(c, op), SessionStep, AccountStep, FactorStep(c),
           challenge' \in [Browser -> DOMAIN account' \cup {None}],
           credential' \in [User -> {"none", "started", "enrolled"}],
           codes' \subseteq DOMAIN account', required' \subseteq Role, miscounted' \in BOOLEAN,
           AdministratorRemains', EnabledHasCredential'
    PROVE  IInv'
<1>1. TypeOK /\ RequestsOK /\ FactorIsKnown
  BY DEF IInv
<1>2. /\ request' = [request EXCEPT ![c] = Idle] /\ UNCHANGED <<scenario, requests>>
      /\ DOMAIN request = Browser
  BY <1>1 DEF Ends, TypeOK
<1>3. /\ DOMAIN request' = Browser /\ request'[c] = Idle
      /\ \A d \in Browser : d # c => request'[d] = request[d]
  BY <1>2
<1>4. TypeOK'
  <2>1. BoundsOK'
    BY <1>1, <1>2, TypeParts DEF BoundsOK
  <2>2. RowsOK'
    BY DEF RowsOK, SessionStep, AccountStep, FactorStep
  <2> QED
    BY <2>1, <2>2, TypePartsPrimed
<1>5. DOMAIN account \subseteq DOMAIN account' /\ DOMAIN session \subseteq DOMAIN session'
  BY DEF AccountStep, SessionStep
<1>6. RequestsOK'
  <2> SUFFICES ASSUME NEW d \in Browser PROVE RequestOK(request[d])'
    BY DEF RequestsOK
  <2>1. CASE d = c
    BY <1>3, <2>1 DEF RequestOK, Idle, Anonymous, Targeting
  <2>2. CASE d # c
    <3>1. RequestOK(request[d]) /\ request'[d] = request[d]
      BY <1>1, <1>3, <2>2 DEF RequestsOK
    <3> QED
      BY <1>5, <3>1 DEF RequestOK
  <2> QED
    BY <2>1, <2>2
<1>7. FactorIsKnown'
  <2> SUFFICES ASSUME NEW d \in Browser PROVE KnowsFactor(request[d])'
    BY DEF FactorIsKnown
  <2>1. CASE d = c
    BY <1>3, <2>1 DEF KnowsFactor, Idle
  <2>2. CASE d # c
    <3> DEFINE q == request[d]
    <3>1. KnowsFactor(q) /\ RequestOK(q) /\ request'[d] = q
      BY <1>1, <1>3, <2>2 DEF FactorIsKnown, RequestsOK
    <3> HIDE DEF q
    <3>2. ASSUME NEW u \in DOMAIN account, u \notin crossed', account'[u].mfa, Deletes(q, u)
          PROVE  u \notin crossed /\ account[u].mfa
      BY <2>2, <3>2 DEF FactorStep, q
    <3>3. q.op = "disable" => q.user \in DOMAIN account
      BY <3>1 DEF RequestOK
    <3>4. q.op = "reset_mfa" => q.target \in DOMAIN account
      BY <3>1 DEF RequestOK, Targeting
    <3>5. ASSUME q.op = "disable", q.user \notin crossed', account'[q.user].mfa
          PROVE  q.me.mfa
      <4>1. Deletes(q, q.user)
        BY <3>5 DEF Deletes
      <4>2. q.user \notin crossed /\ account[q.user].mfa
        BY <3>2, <3>3, <3>5, <4>1
      <4> QED
        BY <3>1, <3>5, <4>2 DEF KnowsFactor
    <3>6. ASSUME q.op = "reset_mfa", q.target \notin crossed', account'[q.target].mfa
          PROVE  IF q.ready THEN q.loaded.mfa ELSE q.target = q.user => q.me.mfa
      <4>1. Deletes(q, q.target)
        BY <3>6 DEF Deletes
      <4>2. q.target \notin crossed /\ account[q.target].mfa
        BY <3>2, <3>4, <3>6, <4>1
      <4> QED
        BY <3>1, <3>6, <4>2 DEF KnowsFactor
    <3> QED
      BY <3>1, <3>5, <3>6 DEF KnowsFactor
  <2> QED
    BY <2>1, <2>2
<1> QED
  BY <1>4, <1>6, <1>7 DEF IInv
-----------------------------------------------------------------------------
(* Requests that end without a change to an account or a second factor.     *)

\* Only sessions, challenges, recovery codes and the policy change.
LEMMA SessionsOnly ==
    ASSUME IInv, NEW c \in Browser, NEW op, Ends(c, op), SessionStep,
           UNCHANGED <<account, credential, miscounted, crossed>>,
           challenge' \in [Browser -> DOMAIN account \cup {None}],
           codes' \subseteq DOMAIN account, required' \subseteq Role
    PROVE  IInv'
<1>1. TypeOK
  BY DEF IInv
<1>2. AccountStep
  BY <1>1 DEF AccountStep, TypeOK
<1>3. FactorStep(c)
  BY <1>1 DEF FactorStep, TypeOK
<1>4. AdministratorRemains' /\ EnabledHasCredential'
  BY DEF IInv, AdministratorRemains, EnabledHasCredential, ActiveAdministrators
<1>5. /\ challenge' \in [Browser -> DOMAIN account' \cup {None}]
      /\ credential' \in [User -> {"none", "started", "enrolled"}]
      /\ codes' \subseteq DOMAIN account' /\ miscounted' \in BOOLEAN
  BY <1>1 DEF TypeOK
<1> QED
  BY <1>2, <1>3, <1>4, <1>5, EndsSafely

\* The sessions, and the cookies but for one that is cleared, stay.
LEMMA SessionsEnd ==
    ASSUME IInv, NEW c \in Browser, NEW op, Ends(c, op), KeepsSessions(session'),
           cookie' = cookie \/ cookie' = [cookie EXCEPT ![c] = None],
           UNCHANGED <<challenge, account, credential, miscounted, crossed>>,
           codes' \subseteq DOMAIN account, required' \subseteq Role
    PROVE  IInv' /\ SessionStep
<1>1. TypeOK
  BY DEF IInv
<1>2. cookie' \in [Browser -> DOMAIN session \cup {None}]
  BY <1>1 DEF TypeOK
<1>3. SessionStep
  BY <1>1, <1>2, KeptSessions
<1>4. challenge' \in [Browser -> DOMAIN account \cup {None}]
  BY <1>1 DEF TypeOK
<1> QED
  BY <1>3, <1>4, SessionsOnly

SessionEnds(c) ==
    \/ RefuseVerify(c) \/ FinishLogout(c) \/ FinishMe(c) \/ FinishRevoke(c)
    \/ FinishRevokeOthers(c) \/ RefuseFactor(c) \/ FinishCodes(c) \/ RefuseUpdate(c)
    \/ FinishRevokeUser(c) \/ FinishRevokeSession(c) \/ FinishPolicy(c)

\* A policy marks sessions and keeps them.
LEMMA PolicyKeeps ==
    ASSUME IInv, NEW c \in Browser, FinishPolicy(c)
    PROVE  KeepsSessions(session') /\ required' \subseteq Role
<1> DEFINE q == request[c]
           due(u) == u \in DOMAIN q.accounts /\ q.accounts[u].active
           mark(s) == Restricts(q.accounts[session[s].user], q.roles)
<1>1. TypeOK /\ RequestOK(q) /\ q.op = "policy" /\ q.ready
  BY DEF IInv, RequestsOK, FinishPolicy, Ends
<1>2. q.roles \subseteq Role /\ \A u \in DOMAIN q.accounts : q.accounts[u] \in Account
  BY <1>1 DEF RequestOK
<1>3. required' \subseteq Role
  BY <1>1, <1>2 DEF FinishPolicy, TypeOK
<1>4. DOMAIN session' = DOMAIN session
  BY DEF FinishPolicy
<1>5. ASSUME NEW s \in DOMAIN session
      PROVE  /\ session'[s] \in Session /\ session'[s].user = session[s].user
             /\ session[s].revoked => session'[s].revoked
  <2>1. session[s] \in Session
    BY <1>1, <1>5 DEF TypeOK
  <2>2. PICK u \in User, r \in BOOLEAN, t \in BOOLEAN :
           session[s] = [user |-> u, revoked |-> r, restricted |-> t]
    BY <2>1 DEF Session
  <2>3. session'[s] = IF due(session[s].user) /\ ~session[s].revoked
                      THEN [session[s] EXCEPT !.restricted = mark(s)] ELSE session[s]
    BY <1>5 DEF FinishPolicy
  <2>4. CASE due(session[s].user) /\ ~session[s].revoked
    <3>1. mark(s) \in BOOLEAN
      BY <1>2, <2>4, AccountFields DEF Restricts
    <3> HIDE DEF mark
    <3>2. session'[s] = [session[s] EXCEPT !.restricted = mark(s)]
      BY <2>3, <2>4
    <3>3. session'[s] = [f \in {"user", "revoked", "restricted"} |->
                           IF f = "restricted" THEN mark(s) ELSE session[s][f]]
      BY <2>2, <3>2
    <3>4. session[s].user = u /\ session[s].revoked = r
      BY <2>2
    <3>5. session'[s] = [user |-> u, revoked |-> r, restricted |-> mark(s)]
      BY <3>3, <3>4
    <3>6. session'[s].user = u /\ session'[s].revoked = r
      BY <3>5
    <3>7. session'[s] \in Session
      BY <3>1, <3>5 DEF Session
    <3> QED
      BY <3>4, <3>6, <3>7
  <2>5. CASE ~(due(session[s].user) /\ ~session[s].revoked)
    <3>1. session'[s] = session[s]
      BY <2>3, <2>5
    <3> QED
      BY <2>1, <3>1
  <2> QED
    BY <2>4, <2>5
<1> QED
  BY <1>3, <1>4, <1>5 DEF KeepsSessions

\* Requests that only end sessions, mark them or change nothing.
LEMMA SessionEndsSafely ==
    ASSUME IInv, NEW c \in Browser, SessionEnds(c)
    PROVE  IInv' /\ SessionStep
<1> DEFINE q == request[c]
<1>1. TypeOK /\ RequestOK(q)
  BY DEF IInv, RequestsOK
<1>2. KeepsSessions(session)
  BY <1>1 DEF KeepsSessions, TypeOK
<1>3. codes \subseteq DOMAIN account /\ required \subseteq Role
  BY <1>1 DEF TypeOK
<1>4. ASSUME RefuseVerify(c) \/ RefuseFactor(c) \/ RefuseUpdate(c)
      PROVE  IInv' /\ SessionStep
  <2>1. Refused(c)
    BY <1>4 DEF RefuseVerify, RefuseFactor, RefuseUpdate
  <2>2. /\ Ends(c, q.op) /\ session' = session /\ cookie' = cookie
        /\ UNCHANGED <<challenge, account, credential, miscounted, crossed>>
        /\ codes' = codes /\ required' = required
    BY <2>1 DEF Refused, rows, history
  <2> QED
    BY <1>2, <1>3, <2>2, SessionsEnd
<1>5. ASSUME FinishLogout(c)
      PROVE  IInv' /\ SessionStep
  <2>1. Ends(c, "logout") /\ session' = Revoked({q.session})
    BY <1>5 DEF FinishLogout
  <2>2. KeepsSessions(session')
    BY <1>1, <2>1, RevokedKeeps
  <2> QED
    BY <1>3, <1>5, <2>1, <2>2, SessionsEnd DEF FinishLogout, history
<1>6. ASSUME FinishMe(c)
      PROVE  IInv' /\ SessionStep
  <2>1. Ends(c, "me") /\ session' = Refreshed(c, q.me)
    BY <1>6 DEF FinishMe
  <2>2. q.session \in DOMAIN session /\ q.me \in Account
    BY <1>1, <2>1 DEF RequestOK, Anonymous, Ends
  <2>3. KeepsSessions(session')
    BY <1>1, <2>1, <2>2, RefreshedKeeps
  <2> QED
    BY <1>3, <1>6, <2>1, <2>3, SessionsEnd DEF FinishMe, history
<1>7. ASSUME FinishRevoke(c)
      PROVE  IInv' /\ SessionStep
  <2>1. PICK s \in DOMAIN session :
           /\ session' = Revoked({s})
           /\ cookie' = IF s = cookie[c] THEN [cookie EXCEPT ![c] = None] ELSE cookie
    BY <1>7 DEF FinishRevoke
  <2>2. KeepsSessions(session')
    BY <1>1, <2>1, RevokedKeeps
  <2>3. Ends(c, "revoke") /\ (cookie' = cookie \/ cookie' = [cookie EXCEPT ![c] = None])
    BY <1>7, <2>1 DEF FinishRevoke
  <2> QED
    BY <1>3, <1>7, <2>2, <2>3, SessionsEnd DEF FinishRevoke, history
<1>8. ASSUME FinishRevokeOthers(c)
      PROVE  IInv' /\ SessionStep
  <2>1. Ends(c, "revoke_others") /\ session' = Revoked(Live(q.user) \ {q.session})
    BY <1>8 DEF FinishRevokeOthers
  <2>2. KeepsSessions(session')
    BY <1>1, <2>1, RevokedKeeps
  <2> QED
    BY <1>3, <1>8, <2>1, <2>2, SessionsEnd DEF FinishRevokeOthers, history
<1>9. ASSUME FinishCodes(c)
      PROVE  IInv' /\ SessionStep
  <2>1. Ends(c, "codes") /\ session' = session
    BY <1>9 DEF FinishCodes
  <2>2. q.user \in DOMAIN account
    BY <1>1, <2>1 DEF RequestOK, Ends
  <2>3. codes' \subseteq DOMAIN account
    BY <1>3, <1>9, <2>2 DEF FinishCodes
  <2> QED
    BY <1>2, <1>3, <1>9, <2>1, <2>3, SessionsEnd DEF FinishCodes, history
<1>10. ASSUME FinishRevokeUser(c)
       PROVE  IInv' /\ SessionStep
  <2>1. Ends(c, "revoke_user") /\ session' = Revoked(Live(q.target))
    BY <1>10 DEF FinishRevokeUser
  <2>2. KeepsSessions(session')
    BY <1>1, <2>1, RevokedKeeps
  <2> QED
    BY <1>3, <1>10, <2>1, <2>2, SessionsEnd DEF FinishRevokeUser, history
<1>11. ASSUME FinishRevokeSession(c)
       PROVE  IInv' /\ SessionStep
  <2>1. PICK s \in DOMAIN session :
           /\ session' = Revoked({s})
           /\ cookie' = IF s = q.session THEN [cookie EXCEPT ![c] = None] ELSE cookie
    BY <1>11 DEF FinishRevokeSession
  <2>2. KeepsSessions(session')
    BY <1>1, <2>1, RevokedKeeps
  <2>3. Ends(c, "revoke_session") /\ (cookie' = cookie \/ cookie' = [cookie EXCEPT ![c] = None])
    BY <1>11, <2>1 DEF FinishRevokeSession
  <2> QED
    BY <1>3, <1>11, <2>2, <2>3, SessionsEnd DEF FinishRevokeSession, history
<1>12. ASSUME FinishPolicy(c)
       PROVE  IInv' /\ SessionStep
  <2>1. KeepsSessions(session') /\ required' \subseteq Role
    BY <1>12, PolicyKeeps
  <2>2. Ends(c, "policy")
    BY <1>12 DEF FinishPolicy
  <2> QED
    BY <1>3, <1>12, <2>1, <2>2, SessionsEnd DEF FinishPolicy, history
<1> QED
  BY <1>4, <1>5, <1>6, <1>7, <1>8, <1>9, <1>10, <1>11, <1>12 DEF SessionEnds
-----------------------------------------------------------------------------
(* Requests that end with a sign-in or a new account.                       *)

\* A password, or a code, signs in.
LEMMA SignInSafely ==
    ASSUME IInv, NEW c \in Browser, FinishLogin(c) \/ FinishVerify(c)
    PROVE  IInv' /\ SessionStep
<1> DEFINE q == request[c]
<1>1. /\ TypeOK /\ RequestOK(q) /\ KeepsSessions(session)
      /\ codes \subseteq DOMAIN account /\ required \subseteq Role
  BY DEF IInv, RequestsOK, KeepsSessions, TypeOK
<1>2. q.user \in DOMAIN account /\ q.user \in User /\ q.me \in Account
  BY <1>1 DEF RequestOK, FinishLogin, FinishVerify, Ends, TypeOK
<1>3. UNCHANGED <<account, credential, miscounted, crossed, codes, required>>
  BY DEF FinishLogin, FinishVerify, history
<1>4. Ends(c, "login") \/ Ends(c, "verify")
  BY DEF FinishLogin, FinishVerify
<1>5. challenge' \in [Browser -> DOMAIN account \cup {None}]
  BY <1>1, <1>2 DEF FinishLogin, FinishVerify, TypeOK
<1>6. SessionStep
  <2>1. CASE UNCHANGED <<session, cookie>>
    BY <1>1, <1>3, <2>1, KeptSessions DEF TypeOK
  <2>2. CASE SignIn(c, q.user, q.me, session)
    BY <1>1, <1>2, <1>3, <2>2, SignInStep
  <2> QED
    BY <2>1, <2>2 DEF FinishLogin, FinishVerify
<1> QED
  BY <1>1, <1>3, <1>4, <1>5, <1>6, SessionsOnly

\* Another account, that asks for no code.
LEMMA NewAccount ==
    ASSUME IInv, NEW c \in Browser, NEW op, Ends(c, op), SessionStep, NEW u \in User, NEW w \in Account,
           u \notin DOMAIN account, account' = With(account, u, w), w.mfa = FALSE,
           ActiveAdministrators' # {} \/ DOMAIN account # {},
           UNCHANGED <<challenge, credential, codes, required, miscounted, crossed>>
    PROVE  IInv'
<1>1. TypeOK /\ AdministratorRemains /\ EnabledHasCredential
  BY DEF IInv
<1>2. /\ DOMAIN account' = DOMAIN account \cup {u} /\ account'[u] = w
      /\ \A v \in DOMAIN account : account'[v] = account[v]
  BY DEF With
<1>3. AccountStep
  BY <1>1, <1>2 DEF AccountStep, TypeOK
<1>4. FactorStep(c)
  BY <1>1, <1>2 DEF FactorStep, TypeOK
<1>5. ActiveAdministrators \subseteq ActiveAdministrators'
  BY <1>2 DEF ActiveAdministrators
<1>6. AdministratorRemains'
  BY <1>1, <1>5 DEF AdministratorRemains
<1>7. EnabledHasCredential'
  BY <1>1, <1>2 DEF EnabledHasCredential
<1>8. /\ challenge' \in [Browser -> DOMAIN account' \cup {None}]
      /\ credential' \in [User -> {"none", "started", "enrolled"}]
      /\ codes' \subseteq DOMAIN account' /\ required' \subseteq Role /\ miscounted' \in BOOLEAN
  BY <1>1, <1>2 DEF TypeOK
<1> QED
  BY <1>3, <1>4, <1>6, <1>7, <1>8, EndsSafely

\* The first account is an active administrator.
LEMMA SetupSafely ==
    ASSUME IInv, NEW c \in Browser, FinishSetup(c)
    PROVE  IInv' /\ SessionStep
<1> DEFINE u == request[c].user
           row == [role |-> "administrator", active |-> TRUE, must_change |-> FALSE, mfa |-> FALSE]
<1>1. TypeOK /\ RequestOK(request[c]) /\ KeepsSessions(session)
  BY DEF IInv, RequestsOK, KeepsSessions, TypeOK
<1>2. Ends(c, "setup") /\ UNCHANGED <<challenge, credential, codes, required, miscounted, crossed>>
  BY DEF FinishSetup, history
<1>3. u \in User
  BY <1>1, <1>2 DEF RequestOK, Ends
<1>4. ASSUME u \in DOMAIN account
      PROVE  IInv' /\ SessionStep
  <2>1. UNCHANGED <<account, session, cookie>>
    BY <1>4 DEF FinishSetup
  <2>2. codes' \subseteq DOMAIN account /\ required' \subseteq Role
    BY <1>1, <1>2 DEF TypeOK
  <2> QED
    BY <1>1, <1>2, <2>1, <2>2, SessionsEnd
<1>5. ASSUME u \notin DOMAIN account
      PROVE  IInv' /\ SessionStep
  <2>1. account' = With(account, u, row) /\ SignIn(c, u, row, session)
    BY <1>5 DEF FinishSetup
  <2>2. row \in Account /\ row.mfa = FALSE /\ row.active /\ row.role = "administrator"
    BY AccountsAssumption DEF Account
  <2> HIDE DEF u, row
  <2>3. DOMAIN account' = DOMAIN account \cup {u} /\ account'[u] = row
    BY <2>1 DEF With
  <2>4. SessionStep
    BY <1>1, <1>3, <2>1, <2>2, <2>3, SignInStep
  <2>5. ActiveAdministrators' # {}
    BY <2>2, <2>3 DEF ActiveAdministrators
  <2>6. IInv'
    BY <1>2, <1>3, <1>5, <2>1, <2>2, <2>4, <2>5, NewAccount
  <2> QED
    BY <2>4, <2>6
<1> QED
  BY <1>4, <1>5

\* An administrator adds an account, unless its name is taken.
LEMMA CreateSafely ==
    ASSUME IInv, NEW c \in Browser, FinishCreateUser(c)
    PROVE  IInv' /\ SessionStep
<1> DEFINE q == request[c]
           row == [role |-> q.role, active |-> TRUE, must_change |-> TRUE, mfa |-> FALSE]
<1>1. /\ TypeOK /\ RequestOK(q) /\ KeepsSessions(session)
      /\ codes \subseteq DOMAIN account /\ required \subseteq Role
  BY DEF IInv, RequestsOK, KeepsSessions, TypeOK
<1>2. /\ Ends(c, "create_user")
      /\ UNCHANGED <<cookie, challenge, session, credential, codes, required, miscounted, crossed>>
  BY DEF FinishCreateUser, history
<1>3. q.target \in User /\ q.role \in Role /\ q.user \in DOMAIN account
  BY <1>1, <1>2 DEF RequestOK, Ends
<1>4. ASSUME q.target \in DOMAIN account
      PROVE  IInv' /\ SessionStep
  <2>1. account' = account
    BY <1>4 DEF FinishCreateUser
  <2> QED
    BY <1>1, <1>2, <2>1, SessionsEnd
<1>5. ASSUME q.target \notin DOMAIN account
      PROVE  IInv' /\ SessionStep
  <2>1. account' = With(account, q.target, row)
    BY <1>5 DEF FinishCreateUser
  <2>2. row \in Account /\ row.mfa = FALSE
    BY <1>3 DEF Account
  <2> HIDE DEF row
  <2>3. DOMAIN account' = DOMAIN account \cup {q.target}
    BY <2>1 DEF With
  <2>4. cookie' \in [Browser -> DOMAIN session \cup {None}]
    BY <1>1, <1>2 DEF TypeOK
  <2>5. SessionStep
    BY <1>1, <1>2, <2>3, <2>4, KeptSessions
  <2>6. IInv'
    BY <1>2, <1>3, <1>5, <2>1, <2>2, <2>5, NewAccount
  <2> QED
    BY <2>5, <2>6
<1> QED
  BY <1>4, <1>5
-----------------------------------------------------------------------------
(* Requests that end with a change to an account.                           *)

\* A row with another password is a row, and otherwise the same.
LEMMA WithPassword ==
    ASSUME NEW a \in Account, NEW b \in BOOLEAN
    PROVE  LET v == [a EXCEPT !.must_change = b]
           IN v \in Account /\ v.role = a.role /\ v.active = a.active /\ v.mfa = a.mfa
<1>1. PICK r \in Role, t \in BOOLEAN, m \in BOOLEAN, f \in BOOLEAN :
         a = [role |-> r, active |-> t, must_change |-> m, mfa |-> f]
  BY DEF Account
<1> DEFINE v == [a EXCEPT !.must_change = b]
<1>2. v = [role |-> r, active |-> t, must_change |-> b, mfa |-> f]
  BY <1>1
<1>3. a.role = r /\ a.active = t /\ a.mfa = f
  BY <1>1
<1> HIDE DEF v
<1>4. v.role = r /\ v.active = t /\ v.mfa = f
  BY <1>2
<1>5. v \in Account
  BY <1>2 DEF Account
<1> QED
  BY <1>3, <1>4, <1>5 DEF v

\* A row with or without a second factor is a row, and otherwise the same.
LEMMA WithFactor ==
    ASSUME NEW a \in Account, NEW b \in BOOLEAN
    PROVE  LET v == [a EXCEPT !.mfa = b]
           IN v \in Account /\ v.role = a.role /\ v.active = a.active /\ v.mfa = b
<1>1. PICK r \in Role, t \in BOOLEAN, m \in BOOLEAN, f \in BOOLEAN :
         a = [role |-> r, active |-> t, must_change |-> m, mfa |-> f]
  BY DEF Account
<1> DEFINE v == [a EXCEPT !.mfa = b]
<1>2. v = [role |-> r, active |-> t, must_change |-> m, mfa |-> b]
  BY <1>1
<1>3. a.role = r /\ a.active = t
  BY <1>1
<1> HIDE DEF v
<1>4. v.role = r /\ v.active = t /\ v.mfa = b
  BY <1>2
<1>5. v \in Account
  BY <1>2 DEF Account
<1> QED
  BY <1>3, <1>4, <1>5 DEF v

\* A row with other rights.
WithRights(a, r, b) == [a EXCEPT !.role = r, !.active = b]

\* It is a row, and asks for a code as before.
LEMMA RightsFields ==
    ASSUME NEW a \in Account, NEW r \in Role, NEW b \in BOOLEAN
    PROVE  LET v == WithRights(a, r, b)
           IN v \in Account /\ v.role = r /\ v.active = b /\ v.mfa = a.mfa
<1>1. PICK r0 \in Role, t \in BOOLEAN, m \in BOOLEAN, f \in BOOLEAN :
         a = [role |-> r0, active |-> t, must_change |-> m, mfa |-> f]
  BY DEF Account
<1> DEFINE v == WithRights(a, r, b)
<1>2. v = [role |-> r, active |-> b, must_change |-> m, mfa |-> f]
  <2>1. v = [x \in {"role", "active", "must_change", "mfa"} |->
               IF x = "active" THEN b ELSE IF x = "role" THEN r ELSE a[x]]
    BY <1>1 DEF WithRights
  <2>2. a.must_change = m /\ a.mfa = f
    BY <1>1
  <2> QED
    BY <2>1, <2>2
<1>3. a.mfa = f
  BY <1>1
<1> HIDE DEF v
<1>4. v.role = r /\ v.active = b /\ v.mfa = f
  BY <1>2
<1>5. v \in Account
  BY <1>2 DEF Account
<1> QED
  BY <1>3, <1>4, <1>5 DEF v

\* A row changes, and with it no second factor.
LEMMA FactorsStay ==
    ASSUME IInv, NEW c \in Browser, NEW u \in DOMAIN account, NEW w \in Account,
           account' = [account EXCEPT ![u] = w], w.mfa = account[u].mfa,
           UNCHANGED <<challenge, credential, codes, required, crossed>>
    PROVE  /\ FactorStep(c) /\ EnabledHasCredential'
           /\ challenge' \in [Browser -> DOMAIN account' \cup {None}]
           /\ credential' \in [User -> {"none", "started", "enrolled"}]
           /\ codes' \subseteq DOMAIN account' /\ required' \subseteq Role
<1>1. TypeOK /\ EnabledHasCredential
  BY DEF IInv
<1>2. DOMAIN account' = DOMAIN account /\ \A v \in DOMAIN account : account'[v].mfa = account[v].mfa
  OBVIOUS
<1>3. FactorStep(c)
  BY <1>1, <1>2 DEF FactorStep, TypeOK
<1>4. EnabledHasCredential'
  BY <1>1, <1>2 DEF EnabledHasCredential
<1> QED
  BY <1>1, <1>2, <1>3, <1>4 DEF TypeOK

\* A new password, and a new session for it.
LEMMA PasswordSafely ==
    ASSUME IInv, NEW c \in Browser, FinishPassword(c)
    PROVE  IInv' /\ SessionStep
<1> DEFINE q == request[c]
           value == [q.me EXCEPT !.must_change = FALSE]
           w == Written(q.me, value, account[q.user])
           S == Revoked(Live(q.user))
<1>1. TypeOK /\ RequestOK(q)
  BY DEF IInv, RequestsOK
<1>2. /\ Ends(c, "password") /\ account' = [account EXCEPT ![q.user] = w]
      /\ SignIn(c, q.user, value, S)
      /\ UNCHANGED <<challenge, credential, codes, required, miscounted, crossed>>
  BY DEF FinishPassword, history
<1>3. q.user \in DOMAIN account /\ q.me \in Account
  BY <1>1, <1>2 DEF RequestOK, Ends
<1>4. account[q.user] \in Account /\ q.user \in User
  BY <1>1, <1>3 DEF TypeOK
<1>5. /\ value \in Account /\ value.role = q.me.role /\ value.active = q.me.active
      /\ value.mfa = q.me.mfa
  BY <1>3, WithPassword
<1>6. KeepsSessions(S)
  BY <1>1, RevokedKeeps
<1> HIDE DEF value, S
<1>7. /\ w \in Account /\ w.role = account[q.user].role /\ w.active = account[q.user].active
      /\ w.mfa = account[q.user].mfa
  BY <1>3, <1>4, <1>5, WrittenRow
<1> HIDE DEF w
<1>8. AccountStep /\ DOMAIN account' = DOMAIN account /\ AdministratorRemains'
  BY <1>2, <1>3, <1>7, RightsStay
<1>9. /\ FactorStep(c) /\ EnabledHasCredential'
      /\ challenge' \in [Browser -> DOMAIN account' \cup {None}]
      /\ credential' \in [User -> {"none", "started", "enrolled"}]
      /\ codes' \subseteq DOMAIN account' /\ required' \subseteq Role
  BY <1>2, <1>3, <1>7, FactorsStay
<1>10. SessionStep
  BY <1>1, <1>2, <1>3, <1>4, <1>5, <1>6, <1>8, SignInStep
<1>11. miscounted' \in BOOLEAN
  BY <1>1, <1>2 DEF TypeOK
<1> QED
  BY <1>2, <1>8, <1>9, <1>10, <1>11, EndsSafely

\* A temporary password, and no session is left.
LEMMA ResetSafely ==
    ASSUME IInv, NEW c \in Browser, FinishReset(c)
    PROVE  IInv' /\ SessionStep
<1> DEFINE q == request[c]
           value == [q.loaded EXCEPT !.must_change = TRUE]
           w == Written(q.loaded, value, account[q.target])
<1>1. TypeOK /\ RequestOK(q)
  BY DEF IInv, RequestsOK
<1>2. /\ Ends(c, "reset_password") /\ q.ready /\ account' = [account EXCEPT ![q.target] = w]
      /\ session' = Revoked(Live(q.target))
      /\ UNCHANGED <<cookie, challenge, credential, codes, required, miscounted, crossed>>
  BY DEF FinishReset, history
<1>3. q.target \in DOMAIN account /\ q.loaded \in Account
  BY <1>1, <1>2 DEF RequestOK, Ends, Targeting
<1>4. account[q.target] \in Account
  BY <1>1, <1>3 DEF TypeOK
<1>5. /\ value \in Account /\ value.role = q.loaded.role /\ value.active = q.loaded.active
      /\ value.mfa = q.loaded.mfa
  BY <1>3, WithPassword
<1>6. KeepsSessions(session')
  BY <1>1, <1>2, RevokedKeeps
<1> HIDE DEF value
<1>7. /\ w \in Account /\ w.role = account[q.target].role /\ w.active = account[q.target].active
      /\ w.mfa = account[q.target].mfa
  BY <1>3, <1>4, <1>5, WrittenRow
<1> HIDE DEF w
<1>8. AccountStep /\ DOMAIN account' = DOMAIN account /\ AdministratorRemains'
  BY <1>2, <1>3, <1>7, RightsStay
<1>9. /\ FactorStep(c) /\ EnabledHasCredential'
      /\ challenge' \in [Browser -> DOMAIN account' \cup {None}]
      /\ credential' \in [User -> {"none", "started", "enrolled"}]
      /\ codes' \subseteq DOMAIN account' /\ required' \subseteq Role
  BY <1>2, <1>3, <1>7, FactorsStay
<1>10. cookie' \in [Browser -> DOMAIN session \cup {None}] /\ miscounted' \in BOOLEAN
  BY <1>1, <1>2 DEF TypeOK
<1>11. SessionStep
  BY <1>1, <1>6, <1>8, <1>10, KeptSessions
<1> QED
  BY <1>2, <1>8, <1>9, <1>10, <1>11, EndsSafely
\* Other rights.  Who goes as the last administrator goes by a count that is out
\* of date.
LEMMA UpdateSafely ==
    ASSUME IInv, NEW c \in Browser, FinishUpdate(c)
    PROVE  IInv' /\ SessionStep
<1> DEFINE q == request[c]
           t == q.target
           value == [q.loaded EXCEPT !.role = q.role, !.active = q.active]
           w == Written(q.loaded, value, account[t])
           stale == q.loaded # account[t] \/ q.count # Cardinality(ActiveAdministrators)
<1>1. TypeOK /\ RequestOK(q) /\ AdministratorRemains
  BY DEF IInv, RequestsOK
<1>2. /\ Ends(c, "update_user") /\ q.ready /\ account' = [account EXCEPT ![t] = w]
      /\ ~(Removing(q) /\ LastAdministrator(q))
      /\ UNCHANGED <<cookie, challenge, credential, codes, required, crossed>>
  BY DEF FinishUpdate
<1>3. miscounted' = (miscounted \/ (stale /\ t \in ActiveAdministrators \ ActiveAdministrators'))
  BY DEF FinishUpdate
<1>4. t \in DOMAIN account /\ q.loaded \in Account /\ q.role \in Role /\ q.active \in BOOLEAN
  BY <1>1, <1>2 DEF RequestOK, Ends, Targeting
<1>5. account[t] \in Account
  BY <1>1, <1>4 DEF TypeOK
<1>6. /\ value \in Account /\ value.role = q.role /\ value.active = q.active
      /\ value.mfa = q.loaded.mfa
  <2>1. value = WithRights(q.loaded, q.role, q.active)
    BY DEF WithRights
  <2> HIDE DEF value
  <2> QED
    BY <1>4, <2>1, RightsFields
<1> HIDE DEF value
<1>7. /\ w \in Account
      /\ w.role = IF q.role # q.loaded.role THEN q.role ELSE account[t].role
      /\ w.active = IF q.active # q.loaded.active THEN q.active ELSE account[t].active
      /\ w.mfa = account[t].mfa
  BY <1>4, <1>5, <1>6, WrittenRow
<1> HIDE DEF w
<1>8. /\ DOMAIN account' = DOMAIN account /\ account'[t] = w
      /\ \A v \in DOMAIN account : v # t => account'[v] = account[v]
  BY <1>2, <1>4
<1>9. AccountStep
  BY <1>1, <1>7, <1>8 DEF AccountStep, TypeOK
<1>10. /\ FactorStep(c) /\ EnabledHasCredential'
       /\ challenge' \in [Browser -> DOMAIN account' \cup {None}]
       /\ credential' \in [User -> {"none", "started", "enrolled"}]
       /\ codes' \subseteq DOMAIN account' /\ required' \subseteq Role
  BY <1>2, <1>4, <1>7, FactorsStay
<1>11. SessionStep
  <2>1. KeepsSessions(session')
    <3>1. KeepsSessions(session)
      BY <1>1 DEF KeepsSessions, TypeOK
    <3>2. KeepsSessions(Revoked(Live(t)))
      BY <1>1, RevokedKeeps
    <3>3. session' = session \/ session' = Revoked(Live(t))
      BY DEF FinishUpdate
    <3> QED
      BY <3>1, <3>2, <3>3
  <2>2. cookie' \in [Browser -> DOMAIN session \cup {None}]
    BY <1>1, <1>2 DEF TypeOK
  <2> QED
    BY <1>1, <1>8, <2>1, <2>2, KeptSessions
<1>12. miscounted' \in BOOLEAN
  BY <1>3
<1>13. AdministratorRemains'
  <2>1. CASE t \notin ActiveAdministrators \/ t \in ActiveAdministrators'
    <3>1. ActiveAdministrators \subseteq ActiveAdministrators'
      BY <1>8, <2>1 DEF ActiveAdministrators
    <3> QED
      BY <1>1, <1>3, <1>8, <3>1 DEF AdministratorRemains
  <2>2. CASE t \in ActiveAdministrators \ ActiveAdministrators' /\ stale
    BY <1>3, <2>2 DEF AdministratorRemains
  <2>3. ASSUME t \in ActiveAdministrators, t \notin ActiveAdministrators', ~stale
        PROVE  ActiveAdministrators' # {}
    <3>1. q.loaded = account[t] /\ q.count = Cardinality(ActiveAdministrators)
      BY <2>3
    <3>2. account[t].active /\ account[t].role = "administrator"
      BY <2>3 DEF ActiveAdministrators
    <3>3. ~(w.active /\ w.role = "administrator")
      BY <1>4, <1>8, <2>3 DEF ActiveAdministrators
    <3>4. ~q.active \/ q.role # "administrator"
      <4>1. q.role = "administrator" => w.role = "administrator"
        BY <1>7, <3>1, <3>2
      <4>2. q.active => w.active
        BY <1>4, <1>7, <3>1, <3>2
      <4> QED
        BY <3>3, <4>1, <4>2
    <3>5. Removing(q)
      BY <1>4, <3>1, <3>2, <3>4, AccountsAssumption DEF Removing
    <3>6. ~(q.count <= 1)
      BY <1>2, <3>5 DEF LastAdministrator
    <3>7. ActiveAdministrators # {t}
      <4> SUFFICES ASSUME ActiveAdministrators = {t} PROVE FALSE
        OBVIOUS
      <4>1. Cardinality({t}) = 1
        BY FS_Singleton
      <4> QED
        BY <3>1, <3>6, <4>1
    <3>8. PICK v \in ActiveAdministrators : v # t
      BY <2>3, <3>7
    <3>9. v \in ActiveAdministrators'
      BY <1>8, <3>8 DEF ActiveAdministrators
    <3> QED
      BY <3>9
  <2> QED
    BY <2>1, <2>2, <2>3 DEF AdministratorRemains
<1> QED
  BY <1>2, <1>9, <1>10, <1>11, <1>12, <1>13, EndsSafely
-----------------------------------------------------------------------------
(* Requests that end with a change to a second factor.                      *)

\* What two requests at once do to a second factor is set apart.
LEMMA Crosses ==
    ASSUME TypeOK, NEW c \in Browser, NEW u \in User, Crossing(c, u)
    PROVE  /\ crossed \subseteq crossed' /\ crossed' \subseteq User
           /\ u \notin crossed' => \A d \in Browser \ {c} : ~Deletes(request[d], u)
BY DEF Crossing, Deletes, TypeOK

\* The secret is deleted only where no code is asked for any more, and a code is
\* asked for only where there is a secret.
LEMMA FactorChanges ==
    ASSUME IInv, NEW c \in Browser, NEW op, Ends(c, op), NEW u \in DOMAIN account,
           DOMAIN account' = DOMAIN account, account'[u] \in Account,
           account'[u].role = account[u].role, account'[u].active = account[u].active,
           \A v \in DOMAIN account : v # u => account'[v] = account[v],
           NEW x \in {"none", "started", "enrolled"}, credential' = [credential EXCEPT ![u] = x],
           x = "none" /\ u \notin crossed' => ~account'[u].mfa, Crossing(c, u),
           codes' = codes \ {u} \/ codes' = codes \cup {u}, KeepsSessions(session'),
           UNCHANGED <<cookie, challenge, required, miscounted>>
    PROVE  IInv' /\ SessionStep
<1>1. TypeOK /\ AdministratorRemains /\ EnabledHasCredential
  BY DEF IInv
<1>2. u \in User
  BY <1>1 DEF TypeOK
<1>3. /\ crossed \subseteq crossed' /\ crossed' \subseteq User
      /\ u \notin crossed' => \A d \in Browser \ {c} : ~Deletes(request[d], u)
  BY <1>1, <1>2, Crosses
<1>4. AccountStep
  BY <1>1 DEF AccountStep, TypeOK
<1>5. FactorStep(c)
  BY <1>3 DEF FactorStep
<1>6. ActiveAdministrators \subseteq ActiveAdministrators'
  BY DEF ActiveAdministrators
<1>7. AdministratorRemains'
  BY <1>1, <1>6 DEF AdministratorRemains
<1>8. credential'[u] = x /\ \A v \in User : v # u => credential'[v] = credential[v]
  BY <1>1, <1>2 DEF TypeOK
<1>9. EnabledHasCredential'
  <2> SUFFICES ASSUME NEW v \in DOMAIN account, v \notin crossed', account'[v].mfa
               PROVE  credential'[v] # "none"
    BY DEF EnabledHasCredential
  <2>1. CASE v = u
    BY <1>8, <2>1
  <2>2. CASE v # u
    <3>1. v \in User /\ v \notin crossed /\ account[v].mfa
      BY <1>1, <1>3, <2>2 DEF TypeOK
    <3> QED
      BY <1>1, <1>8, <2>2, <3>1 DEF EnabledHasCredential
  <2> QED
    BY <2>1, <2>2
<1>10. /\ challenge' \in [Browser -> DOMAIN account' \cup {None}]
       /\ credential' \in [User -> {"none", "started", "enrolled"}]
       /\ codes' \subseteq DOMAIN account' /\ required' \subseteq Role /\ miscounted' \in BOOLEAN
       /\ cookie' \in [Browser -> DOMAIN session \cup {None}]
  BY <1>1 DEF TypeOK
<1>11. SessionStep
  BY <1>1, <1>10, KeptSessions
<1> QED
  BY <1>4, <1>5, <1>7, <1>9, <1>10, <1>11, EndsSafely

\* A new secret.
LEMMA EnrollSafely ==
    ASSUME IInv, NEW c \in Browser, FinishEnroll(c)
    PROVE  IInv' /\ SessionStep
<1> DEFINE u == request[c].user
<1>1. TypeOK /\ RequestOK(request[c]) /\ KeepsSessions(session)
  BY DEF IInv, RequestsOK, KeepsSessions, TypeOK
<1>2. /\ Ends(c, "enroll") /\ credential' = [credential EXCEPT ![u] = "started"]
      /\ codes' = codes \ {u} /\ Crossing(c, u)
      /\ UNCHANGED <<cookie, challenge, account, session, required, miscounted>>
  BY DEF FinishEnroll
<1>3. u \in DOMAIN account
  BY <1>1, <1>2 DEF RequestOK, Ends
<1>4. account[u] \in Account
  BY <1>1, <1>3 DEF TypeOK
<1> HIDE DEF u
<1> QED
  BY <1>1, <1>2, <1>3, <1>4, FactorChanges

\* The secret is confirmed.
LEMMA ConfirmSafely ==
    ASSUME IInv, NEW c \in Browser, FinishConfirm(c)
    PROVE  IInv' /\ SessionStep
<1> DEFINE q == request[c]
           u == q.user
           value == [q.me EXCEPT !.mfa = TRUE]
           w == Written(q.me, value, account[u])
<1>1. TypeOK /\ RequestOK(q)
  BY DEF IInv, RequestsOK
<1>2. /\ Ends(c, "confirm") /\ account' = [account EXCEPT ![u] = w]
      /\ credential' = [credential EXCEPT ![u] = "enrolled"] /\ codes' = codes \cup {u}
      /\ session' = Refreshed(c, value) /\ Crossing(c, u)
      /\ UNCHANGED <<cookie, challenge, required, miscounted>>
  BY DEF FinishConfirm
<1>3. u \in DOMAIN account /\ q.me \in Account /\ q.session \in DOMAIN session
  BY <1>1, <1>2 DEF RequestOK, Ends, Anonymous
<1>4. account[u] \in Account
  BY <1>1, <1>3 DEF TypeOK
<1>5. value \in Account /\ value.role = q.me.role /\ value.active = q.me.active
  BY <1>3, WithFactor
<1> HIDE DEF value
<1>6. KeepsSessions(session')
  BY <1>1, <1>2, <1>3, <1>5, RefreshedKeeps
<1>7. w \in Account /\ w.role = account[u].role /\ w.active = account[u].active
  BY <1>3, <1>4, <1>5, WrittenRow
<1> HIDE DEF w
<1>8. /\ DOMAIN account' = DOMAIN account /\ account'[u] = w
      /\ \A v \in DOMAIN account : v # u => account'[v] = account[v]
  BY <1>2, <1>3
<1> HIDE DEF u, q
<1> QED
  BY <1>2, <1>3, <1>6, <1>7, <1>8, FactorChanges

\* What is written where a row with a second factor becomes one without.
LEMMA WithoutFactorWritten ==
    ASSUME NEW loaded \in Account, NEW row \in Account, row.mfa => loaded.mfa
    PROVE  ~Written(loaded, WithoutFactor(loaded), row).mfa
<1> DEFINE value == WithoutFactor(loaded)
<1>1. value \in Account /\ value.mfa = FALSE
  BY WithFactor DEF WithoutFactor
<1> HIDE DEF value
<1>2. Written(loaded, value, row).mfa = IF value.mfa # loaded.mfa THEN value.mfa ELSE row.mfa
  BY <1>1, WrittenRow
<1>3. row.mfa \in BOOLEAN /\ loaded.mfa \in BOOLEAN
  BY AccountFields
<1> QED
  BY <1>1, <1>2, <1>3 DEF value

\* The own second factor is given up.
LEMMA DisableSafely ==
    ASSUME IInv, NEW c \in Browser, FinishDisable(c)
    PROVE  IInv' /\ SessionStep
<1> DEFINE q == request[c]
           u == q.user
           value == WithoutFactor(q.me)
           w == Written(q.me, value, account[u])
<1>1. TypeOK /\ RequestOK(q) /\ KnowsFactor(q)
  BY DEF IInv, RequestsOK, FactorIsKnown
<1>2. /\ Ends(c, "disable") /\ account' = [account EXCEPT ![u] = w]
      /\ credential' = [credential EXCEPT ![u] = "none"] /\ codes' = codes \ {u}
      /\ session' = Refreshed(c, value) /\ Crossing(c, u)
      /\ UNCHANGED <<cookie, challenge, required, miscounted>>
  BY DEF FinishDisable
<1>3. u \in DOMAIN account /\ q.me \in Account /\ q.session \in DOMAIN session
  BY <1>1, <1>2 DEF RequestOK, Ends, Anonymous
<1>4. account[u] \in Account /\ u \in User
  BY <1>1, <1>3 DEF TypeOK
<1>5. value \in Account /\ value.role = q.me.role /\ value.active = q.me.active
  BY <1>3, WithFactor DEF WithoutFactor
<1>6. u \notin crossed' => ~w.mfa
  <2>1. crossed \subseteq crossed'
    BY <1>1, <1>2, <1>4, Crosses
  <2>2. u \notin crossed' => (account[u].mfa => q.me.mfa)
    BY <1>1, <1>2, <2>1 DEF KnowsFactor, Ends
  <2> HIDE DEF u, q
  <2> QED
    BY <1>3, <1>4, <2>2, WithoutFactorWritten
<1> HIDE DEF value
<1>7. KeepsSessions(session')
  BY <1>1, <1>2, <1>3, <1>5, RefreshedKeeps
<1>8. w \in Account /\ w.role = account[u].role /\ w.active = account[u].active
  BY <1>3, <1>4, <1>5, WrittenRow
<1> HIDE DEF w
<1>9. /\ DOMAIN account' = DOMAIN account /\ account'[u] = w
      /\ \A v \in DOMAIN account : v # u => account'[v] = account[v]
  BY <1>2, <1>3
<1> HIDE DEF u, q
<1> QED
  BY <1>2, <1>3, <1>6, <1>7, <1>8, <1>9, FactorChanges

\* An administrator removes a second factor.
LEMMA ResetFactorSafely ==
    ASSUME IInv, NEW c \in Browser, FinishResetFactor(c)
    PROVE  IInv' /\ SessionStep
<1> DEFINE q == request[c]
           u == q.target
           value == WithoutFactor(q.loaded)
           w == Written(q.loaded, value, account[u])
<1>1. TypeOK /\ RequestOK(q) /\ KnowsFactor(q)
  BY DEF IInv, RequestsOK, FactorIsKnown
<1>2. /\ Ends(c, "reset_mfa") /\ q.ready /\ account' = [account EXCEPT ![u] = w]
      /\ credential' = [credential EXCEPT ![u] = "none"] /\ codes' = codes \ {u}
      /\ session' = Revoked(Live(u)) /\ Crossing(c, u)
      /\ UNCHANGED <<cookie, challenge, required, miscounted>>
  BY DEF FinishResetFactor
<1>3. u \in DOMAIN account /\ q.loaded \in Account
  BY <1>1, <1>2 DEF RequestOK, Ends, Targeting
<1>4. account[u] \in Account /\ u \in User
  BY <1>1, <1>3 DEF TypeOK
<1>5. value \in Account /\ value.role = q.loaded.role /\ value.active = q.loaded.active
  BY <1>3, WithFactor DEF WithoutFactor
<1>6. u \notin crossed' => ~w.mfa
  <2>1. crossed \subseteq crossed'
    BY <1>1, <1>2, <1>4, Crosses
  <2>2. u \notin crossed' => (account[u].mfa => q.loaded.mfa)
    BY <1>1, <1>2, <2>1 DEF KnowsFactor, Ends
  <2> HIDE DEF u, q
  <2> QED
    BY <1>3, <1>4, <2>2, WithoutFactorWritten
<1> HIDE DEF value
<1>7. KeepsSessions(session')
  BY <1>1, <1>2, RevokedKeeps
<1>8. w \in Account /\ w.role = account[u].role /\ w.active = account[u].active
  BY <1>3, <1>4, <1>5, WrittenRow
<1> HIDE DEF w
<1>9. /\ DOMAIN account' = DOMAIN account /\ account'[u] = w
      /\ \A v \in DOMAIN account : v # u => account'[v] = account[v]
  BY <1>2, <1>3
<1> HIDE DEF u, q
<1> QED
  BY <1>2, <1>3, <1>6, <1>7, <1>8, <1>9, FactorChanges
-----------------------------------------------------------------------------
(* The invariant.                                                           *)

\* An installation with which a behaviour begins.
LEMMA InitIsSafe == Init => IInv
<1> SUFFICES ASSUME Init PROVE IInv
  OBVIOUS
<1>1. scenario \in Scenarios /\ ScenarioOK(scenario)
  BY AccountsAssumption DEF Init
<1>2. /\ account = scenario.account /\ cookie = scenario.cookie
      /\ request = [c \in Browser |-> Idle] /\ requests = 0
      /\ challenge = [c \in Browser |-> None]
      /\ credential = [u \in User |-> IF u \in DOMAIN account /\ account[u].mfa
                                      THEN "enrolled" ELSE "none"]
      /\ codes = {u \in DOMAIN account : account[u].mfa}
      /\ required \in SUBSET {"administrator"} /\ miscounted = FALSE /\ crossed = {}
  BY DEF Init
<1>3. /\ scenario.requests \in Nat /\ DOMAIN account \subseteq User
      /\ \A u \in DOMAIN account : account[u] \in Account
      /\ cookie \in [Browser -> SessionId \cup {None}]
      /\ \A c \in Browser : cookie[c] # None => scenario.who[c] \in DOMAIN account
  BY <1>1, <1>2 DEF ScenarioOK
<1>4. BoundsOK
  BY <1>1, <1>2, <1>3 DEF BoundsOK
<1>5. RowsOK
  <2> DEFINE owner(s) == scenario.who[CHOOSE c \in Browser : cookie[c] = s]
             row(s) == [user |-> owner(s), revoked |-> FALSE,
                        restricted |-> NeedsOnboarding(account[owner(s)])]
             open == {cookie[c] : c \in Browser} \ {None}
  <2>1. session = [s \in open |-> row(s)]
    BY DEF Init
  <2>2. open \subseteq SessionId
    BY <1>3
  <2>3. ASSUME NEW s \in open
        PROVE  row(s) \in Session /\ row(s).user \in DOMAIN account
    <3>1. \E c \in Browser : cookie[c] = s
      BY <2>3
    <3>2. owner(s) \in DOMAIN account
      BY <1>3, <2>3, <3>1
    <3>3. owner(s) \in User /\ NeedsOnboarding(account[owner(s)]) \in BOOLEAN
      BY <1>3, <3>2, OnboardingType
    <3> HIDE DEF owner
    <3> QED
      BY <3>2, <3>3 DEF Session
  <2>4. cookie \in [Browser -> open \cup {None}]
    BY <1>3
  <2> HIDE DEF row, open
  <2>5. /\ DOMAIN session \subseteq SessionId /\ cookie \in [Browser -> DOMAIN session \cup {None}]
        /\ \A s \in DOMAIN session : session[s] \in Session /\ session[s].user \in DOMAIN account
    BY <2>1, <2>2, <2>3, <2>4
  <2>6. /\ challenge \in [Browser -> DOMAIN account \cup {None}]
        /\ credential \in [User -> {"none", "started", "enrolled"}]
        /\ codes \subseteq DOMAIN account /\ required \subseteq Role
        /\ miscounted \in BOOLEAN /\ crossed \subseteq User
    BY <1>2, AccountsAssumption
  <2> QED
    BY <1>3, <2>5, <2>6 DEF RowsOK
<1>6. TypeOK
  BY <1>4, <1>5, TypeParts
<1>7. RequestsOK /\ FactorIsKnown
  BY <1>2 DEF RequestsOK, RequestOK, FactorIsKnown, KnowsFactor, Idle, Anonymous, Targeting
<1>8. AdministratorRemains
  BY <1>1, <1>2 DEF AdministratorRemains, ActiveAdministrators, ScenarioOK
<1>9. EnabledHasCredential
  BY <1>2, <1>3 DEF EnabledHasCredential
<1> QED
  BY <1>6, <1>7, <1>8, <1>9 DEF IInv

Finishes(c) ==
    \/ SessionEnds(c) \/ FinishLogin(c) \/ FinishVerify(c) \/ FinishSetup(c) \/ FinishCreateUser(c)
    \/ FinishPassword(c) \/ FinishReset(c) \/ FinishUpdate(c)
    \/ FinishEnroll(c) \/ FinishConfirm(c) \/ FinishDisable(c) \/ FinishResetFactor(c)

\* A step begins a request, loads more for one, or ends one.
LEMMA StepKinds ==
    ASSUME Next
    PROVE  \E c \in Browser : Starts(c) \/ LoadsMore(c) \/ Finishes(c)
<1>1. PICK c \in Browser : SigningIn(c) \/ SecondFactor(c) \/ Administration(c)
  BY DEF Next
<1>2. CASE SigningIn(c)
  BY <1>2 DEF SigningIn, Starts, Finishes, SessionEnds
<1>3. CASE SecondFactor(c)
  BY <1>3 DEF SecondFactor, Starts, LoadsMore, Finishes, SessionEnds
<1>4. CASE Administration(c)
  BY <1>4 DEF Administration, Starts, LoadsMore, Finishes, SessionEnds
<1> QED
  BY <1>1, <1>2, <1>3, <1>4

\* Whatever ends.
LEMMA FinishesSafely ==
    ASSUME IInv, NEW c \in Browser, Finishes(c)
    PROVE  IInv' /\ SessionStep
<1>1. CASE SessionEnds(c)
  BY <1>1, SessionEndsSafely
<1>2. CASE FinishLogin(c) \/ FinishVerify(c)
  BY <1>2, SignInSafely
<1>3. CASE FinishSetup(c)
  BY <1>3, SetupSafely
<1>4. CASE FinishCreateUser(c)
  BY <1>4, CreateSafely
<1>5. CASE FinishPassword(c)
  BY <1>5, PasswordSafely
<1>6. CASE FinishReset(c)
  BY <1>6, ResetSafely
<1>7. CASE FinishUpdate(c)
  BY <1>7, UpdateSafely
<1>8. CASE FinishEnroll(c)
  BY <1>8, EnrollSafely
<1>9. CASE FinishConfirm(c)
  BY <1>9, ConfirmSafely
<1>10. CASE FinishDisable(c)
  BY <1>10, DisableSafely
<1>11. CASE FinishResetFactor(c)
  BY <1>11, ResetFactorSafely
<1> QED
  BY <1>1, <1>2, <1>3, <1>4, <1>5, <1>6, <1>7, <1>8, <1>9, <1>10, <1>11 DEF Finishes

\* Whatever begins or loads more.
LEMMA BeginsSafely ==
    ASSUME IInv, NEW c \in Browser, Starts(c) \/ LoadsMore(c)
    PROVE  IInv' /\ \E q : Prepares(c, q)
<1>1. TypeOK /\ RequestsOK /\ FactorIsKnown
  BY DEF IInv
<1>2. PICK q : Prepares(c, q) /\ RequestOK(q) /\ KnowsFactor(q)
  BY <1>1, StartsAreOK, LoadsAreOK
<1> QED
  BY <1>2, PreparesIsSafe

\* Every step keeps the invariant.
LEMMA StepIsSafe == IInv /\ [Next]_vars => IInv'
<1> SUFFICES ASSUME IInv, [Next]_vars PROVE IInv'
  OBVIOUS
<1>1. CASE Next
  BY <1>1, StepKinds, BeginsSafely, FinishesSafely
<1>2. CASE UNCHANGED vars
  BY <1>2 DEF vars, rows, history, IInv, TypeOK, RequestsOK, RequestOK, AdministratorRemains,
     EnabledHasCredential, FactorIsKnown, KnowsFactor, ActiveAdministrators
<1> QED
  BY <1>1, <1>2

\* The invariant holds throughout.
LEMMA Safe == Spec => []IInv
<1>1. IInv /\ [Next]_vars => IInv'
  BY StepIsSafe
<1> QED
  BY <1>1, InitIsSafe, PTL DEF Spec

\* Nobody is locked out: whatever requests overlap, the installation keeps an
\* administrator, but for two removals that count each other (api.py:882), and
\* an account that asks for a code has a secret, but for two changes of its
\* second factor at once (api.py:725).
THEOREM NobodyIsLockedOut == Spec => []AccountInv
<1>1. IInv => AccountInv
  BY DEF IInv, AccountInv
<1> QED
  BY <1>1, Safe, PTL
\* No request brings a revoked session back, whatever it had loaded before the
\* session was revoked: only an UPDATE of the own restriction or of the
\* revocation touches a session, and a new session has a new id (auth.py:109).
THEOREM RevokedForGood == Spec => RevocationIsFinal
<1> DEFINE Stays == \A s \in DOMAIN session : session[s].revoked => session'[s].revoked
<1>1. ASSUME IInv, Next
      PROVE  Stays
  <2>1. PICK c \in Browser : Starts(c) \/ LoadsMore(c) \/ Finishes(c)
    BY <1>1, StepKinds
  <2>2. CASE Starts(c) \/ LoadsMore(c)
    <3>1. session' = session
      BY <1>1, <2>2, BeginsSafely DEF Prepares
    <3> QED
      BY <3>1
  <2>3. CASE Finishes(c)
    BY <1>1, <2>3, FinishesSafely DEF SessionStep
  <2> QED
    BY <2>1, <2>2, <2>3
<1>2. IInv /\ [Next]_vars => [Stays]_vars
  BY <1>1
<1> HIDE DEF Stays
<1>3. Spec => [][Stays]_vars
  BY <1>2, Safe, PTL DEF Spec
<1> QED
  BY <1>3 DEF RevocationIsFinal, Stays

\* The request of c for a policy ends by nothing but its commit, and no other
\* request ends with it.
LEMMA OnlyPolicyEnds ==
    ASSUME IInv, NEW c \in Browser, Starts(c) \/ LoadsMore(c) \/ Finishes(c),
           NEW d \in Browser, request[d].op = "policy", request'[d] = Idle
    PROVE  d = c /\ FinishPolicy(c)
<1>1. DOMAIN request = Browser
  BY DEF IInv, TypeOK
<1>2. request[d] # Idle
  BY DEF Idle
<1>3. ASSUME Starts(c) \/ LoadsMore(c)
      PROVE  FALSE
  <2>1. PICK q : Prepares(c, q)
    BY <1>3, BeginsSafely
  <2>2. q.op # "idle" /\ request' = [request EXCEPT ![c] = q]
    BY <2>1 DEF Prepares
  <2>3. CASE d = c
    BY <1>1, <2>2, <2>3 DEF Idle
  <2>4. CASE d # c
    BY <1>1, <1>2, <2>2, <2>4
  <2> QED
    BY <2>3, <2>4
<1>4. ASSUME Finishes(c)
      PROVE  d = c /\ FinishPolicy(c)
  <2>1. request' = [request EXCEPT ![c] = Idle]
    BY <1>4 DEF Finishes, SessionEnds, Ends, Refused, RefuseVerify, FinishLogout, FinishMe,
       FinishRevoke, FinishRevokeOthers, RefuseFactor, FinishCodes, RefuseUpdate,
       FinishRevokeUser, FinishRevokeSession, FinishPolicy, FinishLogin, FinishVerify,
       FinishSetup, FinishCreateUser, FinishPassword, FinishReset, FinishUpdate, FinishEnroll,
       FinishConfirm, FinishDisable, FinishResetFactor
  <2>2. d = c
    BY <1>1, <1>2, <2>1
  <2>3. request[c].op = "policy"
    BY <2>2
  <2> QED
    BY <1>4, <2>2, <2>3, SMTT(30) DEF Finishes, SessionEnds, Ends, Refused, RefuseVerify, FinishLogout,
       FinishMe, FinishRevoke, FinishRevokeOthers, RefuseFactor, FinishCodes, RefuseUpdate,
       FinishRevokeUser, FinishRevokeSession, FinishLogin, FinishVerify,
       FinishSetup, FinishCreateUser, FinishPassword, FinishReset, FinishUpdate, FinishEnroll,
       FinishConfirm, FinishDisable, FinishResetFactor
<1> QED
  BY <1>3, <1>4

\* What a policy does to a live session of an active account.
LEMMA PolicyMarks ==
    ASSUME IInv, NEW c \in Browser, FinishPolicy(c),
           request[c].accounts = account, request[c].required = required,
           NEW u \in DOMAIN account, NEW s \in SessionId, account[u].active, s \in Live(u)
    PROVE  session'[s].restricted = NeedsOnboarding(account[u])'
<1> DEFINE q == request[c]
<1>1. required' = q.roles /\ account' = account
  BY DEF FinishPolicy
<1>2. s \in DOMAIN session /\ session[s].user = u /\ ~session[s].revoked
  BY DEF Live
<1>3. session[s] \in Session
  BY <1>2 DEF IInv, TypeOK
<1>4. session'[s] = [session[s] EXCEPT !.restricted = Restricts(account[u], q.roles)]
  BY <1>2 DEF FinishPolicy
<1>5. PICK v \in User, r \in BOOLEAN, t \in BOOLEAN :
         session[s] = [user |-> v, revoked |-> r, restricted |-> t]
  BY <1>3 DEF Session
<1>6. session'[s].restricted = Restricts(account[u], q.roles)
  <2> DEFINE need == Restricts(account[u], q.roles)
  <2>1. session'[s] = [session[s] EXCEPT !.restricted = need]
    BY <1>4
  <2> HIDE DEF need
  <2>2. session'[s].restricted = need
    BY <1>5, <2>1
  <2> QED
    BY <2>2 DEF need
<1>7. NeedsOnboarding(account[u])' = Restricts(account[u], q.roles)
  BY <1>1 DEF NeedsOnboarding, Restricts
<1> QED
  BY <1>6, <1>7

\* A new policy restricts every live session as the next /auth/me would, when
\* nothing changed since the request loaded the accounts (api.py:1055).
THEOREM PolicyReaches == Spec => PolicyReachesSessions
<1> DEFINE Reaches ==
             \A c \in Browser :
                LET q == request[c]
                IN /\ q.op = "policy" /\ q.ready /\ request'[c] = Idle
                   /\ q.accounts = account /\ q.required = required
                   => \A u \in DOMAIN account, s \in SessionId :
                         account[u].active /\ s \in Live(u)
                            => session'[s].restricted = NeedsOnboarding(account[u])'
<1>1. ASSUME IInv, Next
      PROVE  Reaches
  <2> SUFFICES ASSUME NEW d \in Browser, request[d].op = "policy", request'[d] = Idle,
                      request[d].accounts = account, request[d].required = required,
                      NEW u \in DOMAIN account, NEW s \in SessionId,
                      account[u].active, s \in Live(u)
               PROVE  session'[s].restricted = NeedsOnboarding(account[u])'
    OBVIOUS
  <2>1. PICK c \in Browser : Starts(c) \/ LoadsMore(c) \/ Finishes(c)
    BY <1>1, StepKinds
  <2>2. d = c /\ FinishPolicy(c)
    BY <1>1, <2>1, OnlyPolicyEnds
  <2> QED
    BY <1>1, <2>2, PolicyMarks
<1>2. IInv /\ [Next]_vars => [Reaches]_vars
  BY <1>1
<1> HIDE DEF Reaches
<1>3. Spec => [][Reaches]_vars
  BY <1>2, Safe, PTL DEF Spec
<1> QED
  BY <1>3 DEF PolicyReachesSessions, Reaches

-----------------------------------------------------------------------------
(* Lists that are read page by page.                                        *)

\* The key of a row, and whether the pages so far have passed it.
At(e) == <<table[e], e>>
Passed(e) == ~Precedes(cursor, At(e))

\* The names of these rows are the same in every form.
Plain == \A e \in DOMAIN table : list.newest \/ Fold[table[e]] = table[e]

PagesTyped ==
    /\ PagesTypeOK
    /\ pages = "next" => cursor \in Nat \X Nat
    /\ pages = "first" => shown = {} /\ again = {} /\ left = {} /\ whole = {}
    /\ pages # "first" => \A e \in DOMAIN table : table[e] \in names
    /\ whole \subseteq DOMAIN table

(* Of the rows that have not changed those were shown that the cursor has   *)
(* passed; in a list by time every row that was shown and not removed stays *)
(* passed, for it only moves to the top.                                    *)
WholeIsShown == PlainNames /\ pages = "next" => \A e \in whole : Passed(e) <=> e \in shown
ShownIsPassed ==
    list.newest /\ pages = "next" => \A e \in shown \ left : e \in DOMAIN table /\ Passed(e)

PagesIInv == PagesTyped /\ WholeIsShown /\ ShownIsPassed /\ PagesAreComplete

\* What the lists by time have in common.
LEMMA ListsAre ==
    ASSUME list \in Lists
    PROVE  /\ list.newest \in BOOLEAN
           /\ list.newest => /\ list.sorted = "lower" /\ list.cursor = "lower"
                             /\ list.compared = "lower" /\ list.moves \in {"never", "raised"}
<1>1. ASSUME NEW name, NEW ties, NEW moves, NEW added, list = ByTime(name, ties, moves, added)
      PROVE  /\ list.newest = TRUE /\ list.sorted = "lower" /\ list.cursor = "lower"
             /\ list.compared = "lower" /\ list.moves = moves
  BY <1>1 DEF ByTime
<1>2. ASSUME NEW name, NEW moves, NEW sorted, NEW remembered, NEW compared,
             list = ByName(name, moves, sorted, remembered, compared)
      PROVE  list.newest = FALSE
  BY <1>2 DEF ByName
<1>3. list = security_posture_devices => list.newest = FALSE
  BY DEF security_posture_devices, ByName
<1>4. CASE list \in {telemetry_observations, flows, auth_events, reports, device_history,
                     operation_jobs, app_sessions, findings_list}
  BY <1>1, <1>4 DEF telemetry_observations, flows, auth_events, reports, device_history,
     operation_jobs, app_sessions, findings_list
<1>5. CASE list \in {app_users, services, devices, devices_by_posture, governance_credentials}
  BY <1>2, <1>5 DEF app_users, services, devices, devices_by_posture, governance_credentials
<1> QED
  BY <1>3, <1>4, <1>5 DEF Lists

\* A nonempty set of naturals has a least one.
LEMMA LeastOf ==
    ASSUME NEW T, T \subseteq Nat, T # {}
    PROVE  \E x \in T : \A y \in T : x <= y
<1> DEFINE R == OpToRel(<, Nat)
<1>1. IsWellFoundedOn(R, Nat)
  BY NatLessThanWellFounded
<1>2. PICK x \in T : \A y \in T : ~ (<<y, x>> \in R)
  <2> HIDE DEF R
  <2> QED
    BY <1>1, WFMin
<1>3. \A y \in T : ~(y < x)
  BY <1>2 DEF OpToRel
<1> QED
  BY <1>3

\* Keys are in a total order.
LEMMA KeysAreOrdered ==
    ASSUME NEW a \in Nat \X Nat, NEW b \in Nat \X Nat, NEW c \in Nat \X Nat
    PROVE  /\ ~Precedes(a, a)
           /\ Precedes(a, b) /\ Precedes(b, c) => Precedes(a, c)
           /\ a = b \/ Precedes(a, b) \/ Precedes(b, a)
BY DEF Precedes, TieOrder

\* The keys that a list sorts and compares by.
LEMMA KeysOf ==
    ASSUME PagesTypeOK, NEW e \in DOMAIN table
    PROVE  /\ e \in Nat /\ table[e] \in Nat /\ At(e) \in Nat \X Nat
           /\ \A form : KeyBy(form, table[e]) \in Nat
           /\ SortKey(e) \in Nat \X Nat /\ SortKey(e)[2] = e
           /\ CompareKey(e) \in Nat \X Nat
<1>1. e \in Entry /\ table[e] \in Key /\ Entry \subseteq Nat /\ Key \subseteq Nat
      /\ Fold \in [Key -> Key]
  BY PagesAssumption DEF PagesTypeOK
<1>2. e \in Nat /\ table[e] \in Nat /\ Fold[table[e]] \in Nat
  BY <1>1
<1>3. \A form : KeyBy(form, table[e]) \in Nat
  BY <1>2 DEF KeyBy
<1> QED
  BY <1>2, <1>3 DEF At, SortKey, CompareKey

\* Where names are plain all keys of a row are one.
LEMMA PlainKeys ==
    ASSUME PagesTypeOK, Plain, NEW e \in DOMAIN table
    PROVE  /\ SortKey(e) = At(e) /\ CompareKey(e) = At(e)
           /\ KeyBy(list.cursor, table[e]) = table[e]
<1>1. list.newest \/ Fold[table[e]] = table[e]
  BY DEF Plain
<1>2. list.newest => list.sorted # "folded" /\ list.cursor # "folded" /\ list.compared # "folded"
  BY ListsAre DEF PagesTypeOK
<1> QED
  BY <1>1, <1>2 DEF SortKey, CompareKey, At, KeyBy
-----------------------------------------------------------------------------
(* A page.                                                                  *)

\* The places of the rows that remain.
LEMMA PlacesOf ==
    ASSUME PagesTypeOK
    PROVE  /\ Rest \subseteq DOMAIN table /\ IsFiniteSet(Rest) /\ Cardinality(Rest) \in Nat
           /\ \A e \in Rest : Place(e) \in Nat /\ Place(e) < Cardinality(Rest)
           /\ \A d \in Rest, e \in Rest :
                 Precedes(SortKey(d), SortKey(e)) => Place(d) < Place(e)
<1> DEFINE before(e) == {c \in Rest \ {e} : Precedes(SortKey(c), SortKey(e))}
<1>1. Rest \subseteq DOMAIN table
  BY DEF Rest, Beyond
<1>2. IsFiniteSet(Rest) /\ Cardinality(Rest) \in Nat
  <2>1. Rest \in SUBSET Entry
    BY <1>1 DEF PagesTypeOK
  <2> QED
    BY <2>1, PagesAssumption, FS_Subset, FS_CardinalityType
<1>3. ASSUME NEW e \in Rest
      PROVE  /\ IsFiniteSet(before(e)) /\ Cardinality(before(e)) \in Nat
             /\ Cardinality(before(e)) < Cardinality(Rest)
  <2>1. IsFiniteSet(Rest \ {e}) /\ Cardinality(Rest \ {e}) = Cardinality(Rest) - 1
    BY <1>2, FS_RemoveElement
  <2>2. before(e) \in SUBSET (Rest \ {e})
    OBVIOUS
  <2>3. IsFiniteSet(before(e)) /\ Cardinality(before(e)) <= Cardinality(Rest \ {e})
    BY <2>1, <2>2, FS_Subset
  <2>4. Cardinality(before(e)) \in Nat
    BY <2>3, FS_CardinalityType
  <2> QED
    BY <1>2, <2>1, <2>3, <2>4
<1>4. ASSUME NEW d \in Rest, NEW e \in Rest, Precedes(SortKey(d), SortKey(e))
      PROVE  Cardinality(before(d)) < Cardinality(before(e))
  <2>1. \A c \in Rest : SortKey(c) \in Nat \X Nat
    BY <1>1, KeysOf
  <2>2. d # e
    BY <1>4, <2>1, KeysAreOrdered
  <2>3. before(d) \cup {d} \in SUBSET before(e)
    <3>1. ASSUME NEW c \in before(d) PROVE c \in before(e)
      <4>1. Precedes(SortKey(c), SortKey(e))
        BY <1>4, <2>1, KeysAreOrdered
      <4>2. c # e
        BY <2>1, <4>1, KeysAreOrdered
      <4> QED
        BY <4>1, <4>2
    <3> QED
      BY <1>4, <2>2, <3>1
  <2>4. Cardinality(before(d) \cup {d}) = Cardinality(before(d)) + 1
    <3>1. d \notin before(d) /\ IsFiniteSet(before(d))
      BY <1>3
    <3> HIDE DEF before
    <3> QED
      BY <3>1, FS_AddElement
  <2>5. Cardinality(before(d) \cup {d}) <= Cardinality(before(e))
    <3>1. IsFiniteSet(before(e))
      BY <1>3
    <3> HIDE DEF before
    <3> QED
      BY <2>3, <3>1, FS_Subset
  <2>6. Cardinality(before(d)) \in Nat /\ Cardinality(before(e)) \in Nat
    BY <1>3
  <2> HIDE DEF before
  <2> QED
    BY <2>4, <2>5, <2>6
<1>5. \A e \in Rest : Place(e) = Cardinality(before(e))
  BY DEF Place
<1> HIDE DEF before
<1> QED
  BY <1>1, <1>2, <1>3, <1>4, <1>5

\* Where a row more than the page was found, the page has a last row.
LEMMA LastRow ==
    ASSUME PagesTypeOK, Cardinality(Rest) > Limit
    PROVE  /\ LastOf(Page) \in Page
           /\ \A e \in Page : Place(e) <= Place(LastOf(Page))
<1>1. Limit \in Nat \ {0} /\ Cardinality(Rest) \in Nat /\ IsFiniteSet(Rest)
  BY PagesAssumption, PlacesOf
<1>2. Rest # {}
  BY <1>1, FS_EmptySet
<1>3. \A e \in Rest : Place(e) \in Nat
  BY PlacesOf
<1>4. PICK first \in Rest : \A e \in Rest : Place(first) <= Place(e)
  <2> DEFINE T == {Place(e) : e \in Rest}
  <2>1. T \subseteq Nat /\ T # {}
    BY <1>2, <1>3
  <2>2. PICK x \in T : \A y \in T : x <= y
    <3> HIDE DEF T
    <3> QED
      BY <2>1, LeastOf
  <2> QED
    BY <2>2
<1>5. Place(first) = 0
  <2> DEFINE before == {c \in Rest \ {first} : Precedes(SortKey(c), SortKey(first))}
  <2>1. before = {}
    BY <1>3, <1>4, PlacesOf
  <2>2. Place(first) = Cardinality(before)
    BY DEF Place
  <2> QED
    BY <2>1, <2>2, FS_EmptySet
<1>6. first \in Page
  BY <1>1, <1>5 DEF Page
<1>7. \A e \in Page : e \in Rest /\ Place(e) \in Nat /\ Place(e) < Limit
  BY <1>3 DEF Page
<1>8. PICK last \in Page : \A e \in Page : Place(e) <= Place(last)
  <2> DEFINE T == {Limit - Place(e) : e \in Page}
  <2>1. T \subseteq Nat /\ T # {}
    BY <1>1, <1>6, <1>7
  <2>2. PICK x \in T : \A y \in T : x <= y
    <3> HIDE DEF T
    <3> QED
      BY <2>1, LeastOf
  <2>3. PICK last \in Page : x = Limit - Place(last)
    BY <2>2
  <2>4. ASSUME NEW e \in Page PROVE Place(e) <= Place(last)
    <3>1. Limit - Place(last) <= Limit - Place(e)
      BY <2>2, <2>3
    <3> QED
      BY <1>1, <1>7, <3>1
  <2> QED
    BY <2>4
<1> QED
  BY <1>8 DEF LastOf
\* Where names are plain, what remains is what the cursor has not passed.
LEMMA RestOf ==
    ASSUME PagesTyped, Plain, pages # "done", NEW e \in DOMAIN table
    PROVE  e \in Rest <=> pages = "first" \/ ~Passed(e)
<1>1. PagesTypeOK /\ pages \in {"first", "next"} /\ (cursor = NoCursor <=> pages = "first")
      /\ (pages = "next" => cursor \in Nat \X Nat)
  BY DEF PagesTyped, PagesTypeOK
<1>2. \A d \in DOMAIN table : d \in Beyond <=> pages = "first" \/ ~Passed(d)
  BY <1>1, PlainKeys DEF Beyond, Behind, Passed
<1>3. ASSUME NEW d \in Beyond, Precedes(SortKey(d), SortKey(e)), pages = "next"
      PROVE  ~Passed(e)
  <2>1. d \in DOMAIN table /\ ~Passed(d)
    BY <1>2, <1>3 DEF Beyond
  <2>2. Precedes(cursor, At(d)) /\ Precedes(At(d), At(e))
    BY <1>1, <1>3, <2>1, PlainKeys DEF Passed
  <2>3. cursor \in Nat \X Nat /\ At(d) \in Nat \X Nat /\ At(e) \in Nat \X Nat
    BY <1>1, <1>3, <2>1, KeysOf
  <2>4. Precedes(cursor, At(e))
    BY <2>2, <2>3, KeysAreOrdered
  <2> QED
    BY <2>4 DEF Passed
<1> QED
  BY <1>1, <1>2, <1>3 DEF Rest

\* Where names are plain, the new cursor has passed the page and no more.
LEMMA CursorMoves ==
    ASSUME PagesTyped, Plain, pages # "done", Cardinality(Rest) > Limit,
           NEW after, after = <<KeyBy(list.cursor, table[LastOf(Page)]), LastOf(Page)>>,
           NEW e \in DOMAIN table
    PROVE  ~Precedes(after, At(e)) <=> e \in Page \/ e \notin Rest
<1> DEFINE last == LastOf(Page)
<1>1. PagesTypeOK /\ Limit \in Nat
  BY PagesAssumption DEF PagesTyped
<1>2. last \in Page /\ (\A d \in Page : Place(d) <= Place(last)) /\ Page \subseteq Rest
      /\ Rest \subseteq DOMAIN table
  BY <1>1, LastRow, PlacesOf DEF Page
<1>3. after = At(last) /\ SortKey(last) = At(last) /\ SortKey(e) = At(e)
  BY <1>1, <1>2, PlainKeys DEF At
<1>4. At(last) \in Nat \X Nat /\ At(e) \in Nat \X Nat
  BY <1>1, <1>2, KeysOf
<1>5. \A d \in Rest : Place(d) \in Nat /\ (d \in Page <=> Place(d) < Limit)
  BY <1>1, PlacesOf DEF Page
<1> HIDE DEF last
<1>6. CASE e \in Page
  <2>1. Place(e) <= Place(last) /\ e \in Rest /\ last \in Rest
    BY <1>2, <1>6
  <2>2. ~(Place(last) < Place(e))
    BY <1>5, <2>1
  <2>3. ~Precedes(At(last), At(e))
    BY <1>1, <1>3, <2>1, <2>2, PlacesOf
  <2> QED
    BY <1>3, <1>6, <2>3
<1>7. CASE e \in Rest \ Page
  <2>1. last \in Rest /\ ~(Place(e) < Limit) /\ Place(last) < Limit
    BY <1>2, <1>5, <1>7
  <2>2. ~(Place(e) < Place(last))
    BY <1>1, <1>5, <1>7, <2>1
  <2>3. ~Precedes(At(e), At(last))
    BY <1>1, <1>3, <1>7, <2>1, <2>2, PlacesOf
  <2>4. At(e) # At(last)
    BY <1>2, <1>7 DEF At
  <2>5. Precedes(At(last), At(e))
    BY <1>4, <2>3, <2>4, KeysAreOrdered
  <2> QED
    BY <1>3, <1>7, <2>5
<1>8. CASE e \notin Rest
  <2>1. pages = "next" /\ Passed(e) /\ ~Passed(last) /\ last \in DOMAIN table
    BY <1>1, <1>2, <1>8, RestOf DEF PagesTypeOK
  <2>2. cursor \in Nat \X Nat
    BY <2>1 DEF PagesTyped
  <2>3. ~Precedes(At(last), At(e))
    BY <1>4, <2>1, <2>2, KeysAreOrdered DEF Passed
  <2> QED
    BY <1>3, <1>8, <2>3
<1> QED
  BY <1>6, <1>7, <1>8

\* Where no more rows were found, the page has all that remains.
LEMMA LastPage ==
    ASSUME PagesTypeOK, ~(Cardinality(Rest) > Limit)
    PROVE  Page = Rest
<1>1. Limit \in Nat /\ Cardinality(Rest) \in Nat
      /\ \A e \in Rest : Place(e) \in Nat /\ Place(e) < Cardinality(Rest)
  BY PagesAssumption, PlacesOf
<1> QED
  BY <1>1 DEF Page

\* A page is read.
LEMMA ReadSafely == ASSUME PagesIInv, Read PROVE PagesIInv'
<1> DEFINE more == Cardinality(Rest) > Limit
           last == LastOf(Page)
           after == <<KeyBy(list.cursor, table[last]), last>>
<1>1. /\ pages \in {"first", "next"} /\ PagesTypeOK /\ PagesTyped
      /\ pages' = (IF more THEN "next" ELSE "done")
      /\ cursor' = (IF more THEN after ELSE NoCursor)
      /\ shown' = shown \cup Page /\ again' = again \cup (shown \cap Page)
      /\ pages = "first" => whole' = DOMAIN table /\ names' = {table[e] : e \in DOMAIN table}
      /\ pages = "next" => whole' = whole /\ names' = names
      /\ UNCHANGED <<list, table, changes, left>>
  BY DEF Read, PagesIInv, PagesTyped, PagesTypeOK
<1>2. Page \subseteq Rest /\ Rest \subseteq DOMAIN table /\ DOMAIN table \subseteq Entry
  BY <1>1, PlacesOf DEF Page, PagesTypeOK
<1>3. more => after \in Nat \X Nat
  <2>1. more => last \in DOMAIN table
    BY <1>1, <1>2, LastRow
  <2> QED
    BY <1>1, <2>1, KeysOf
<1> HIDE DEF more, after
<1>4. PagesTyped'
  <2>1. PagesTypeOK'
    <3>1. cursor' = NoCursor <=> pages' # "next"
      BY <1>1, <1>3, PagesAssumption
    <3>2. shown' \cup again' \cup whole' \cup left' \subseteq Entry /\ names' \subseteq Key
      BY <1>1, <1>2 DEF PagesTypeOK
    <3> QED
      BY <1>1, <3>1, <3>2 DEF PagesTypeOK
  <2> QED
    BY <1>1, <1>3, <2>1 DEF PagesTyped
<1>5. ASSUME PlainNames' PROVE Plain /\ (pages = "next" => PlainNames)
  <2>1. \A e \in DOMAIN table : table[e] \in names'
    BY <1>1 DEF PagesTyped
  <2> QED
    BY <1>1, <1>5, <2>1 DEF PlainNames, Plain
<1>6. ASSUME Plain, NEW e \in DOMAIN table
      PROVE  /\ e \in Rest <=> pages = "first" \/ ~Passed(e)
             /\ pages' = "next" => (Passed(e)' <=> e \in Page \/ e \notin Rest)
             /\ pages' = "done" => (e \in Page <=> e \in Rest)
  <2>1. e \in Rest <=> pages = "first" \/ ~Passed(e)
    BY <1>1, <1>6, RestOf
  <2>2. pages' = "next" => (Passed(e)' <=> e \in Page \/ e \notin Rest)
    <3>1. Passed(e)' <=> ~Precedes(cursor', At(e))
      BY <1>1 DEF Passed, At, Precedes, TieOrder
    <3>2. pages' = "next" => cursor' = after /\ more
      BY <1>1
    <3> QED
      BY <1>1, <1>6, <3>1, <3>2, CursorMoves DEF more, after
  <2>3. pages' = "done" => (e \in Page <=> e \in Rest)
    BY <1>1, LastPage DEF more
  <2> QED
    BY <2>1, <2>2, <2>3
<1>7. WholeIsShown'
  <2>1. ASSUME PlainNames', pages' = "next", NEW e \in whole'
        PROVE  Passed(e)' <=> e \in shown'
    <3>1. Plain /\ e \in DOMAIN table /\ (pages = "next" => PlainNames /\ e \in whole)
      BY <1>1, <1>5, <2>1 DEF PagesTyped
    <3>2. pages = "next" => (Passed(e) <=> e \in shown)
      BY <3>1 DEF PagesIInv, WholeIsShown
    <3>3. pages = "first" => shown = {}
      BY <1>1 DEF PagesTyped
    <3> QED
      BY <1>1, <1>2, <1>6, <2>1, <3>1, <3>2, <3>3
  <2> QED
    BY <2>1 DEF WholeIsShown
<1>8. ShownIsPassed'
  <2>1. ASSUME list'.newest, pages' = "next", NEW e \in shown' \ left'
        PROVE  e \in DOMAIN table' /\ Passed(e)'
    <3>1. Plain
      BY <1>1, <2>1 DEF Plain
    <3>2. CASE e \in Page
      BY <1>1, <1>2, <1>6, <2>1, <3>1, <3>2
    <3>3. CASE e \in shown
      <4>1. pages = "next"
        BY <1>1, <3>3 DEF PagesTyped
      <4>2. e \in DOMAIN table /\ Passed(e)
        BY <1>1, <2>1, <3>3, <4>1 DEF PagesIInv, ShownIsPassed
      <4> QED
        BY <1>1, <1>6, <2>1, <3>1, <4>1, <4>2
    <3> QED
      BY <1>1, <2>1, <3>2, <3>3
  <2> QED
    BY <2>1 DEF ShownIsPassed
<1>9. ASSUME PlainNames'
      PROVE  /\ pages' = "done" => whole' \subseteq shown'
             /\ again' \cap whole' = {}
             /\ list'.newest => again' \subseteq left'
  <2>1. Plain /\ (pages = "next" => PlainNames) /\ whole' \subseteq DOMAIN table
    BY <1>1, <1>5, <1>9 DEF PagesTyped
  <2>2. pages = "first" => shown = {} /\ again = {}
    BY <1>1 DEF PagesTyped
  <2>3. ASSUME NEW e \in whole', pages = "next"
        PROVE  (Passed(e) <=> e \in shown) /\ e \notin again
    BY <1>1, <2>1, <2>3 DEF PagesIInv, WholeIsShown, PagesAreComplete
  <2>4. pages' = "done" => whole' \subseteq shown'
    BY <1>1, <1>6, <2>1, <2>3
  <2>5. again' \cap whole' = {}
    BY <1>1, <1>2, <1>6, <2>1, <2>2, <2>3
  <2>6. ASSUME list.newest, NEW e \in again' PROVE e \in left
    <3>1. CASE pages = "first"
      BY <1>1, <2>2, <2>6, <3>1
    <3>2. CASE pages = "next"
      <4>1. CASE e \in again
        BY <2>1, <2>6, <3>2, <4>1 DEF PagesIInv, PagesAreComplete
      <4>2. CASE e \in shown \cap Page
        <5>1. e \notin left => Passed(e)
          BY <2>6, <3>2, <4>2 DEF PagesIInv, ShownIsPassed
        <5>2. ~Passed(e)
          BY <1>2, <1>6, <2>1, <3>2, <4>2
        <5> QED
          BY <5>1, <5>2
      <4> QED
        BY <1>1, <2>6, <4>1, <4>2
    <3> QED
      BY <1>1, <3>1, <3>2
  <2> QED
    BY <1>1, <2>4, <2>5, <2>6
<1> QED
  BY <1>4, <1>7, <1>8, <1>9 DEF PagesIInv, PagesAreComplete, PagesTyped
-----------------------------------------------------------------------------
(* The table changes while it is read.                                      *)

\* A row comes, goes or moves.
LEMMA ChangedSafely ==
    ASSUME PagesIInv, NEW e \in Entry, Changed(e), left' \in {left, left \cup {e}},
           DOMAIN table' \subseteq DOMAIN table \cup {e},
           \A d \in DOMAIN table \ {e} : d \in DOMAIN table' /\ table'[d] = table[d],
           e \in DOMAIN table' => table'[e] \in Key,
           list.newest /\ e \in shown \ left' => e \in DOMAIN table' /\ Passed(e)'
    PROVE  PagesIInv'
<1>1. /\ pages = "next" /\ changes < MaxChanges /\ changes' = changes + 1
      /\ whole' = whole \ {e} /\ names' = names \cup {table'[d] : d \in DOMAIN table'}
      /\ UNCHANGED <<list, cursor, pages, shown, again>>
      /\ PagesTyped /\ PagesTypeOK
  BY DEF Changed, PagesIInv, PagesTyped
<1>2. PagesTyped'
  <2>1. \A d \in DOMAIN table' : d \in Entry /\ table'[d] \in Key
    BY <1>1 DEF PagesTypeOK
  <2>2. changes' \in 0 .. MaxChanges
    BY <1>1, PagesAssumption DEF PagesTypeOK
  <2>3. shown' \cup again' \cup whole' \cup left' \subseteq Entry /\ names' \subseteq Key
    BY <1>1, <2>1 DEF PagesTypeOK
  <2>4. PagesTypeOK'
    BY <1>1, <2>1, <2>2, <2>3 DEF PagesTypeOK
  <2>5. whole' \subseteq DOMAIN table'
    BY <1>1 DEF PagesTyped
  <2> QED
    BY <1>1, <2>4, <2>5 DEF PagesTyped
<1>3. \A d \in DOMAIN table \ {e} : d \in DOMAIN table' /\ (Passed(d)' <=> Passed(d))
  BY <1>1 DEF Passed, At, Precedes, TieOrder
<1>4. PlainNames' => PlainNames
  BY <1>1 DEF PlainNames
<1>5. WholeIsShown'
  <2>1. ASSUME PlainNames', NEW d \in whole' PROVE Passed(d)' <=> d \in shown'
    <3>1. d \in whole /\ d \in DOMAIN table \ {e}
      BY <1>1, <2>1 DEF PagesTyped
    <3>2. Passed(d) <=> d \in shown
      BY <1>1, <1>4, <2>1, <3>1 DEF PagesIInv, WholeIsShown
    <3> QED
      BY <1>1, <1>3, <3>1, <3>2
  <2> QED
    BY <2>1 DEF WholeIsShown
<1>6. ShownIsPassed'
  <2>1. ASSUME list.newest, NEW d \in shown \ left' PROVE d \in DOMAIN table' /\ Passed(d)'
    <3>1. CASE d = e
      BY <2>1, <3>1
    <3>2. CASE d # e
      <4>1. d \in DOMAIN table /\ Passed(d)
        BY <1>1, <2>1 DEF PagesIInv, ShownIsPassed
      <4> QED
        BY <1>3, <3>2, <4>1
    <3> QED
      BY <3>1, <3>2
  <2> QED
    BY <1>1, <2>1 DEF ShownIsPassed
<1>7. PagesAreComplete'
  BY <1>1, <1>2, <1>4 DEF PagesIInv, PagesAreComplete, PagesTyped
<1> QED
  BY <1>2, <1>5, <1>6, <1>7 DEF PagesIInv

\* A row that is new, or back.
LEMMA AddSafely == ASSUME PagesIInv, NEW e \in Entry, Add(e) PROVE PagesIInv'
<1>1. PICK k \in Key :
         table' = [d \in DOMAIN table \cup {e} |-> IF d = e THEN k ELSE table[d]]
  BY DEF Add
<1>2. e \notin DOMAIN table /\ Changed(e) /\ left' = left
  BY DEF Add
<1>3. list.newest => e \notin shown \ left
  BY <1>2 DEF Changed, PagesIInv, ShownIsPassed
<1> QED
  BY <1>1, <1>2, <1>3, ChangedSafely

\* A row that goes.
LEMMA DropSafely == ASSUME PagesIInv, NEW e \in DOMAIN table, Drop(e) PROVE PagesIInv'
<1>1. /\ table' = [d \in DOMAIN table \ {e} |-> table[d]]
      /\ left' = left \cup {e} /\ Changed(e)
  BY DEF Drop
<1>2. e \in Entry
  BY DEF PagesIInv, PagesTyped, PagesTypeOK
<1> QED
  BY <1>1, <1>2, ChangedSafely

\* A row that moves: in a list by time to the top, where the cursor has passed.
LEMMA MoveSafely == ASSUME PagesIInv, NEW e \in DOMAIN table, Move(e) PROVE PagesIInv'
<1>1. PICK k \in Key \ {table[e]} :
         (list.moves = "raised" => Top(k)) /\ table' = [table EXCEPT ![e] = k]
  BY DEF Move
<1>2. list.moves # "never" /\ Changed(e) /\ left' = left
  BY DEF Move
<1>3. e \in Entry /\ PagesTypeOK /\ e \in DOMAIN table'
  BY <1>1 DEF PagesIInv, PagesTyped, PagesTypeOK
<1>4. ASSUME list.newest, e \in shown \ left PROVE Passed(e)'
  <2>1. pages = "next" /\ UNCHANGED <<list, cursor>>
    BY <1>2 DEF Changed
  <2>2. Passed(e) /\ cursor \in Nat \X Nat
    BY <1>4, <2>1 DEF PagesIInv, ShownIsPassed, PagesTyped
  <2>3. Top(k)
    BY <1>1, <1>2, <1>3, <1>4, ListsAre DEF PagesTypeOK
  <2>4. table[e] <= k /\ k # table[e] /\ table[e] \in Nat /\ k \in Nat
    BY <1>1, <1>3, <2>3, KeysOf, PagesAssumption DEF Top
  <2>5. ~(cursor[1] > table[e])
    BY <1>4, <2>2 DEF Passed, Precedes, At
  <2>6. ~(cursor[1] > k) /\ cursor[1] # k
    BY <2>2, <2>4, <2>5
  <2>7. At(e)' = <<k, e>>
    BY <1>1 DEF At
  <2>8. Passed(e)' <=> ~Precedes(cursor, <<k, e>>)
    BY <2>1, <2>7 DEF Passed, Precedes, TieOrder
  <2> QED
    BY <1>4, <2>6, <2>8 DEF Precedes
<1>5. /\ DOMAIN table' = DOMAIN table /\ table'[e] = k
      /\ \A d \in DOMAIN table \ {e} : table'[d] = table[d]
  BY <1>1
<1> QED
  BY <1>1, <1>2, <1>3, <1>4, <1>5, ChangedSafely

\* Nothing is read at first.
LEMMA PagesInitSafe == PagesInit => PagesIInv
<1> SUFFICES ASSUME PagesInit PROVE PagesIInv
  OBVIOUS
<1>1. /\ list \in Lists /\ changes = 0 /\ cursor = NoCursor /\ pages = "first"
      /\ shown = {} /\ again = {} /\ whole = {} /\ left = {} /\ names = {}
  BY DEF PagesInit
<1>2. DOMAIN table \subseteq Entry /\ \A e \in DOMAIN table : table[e] \in Key
  BY DEF PagesInit
<1>3. PagesTypeOK
  BY <1>1, <1>2, PagesAssumption DEF PagesTypeOK
<1> QED
  BY <1>1, <1>3 DEF PagesIInv, PagesTyped, WholeIsShown, ShownIsPassed, PagesAreComplete

\* The inductive invariant.
LEMMA PagesSafe == PagesSpec => []PagesIInv
<1>1. ASSUME PagesIInv, [PagesNext]_pageVars PROVE PagesIInv'
  <2>1. CASE UNCHANGED pageVars
    BY <1>1, <2>1 DEF pageVars, PagesIInv, PagesTyped, PagesTypeOK, WholeIsShown, ShownIsPassed,
       PagesAreComplete, PlainNames, Passed, At, Precedes, TieOrder
  <2>2. CASE PagesNext
    BY <1>1, <2>2, ReadSafely, AddSafely, DropSafely, MoveSafely DEF PagesNext
  <2> QED
    BY <1>1, <2>1, <2>2
<1>2. PagesIInv /\ [PagesNext]_pageVars => PagesIInv'
  BY <1>1
<1> QED
  BY <1>2, PagesInitSafe, PTL DEF PagesSpec

(* Whatever comes, goes and moves between two pages, a client that reads a  *)
(* list to its end has seen what was there throughout, and once, where the  *)
(* forms of a name agree; for any rows, keys and page lengths.              *)
THEOREM NothingIsSkipped == PagesSpec => []PagesAreComplete
BY PagesSafe, PTL DEF PagesIInv
-----------------------------------------------------------------------------
(* The posture of a device.                                                 *)

Outcomes == {"pass", "fail", "incomplete_data", "unsupported_condition", "not_applicable"}

\* Without evidence no condition is judged.
LEMMA WithoutEvidence ==
    ASSUME NEW c, NEW usable
    PROVE  Condition(c, usable, FALSE) \in {"unsupported_condition", "incomplete_data"}
BY DEF Condition

\* What a posture comes to: a verdict only on evidence and of a device that it
\* applies to.
LEMMA PostureStatus ==
    ASSUME NEW p, NEW attributes, NEW available \in BOOLEAN, NEW applicable \in BOOLEAN
    PROVE  LET status == Posture(p, attributes, available, applicable).status
           IN /\ status \in Outcomes
              /\ status \in {"pass", "fail"} => available /\ applicable
              /\ status = "not_applicable" <=> ~applicable
<1> DEFINE each == [i \in DOMAIN p.conditions |-> Condition(p.conditions[i], Usable(attributes), available)]
           statuses == ToSet(each)
           status == Posture(p, attributes, available, applicable).status
<1>1. status = CASE ~applicable -> "not_applicable"
                 [] applicable /\ ~available -> "incomplete_data"
                 [] applicable /\ available /\ (~p.list \/ "unsupported_condition" \in statuses) ->
                      "unsupported_condition"
                 [] OTHER -> Verdict(statuses \subseteq {"pass"})
  BY DEF Posture
<1>2. Verdict(statuses \subseteq {"pass"}) \in {"pass", "fail"}
  BY DEF Verdict
<1> HIDE DEF status, statuses, each
<1> QED
  BY <1>1, <1>2 DEF Outcomes, status

\* The worth of a rule to a device, from the statuses of the postures it names.
LEMMA ImpactOf ==
    ASSUME NEW statuses, statuses # {}, statuses \subseteq Outcomes, NEW applicable \in BOOLEAN,
           "not_applicable" \in statuses => ~applicable,
           ~applicable => statuses \cap {"pass", "fail"} = {}
    PROVE  /\ Impact(statuses, applicable) = "pass" <=> "pass" \in statuses
           /\ Impact(statuses, applicable) = "fail" <=> statuses = {"fail"}
<1>1. CASE ~applicable
  BY <1>1 DEF Impact
<1>2. CASE applicable /\ "pass" \in statuses
  BY <1>2 DEF Impact
<1>3. CASE /\ applicable /\ "pass" \notin statuses
           /\ statuses \cap {"incomplete_data", "unsupported_condition"} # {}
  BY <1>3 DEF Impact
<1>4. CASE /\ applicable /\ "pass" \notin statuses
           /\ statuses \cap {"incomplete_data", "unsupported_condition"} = {}
  <2>1. statuses = {"fail"}
    BY <1>4 DEF Outcomes
  <2> QED
    BY <1>4, <2>1 DEF Impact
<1> QED
  BY <1>1, <1>2, <1>3, <1>4
\* The parts of a payload.
NamedBy(in, i) == ToSet(Required(in.rules[i], in.default))
Status(in, n) ==
    IF n \in DOMAIN in.postures
    THEN Posture(in.postures[n], in.attributes, in.evidence = "available", Applicable(in.device)).status
    ELSE "unsupported_condition"

LEMMA PayloadParts ==
    ASSUME NEW in
    PROVE  LET p == PosturePayload(in)
           IN /\ DOMAIN p.evaluations = DOMAIN in.postures
              /\ \A n \in DOMAIN in.postures :
                    p.evaluations[n] = Posture(in.postures[n], in.attributes,
                                               in.evidence = "available", Applicable(in.device))
              /\ p.overall = Overall({Status(in, n) : n \in DOMAIN in.postures}, in.evidence)
              /\ DOMAIN p.impacts = {r \in DOMAIN in.rules : NamedBy(in, r) # {}}
              /\ \A i \in DOMAIN p.impacts :
                    p.impacts[i] = Impact({Status(in, n) : n \in NamedBy(in, i)}, Applicable(in.device))
              /\ p.expired = {k \in DOMAIN in.attributes : ShownExpired(in.attributes[k])}
<1> DEFINE p == PosturePayload(in)
           judged == [n \in DOMAIN in.postures |->
                        Posture(in.postures[n], in.attributes, in.evidence = "available",
                                Applicable(in.device))]
           statusOf(n) == IF n \in DOMAIN judged THEN judged[n].status ELSE "unsupported_condition"
<1>1. /\ p.evaluations = judged
      /\ p.overall = Overall({judged[n].status : n \in DOMAIN judged}, in.evidence)
      /\ p.impacts = [i \in {r \in DOMAIN in.rules : NamedBy(in, r) # {}} |->
                        Impact({statusOf(n) : n \in NamedBy(in, i)}, Applicable(in.device))]
      /\ p.expired = {k \in DOMAIN in.attributes : ShownExpired(in.attributes[k])}
  BY DEF PosturePayload, NamedBy
<1>2. \A n : statusOf(n) = Status(in, n)
  BY DEF Status
<1>3. {judged[n].status : n \in DOMAIN judged} = {Status(in, n) : n \in DOMAIN in.postures}
  BY DEF Status
<1> HIDE DEF p, statusOf
<1>4. \A i : {statusOf(n) : n \in NamedBy(in, i)} = {Status(in, n) : n \in NamedBy(in, i)}
  BY <1>2
<1> SUFFICES /\ DOMAIN p.evaluations = DOMAIN in.postures
             /\ \A n \in DOMAIN in.postures :
                    p.evaluations[n] = Posture(in.postures[n], in.attributes,
                                               in.evidence = "available", Applicable(in.device))
             /\ p.overall = Overall({Status(in, n) : n \in DOMAIN in.postures}, in.evidence)
             /\ DOMAIN p.impacts = {r \in DOMAIN in.rules : NamedBy(in, r) # {}}
             /\ \A i \in DOMAIN p.impacts :
                    p.impacts[i] = Impact({Status(in, n) : n \in NamedBy(in, i)}, Applicable(in.device))
             /\ p.expired = {k \in DOMAIN in.attributes : ShownExpired(in.attributes[k])}
  BY DEF p
<1> QED
  BY <1>1, <1>3, <1>4

\* The status of any posture, evaluated or not.
LEMMA StatusOf ==
    ASSUME NEW in, NEW n
    PROVE  /\ Status(in, n) \in Outcomes
           /\ Status(in, n) \in {"pass", "fail"} =>
                 n \in DOMAIN in.postures /\ in.evidence = "available" /\ Applicable(in.device)
           /\ Status(in, n) = "not_applicable" => ~Applicable(in.device)
<1>1. Applicable(in.device) \in BOOLEAN /\ (in.evidence = "available") \in BOOLEAN
  BY DEF Applicable
<1>2. CASE n \in DOMAIN in.postures
  BY <1>1, <1>2, PostureStatus DEF Status
<1>3. CASE n \notin DOMAIN in.postures
  BY <1>3 DEF Status, Outcomes
<1> QED
  BY <1>2, <1>3
-----------------------------------------------------------------------------
\* What has been answered is the payload of the input.
PostureIInv ==
    subject \in PostureInputs /\ (payload # NoPayload => payload = PosturePayload(subject))

\* Stale evidence judges nothing.
LEMMA StaleJudgesNothing == PostureIInv => StaleEvidenceJudgesNothing
<1> SUFFICES ASSUME PostureIInv, payload # NoPayload, subject.evidence # "available"
             PROVE  /\ payload.overall \notin {"pass", "fail"}
                    /\ \A i \in DOMAIN payload.impacts : payload.impacts[i] \notin {"pass", "fail"}
                    /\ \A n \in DOMAIN payload.evaluations :
                          ToSet(payload.evaluations[n].assertions) \cap {"pass", "fail"} = {}
  BY DEF StaleEvidenceJudgesNothing
<1> DEFINE in == subject
           all == {Status(in, n) : n \in DOMAIN in.postures}
<1>1. payload = PosturePayload(in)
  BY DEF PostureIInv
<1>2. \A n : Status(in, n) \in Outcomes \ {"pass", "fail"}
  BY StatusOf
<1>3. payload.overall \notin {"pass", "fail"}
  <2>1. payload.overall = Overall(all, in.evidence)
    BY <1>1, PayloadParts
  <2>2. all \subseteq {"incomplete_data", "unsupported_condition", "not_applicable"}
    BY <1>2 DEF Outcomes
  <2> HIDE DEF all
  <2>3. CASE in.evidence \notin {"available", "stale"}
    BY <2>1, <2>3 DEF Overall
  <2>4. CASE in.evidence = "stale" /\ all = {}
    BY <2>1, <2>4 DEF Overall
  <2>5. CASE in.evidence = "stale" /\ all \cap {"incomplete_data", "unsupported_condition"} # {}
    BY <2>1, <2>2, <2>5 DEF Overall
  <2>6. CASE in.evidence = "stale" /\ all = {"not_applicable"}
    BY <2>1, <2>6 DEF Overall
  <2> QED
    BY <2>2, <2>3, <2>4, <2>5, <2>6
<1>4. ASSUME NEW i \in DOMAIN payload.impacts
      PROVE  payload.impacts[i] \notin {"pass", "fail"}
  <2> DEFINE statuses == {Status(in, n) : n \in NamedBy(in, i)}
  <2>1. payload.impacts[i] = Impact(statuses, Applicable(in.device)) /\ NamedBy(in, i) # {}
    <3>1. DOMAIN payload.impacts = {r \in DOMAIN in.rules : NamedBy(in, r) # {}}
      BY <1>1, PayloadParts
    <3>2. payload.impacts[i] = Impact(statuses, Applicable(in.device))
      BY <1>1, PayloadParts
    <3> QED
      BY <3>1, <3>2
  <2>2. statuses # {} /\ statuses \subseteq Outcomes
    BY <1>2, <2>1
  <2>3. "not_applicable" \in statuses => ~Applicable(in.device)
    BY StatusOf
  <2>4. statuses \cap {"pass", "fail"} = {}
    BY <1>2
  <2>5. Applicable(in.device) \in BOOLEAN
    BY DEF Applicable
  <2> HIDE DEF statuses
  <2> QED
    BY <2>1, <2>2, <2>3, <2>4, <2>5, ImpactOf
<1>5. ASSUME NEW n \in DOMAIN payload.evaluations
      PROVE  ToSet(payload.evaluations[n].assertions) \cap {"pass", "fail"} = {}
  <2> DEFINE conditions == in.postures[n].conditions
             each == [i \in DOMAIN conditions |-> Condition(conditions[i], Usable(in.attributes), FALSE)]
  <2>1. payload.evaluations[n] = Posture(in.postures[n], in.attributes, FALSE, Applicable(in.device))
    BY <1>1, PayloadParts
  <2>2. payload.evaluations[n].assertions = each
    BY <2>1 DEF Posture
  <2>3. \A i \in DOMAIN each : each[i] \notin {"pass", "fail"}
    BY WithoutEvidence
  <2> HIDE DEF each, conditions
  <2> QED
    BY <2>2, <2>3 DEF ToSet
<1> QED
  BY <1>3, <1>4, <1>5

\* What is shown as expired was not usable.
LEMMA ExpiredIsUnused == PostureAssumption /\ PostureIInv => ExpiredCountsForNothing
<1> SUFFICES ASSUME PostureAssumption, PostureIInv, payload # NoPayload
             PROVE  LET kept == DOMAIN subject.attributes \ payload.expired
                        without == [subject EXCEPT !.attributes =
                                       [k \in kept |-> subject.attributes[k]]]
                    IN PosturePayload(without).evaluations = payload.evaluations
  BY DEF ExpiredCountsForNothing
<1> DEFINE all == subject.attributes
           kept == DOMAIN all \ payload.expired
           rest == [k \in kept |-> all[k]]
           without == [subject EXCEPT !.attributes = rest]
<1>1. payload = PosturePayload(subject) /\ subject \in PostureInputs
  BY DEF PostureIInv
<1>2. /\ without.attributes = rest /\ without.postures = subject.postures
      /\ without.evidence = subject.evidence /\ without.device = subject.device
  BY <1>1 DEF PostureAssumption, Given
<1>3. kept = {k \in DOMAIN all : ~ShownExpired(all[k])}
  BY <1>1, PayloadParts
<1>4. Usable(rest) = Usable(all)
  <2>1. ASSUME NEW k \in DOMAIN all
        PROVE  ~ShownExpired(all[k]) <=> (Expires(all[k]) => all[k].expiry > Now)
    BY <1>1 DEF ShownExpired, Expires, PostureAssumption
  <2>2. {k \in DOMAIN rest : Expires(rest[k]) => rest[k].expiry > Now}
           = {k \in DOMAIN all : Expires(all[k]) => all[k].expiry > Now}
    BY <1>3, <2>1
  <2> QED
    BY <1>3, <2>2 DEF Usable
<1>5. ASSUME NEW p, NEW available, NEW applicable
      PROVE  Posture(p, rest, available, applicable) = Posture(p, all, available, applicable)
  BY <1>4 DEF Posture
<1> DEFINE seen == PosturePayload(without).evaluations
<1>6. /\ seen = [n \in DOMAIN subject.postures |->
                    Posture(subject.postures[n], rest, subject.evidence = "available",
                            Applicable(subject.device))]
  BY <1>2 DEF PosturePayload
<1>7. payload.evaluations = [n \in DOMAIN subject.postures |->
                    Posture(subject.postures[n], all, subject.evidence = "available",
                            Applicable(subject.device))]
  BY <1>1 DEF PosturePayload
<1> HIDE DEF rest, all
<1>8. seen = payload.evaluations
  BY <1>5, <1>6, <1>7
<1> QED
  BY <1>8 DEF rest, all

\* Any of the postures that a rule requires admits the device.
LEMMA AnyAdmits == PostureIInv => AnyPostureAdmits
<1> SUFFICES ASSUME PostureIInv, payload # NoPayload, NEW i \in DOMAIN payload.impacts
             PROVE  LET wanted == ToSet(Required(subject.rules[i], subject.default))
                        says(n, status) == /\ n \in DOMAIN payload.evaluations
                                           /\ payload.evaluations[n].status = status
                    IN /\ (payload.impacts[i] = "pass") = (\E n \in wanted : says(n, "pass"))
                       /\ (payload.impacts[i] = "fail") = (\A n \in wanted : says(n, "fail"))
  BY DEF AnyPostureAdmits
<1> DEFINE in == subject
           wanted == NamedBy(in, i)
           says(n, status) == /\ n \in DOMAIN payload.evaluations
                              /\ payload.evaluations[n].status = status
           statuses == {Status(in, n) : n \in wanted}
<1>1. payload = PosturePayload(in)
  BY DEF PostureIInv
<1>2. payload.impacts[i] = Impact(statuses, Applicable(in.device)) /\ wanted # {}
  BY <1>1, PayloadParts
<1>3. ASSUME NEW n, NEW status \in {"pass", "fail"}
      PROVE  says(n, status) <=> Status(in, n) = status
  BY <1>1, PayloadParts, ZenonT(30) DEF Status
<1>4. /\ statuses # {} /\ statuses \subseteq Outcomes
      /\ "not_applicable" \in statuses => ~Applicable(in.device)
      /\ ~Applicable(in.device) => statuses \cap {"pass", "fail"} = {}
      /\ Applicable(in.device) \in BOOLEAN
  BY <1>2, StatusOf DEF Applicable
<1>5. /\ payload.impacts[i] = "pass" <=> "pass" \in statuses
      /\ payload.impacts[i] = "fail" <=> statuses = {"fail"}
  <2> HIDE DEF statuses
  <2> QED
    BY <1>2, <1>4, ImpactOf
<1>6. "pass" \in statuses <=> \E n \in wanted : says(n, "pass")
  BY <1>3
<1>7. statuses = {"fail"} <=> \A n \in wanted : says(n, "fail")
  BY <1>2, <1>3
<1> HIDE DEF says
<1>8. /\ (payload.impacts[i] = "pass") = (\E n \in wanted : says(n, "pass"))
      /\ (payload.impacts[i] = "fail") = (\A n \in wanted : says(n, "fail"))
  BY <1>5, <1>6, <1>7
<1> QED
  BY <1>8 DEF says, NamedBy

(* A posture passes or fails only on fresh evidence, an attribute shown as  *)
(* expired counts for nothing, and any required posture admits a device     *)
(* (_posture_payload, evaluate_device_postures), for any postures, rules,   *)
(* attributes and devices.                                                  *)
THEOREM PostureIsJudged == PostureSpec => []PostureInv
<1>1. PostureInit => PostureIInv
  BY DEF PostureInit, PostureIInv
<1>2. PostureIInv /\ [ReadPosture]_postureVars => PostureIInv'
  BY DEF PostureIInv, ReadPosture, postureVars
<1>3. PostureIInv => PostureInv
  BY PostureAssumption, StaleJudgesNothing, ExpiredIsUnused, AnyAdmits DEF PostureInv
<1> QED
  BY <1>1, <1>2, <1>3, PTL DEF PostureSpec
-----------------------------------------------------------------------------
(* The rules of a policy.  Expand is a recursive function over the          *)
(* selectors below a selector; that there is one, for groups that end, is   *)
(* proved by their depth.                                                   *)

\* One step of the expansion, from those in f.
Expansion(f, s, p) ==
    IF IsGroup(s, p)
    THEN LET members == p.groups[s.name]
         IN Members([i \in DOMAIN members |-> f[members[i]]])
    ELSE Matching(s, p)

\* What is known of a policy.
PolicyOK(p) ==
    /\ IsFiniteSet(DOMAIN p.groups) /\ GroupsEnd(p.groups)
    /\ \A g \in DOMAIN p.groups : p.groups[g] \in Seq(Selector)
    /\ "with :*" \notin DOMAIN p.groups \cup DOMAIN p.hosts

\* How far a selector is from its last members.
IsRank(rank, p) ==
    /\ \A s \in Selector :
          rank[s] \in 0 .. Cardinality(DOMAIN p.groups) + 1
    /\ \A s \in Selector : IsGroup(s, p) =>
          \A m \in ToSet(p.groups[s.name]) : rank[m] < rank[s]

LEMMA RankOf == ASSUME NEW p, PolicyOK(p) PROVE \E rank : IsRank(rank, p)
<1> DEFINE N == Cardinality(DOMAIN p.groups)
<1>1. N \in Nat
  BY FS_CardinalityType DEF PolicyOK
<1>2. PICK depth \in [DOMAIN p.groups -> 0 .. N] :
         \A g \in DOMAIN p.groups : \A s \in ToSet(p.groups[g]) :
            s.kind = "group" /\ s.name \in DOMAIN p.groups => depth[s.name] < depth[g]
  BY DEF PolicyOK, GroupsEnd
<1>3. ASSUME NEW g \in DOMAIN p.groups, NEW m \in ToSet(p.groups[g])
      PROVE  m \in Selector
  <2>1. p.groups[g] \in Seq(Selector)
    BY DEF PolicyOK
  <2> QED
    BY <2>1 DEF ToSet
<1> DEFINE rank == [s \in Selector |-> IF IsGroup(s, p) THEN depth[s.name] + 1 ELSE 0]
<1> HIDE DEF N
<1>4. \A s \in Selector : rank[s] \in 0 .. N + 1
  BY <1>1, <1>2 DEF IsGroup
<1>5. ASSUME NEW s \in Selector, IsGroup(s, p), NEW m \in ToSet(p.groups[s.name])
      PROVE  rank[m] < rank[s]
  <2>1. m \in Selector /\ s.name \in DOMAIN p.groups
    BY <1>3, <1>5 DEF IsGroup
  <2>2. rank[s] = depth[s.name] + 1 /\ depth[s.name] \in 0 .. N
    BY <1>2, <1>5, <2>1
  <2>3. CASE IsGroup(m, p)
    <3>1. rank[m] = depth[m.name] + 1 /\ depth[m.name] < depth[s.name]
      BY <1>2, <2>1, <2>3 DEF IsGroup
    <3>2. depth[m.name] \in 0 .. N
      BY <1>2, <2>3 DEF IsGroup
    <3> QED
      BY <1>1, <2>2, <3>1, <3>2
  <2>4. CASE ~IsGroup(m, p)
    BY <1>1, <2>1, <2>2, <2>4
  <2> QED
    BY <2>3, <2>4
<1> HIDE DEF rank
<1>6. IsRank(rank, p)
  BY <1>4, <1>5 DEF IsRank, N
<1> QED
  BY <1>6

\* The expansion of a selector depends on those of its members alone.
LEMMA SameMembers ==
    ASSUME NEW p, NEW s, NEW f, NEW g,
           IsGroup(s, p) => \A m \in ToSet(p.groups[s.name]) : f[m] = g[m]
    PROVE  Expansion(f, s, p) = Expansion(g, s, p)
<1>1. CASE IsGroup(s, p)
  <2> DEFINE members == p.groups[s.name]
  <2>1. [i \in DOMAIN members |-> f[members[i]]] = [i \in DOMAIN members |-> g[members[i]]]
    BY <1>1 DEF ToSet
  <2> QED
    BY <1>1, <2>1 DEF Expansion
<1>2. CASE ~IsGroup(s, p)
  BY <1>2 DEF Expansion
<1> QED
  BY <1>1, <1>2
\* There is an expansion of all selectors below one.
LEMMA ExpansionExists ==
    ASSUME NEW p, PolicyOK(p), NEW sel \in Selector
    PROVE  \E f : f = [s \in Selectors(sel, p) |-> Expansion(f, s, p)]
<1> DEFINE S == Selectors(sel, p)
           N == Cardinality(DOMAIN p.groups)
<1>1. PICK rank : IsRank(rank, p)
  BY RankOf
<1> DEFINE Solved(n) ==
             \E f : /\ f = [s \in S |-> f[s]]
                    /\ \A s \in S : rank[s] < n => f[s] = Expansion(f, s, p)
<1>2. N \in Nat
  BY FS_CardinalityType DEF PolicyOK
<1>3. ASSUME NEW g \in DOMAIN p.groups, NEW m \in ToSet(p.groups[g])
      PROVE  m \in Selector /\ m \in S
  <2>1. p.groups[g] \in Seq(Selector)
    BY DEF PolicyOK
  <2> QED
    BY <2>1 DEF ToSet, Selectors
<1>4. \A s \in S : s \in Selector
  BY <1>3 DEF Selectors
<1>5. \A s \in S : rank[s] \in 0 .. N + 1
  BY <1>1, <1>4 DEF IsRank
<1>6. ASSUME NEW s \in S, IsGroup(s, p), NEW m \in ToSet(p.groups[s.name])
      PROVE  m \in S /\ rank[m] < rank[s]
  BY <1>1, <1>3, <1>4, <1>6 DEF IsRank, IsGroup
<1> HIDE DEF S, N
<1>7. Solved(0)
  <2> DEFINE f == [s \in S |-> 0]
  <2>1. f = [s \in S |-> f[s]] /\ \A s \in S : ~(rank[s] < 0)
    BY <1>2, <1>5
  <2> HIDE DEF f
  <2> QED
    BY <2>1
<1>8. ASSUME NEW n \in Nat, Solved(n)
      PROVE  Solved(n + 1)
  <2>1. PICK f : /\ f = [s \in S |-> f[s]]
                 /\ \A s \in S : rank[s] < n => f[s] = Expansion(f, s, p)
    BY <1>8
  <2> DEFINE g == [s \in S |-> IF rank[s] < n + 1 THEN Expansion(f, s, p) ELSE f[s]]
  <2>2. \A s \in S : rank[s] < n => g[s] = f[s]
    BY <1>2, <1>5, <2>1
  <2>3. ASSUME NEW s \in S, rank[s] < n + 1
        PROVE  g[s] = Expansion(g, s, p)
    <3>1. g[s] = Expansion(f, s, p)
      BY <2>3
    <3> HIDE DEF g
    <3>2. IsGroup(s, p) => \A m \in ToSet(p.groups[s.name]) : g[m] = f[m]
      <4> SUFFICES ASSUME IsGroup(s, p), NEW m \in ToSet(p.groups[s.name])
                   PROVE  g[m] = f[m]
        OBVIOUS
      <4>1. m \in S /\ rank[m] < rank[s]
        BY <1>6
      <4>2. rank[m] < n
        BY <1>2, <1>5, <2>3, <4>1
      <4> QED
        BY <2>2, <4>1, <4>2
    <3>3. Expansion(g, s, p) = Expansion(f, s, p)
      BY <3>2, SameMembers
    <3> QED
      BY <3>1, <3>3
  <2>4. g = [s \in S |-> g[s]]
    OBVIOUS
  <2> HIDE DEF g
  <2> QED
    BY <2>3, <2>4
<1>9. Solved(N + 2)
  <2> DEFINE T == {n \in Nat : ~Solved(n)}
  <2> HIDE DEF Solved
  <2>1. CASE T = {}
    BY <1>2, <2>1
  <2>2. CASE T # {}
    <3>1. PICK n \in T : \A m \in T : n <= m
      <4>1. T \subseteq Nat
        OBVIOUS
      <4> HIDE DEF T
      <4> QED
        BY <2>2, <4>1, LeastOf
    <3>2. n \in Nat /\ n # 0 /\ ~Solved(n)
      BY <1>7, <3>1
    <3>3. n - 1 \in Nat /\ ~(n - 1 \in T)
      BY <3>1, <3>2
    <3>4. Solved(n - 1)
      BY <3>3
    <3>5. Solved(n - 1 + 1)
      BY <1>8, <3>3, <3>4
    <3> QED
      BY <3>2, <3>5
  <2> QED
    BY <2>1, <2>2
<1>10. PICK f : /\ f = [s \in S |-> f[s]]
                /\ \A s \in S : rank[s] < N + 2 => f[s] = Expansion(f, s, p)
  BY <1>9
<1>11. \A s \in S : f[s] = Expansion(f, s, p)
  BY <1>2, <1>5, <1>10
<1>12. f = [s \in S |-> Expansion(f, s, p)]
  BY <1>10, <1>11
<1> QED
  BY <1>12 DEF S

\* Expand is such an expansion.
LEMMA ExpandIs ==
    ASSUME NEW p, PolicyOK(p), NEW sel \in Selector
    PROVE  \E f : /\ f = [s \in Selectors(sel, p) |-> Expansion(f, s, p)]
                  /\ Expand(sel, p) = f[sel]
<1> DEFINE Is(f) == f = [s \in Selectors(sel, p) |-> Expansion(f, s, p)]
           g == CHOOSE f : Is(f)
<1>1. \E f : Is(f)
  BY ExpansionExists
<1>2. Is(g)
  BY <1>1
<1>3. Expand(sel, p) = g[sel]
  BY DEF Expand, Expansion
<1> HIDE DEF g
<1> QED
  BY <1>2, <1>3
\* The members of a group are selectors, met below any selector.
LEMMA MembersAre ==
    ASSUME NEW p, PolicyOK(p), NEW s, IsGroup(s, p)
    PROVE  /\ p.groups[s.name] \in Seq(Selector)
           /\ \A m \in ToSet(p.groups[s.name]) : m \in Selector
           /\ \A sel : ToSet(p.groups[s.name]) \subseteq Selectors(sel, p)
<1>1. s.name \in DOMAIN p.groups
  BY DEF IsGroup
<1>2. p.groups[s.name] \in Seq(Selector)
  BY <1>1 DEF PolicyOK
<1>3. \A m \in ToSet(p.groups[s.name]) : m \in Selector
  BY <1>2 DEF ToSet
<1>4. \A sel : ToSet(p.groups[s.name]) \subseteq Selectors(sel, p)
  BY <1>1 DEF Selectors
<1> QED
  BY <1>2, <1>3, <1>4

\* A set of selectors that has the members of its groups.
HasMembers(C, p) == \A s \in C : IsGroup(s, p) => ToSet(p.groups[s.name]) \subseteq C

LEMMA ReachedIs ==
    ASSUME NEW p, NEW sel, NEW s
    PROVE  s \in Reached(sel, p) <=>
              /\ s \in Selectors(sel, p)
              /\ \A C \in SUBSET Selectors(sel, p) : HasMembers(C, p) /\ sel \in C => s \in C
BY DEF Reached, HasMembers

\* A selector that is no group reaches itself only.
LEMMA ReachedFromLeaf ==
    ASSUME NEW p, NEW sel, ~IsGroup(sel, p)
    PROVE  Reached(sel, p) = {sel}
<1>1. sel \in Selectors(sel, p) /\ HasMembers({sel}, p)
  BY DEF Selectors, HasMembers
<1> QED
  BY <1>1, ReachedIs

\* A group reaches itself and what its members reach.
LEMMA ReachedFromGroup ==
    ASSUME NEW p, PolicyOK(p), NEW sel, IsGroup(sel, p)
    PROVE  Reached(sel, p) = {sel} \cup UNION {Reached(m, p) : m \in ToSet(p.groups[sel.name])}
<1> DEFINE below == ToSet(p.groups[sel.name])
           all == {sel} \cup UNION {Reached(m, p) : m \in below}
<1>1. below \subseteq Selectors(sel, p)
  BY MembersAre
<1>2. ASSUME NEW m \in below
      PROVE  Selectors(m, p) \subseteq Selectors(sel, p)
  BY <1>1 DEF Selectors
<1>3. ASSUME NEW m \in below, NEW s \in Reached(m, p)
      PROVE  s \in Reached(sel, p)
  <2>1. s \in Selectors(m, p) /\ s \in Selectors(sel, p)
    BY <1>2, <1>3, ReachedIs
  <2>2. ASSUME NEW C \in SUBSET Selectors(sel, p), HasMembers(C, p), sel \in C
        PROVE  s \in C
    <3> DEFINE D == C \cap Selectors(m, p)
    <3>1. m \in D
      <4>1. m \in C
        BY <2>2 DEF HasMembers
      <4> QED
        BY <4>1 DEF Selectors
    <3>2. HasMembers(D, p)
      <4> SUFFICES ASSUME NEW x \in D, IsGroup(x, p)
                   PROVE  ToSet(p.groups[x.name]) \subseteq D
        BY DEF HasMembers
      <4>1. ToSet(p.groups[x.name]) \subseteq C
        BY <2>2 DEF HasMembers
      <4>2. ToSet(p.groups[x.name]) \subseteq Selectors(m, p)
        BY MembersAre
      <4> QED
        BY <4>1, <4>2
    <3>3. s \in D
      <4>1. D \in SUBSET Selectors(m, p)
        OBVIOUS
      <4> HIDE DEF D
      <4> QED
        BY <1>3, <3>1, <3>2, <4>1, ReachedIs
    <3> QED
      BY <3>3
  <2> QED
    BY <2>1, <2>2, ReachedIs
<1>4. sel \in Reached(sel, p)
  BY ReachedIs DEF Selectors
<1>5. ASSUME NEW s \in Reached(sel, p)
      PROVE  s \in all
  <2>1. all \subseteq Selectors(sel, p)
    BY <1>3, <1>4, ReachedIs
  <2>2. \A m \in below : m \in Reached(m, p)
    BY ReachedIs DEF Selectors
  <2>3. HasMembers(all, p)
    <3> SUFFICES ASSUME NEW x \in all, IsGroup(x, p), NEW y \in ToSet(p.groups[x.name])
                 PROVE  y \in all
      BY DEF HasMembers
    <3>1. CASE x = sel
      BY <2>2, <3>1
    <3>2. ASSUME NEW m \in below, x \in Reached(m, p)
          PROVE  y \in Reached(m, p)
      <4>1. y \in Selectors(m, p)
        BY MembersAre
      <4>2. ASSUME NEW C \in SUBSET Selectors(m, p), HasMembers(C, p), m \in C
            PROVE  y \in C
        <5>1. x \in C
          BY <3>2, <4>2, ReachedIs
        <5> QED
          BY <4>2, <5>1 DEF HasMembers
      <4> QED
        BY <4>1, <4>2, ReachedIs
    <3> QED
      BY <3>1, <3>2
  <2> HIDE DEF all
  <2>4. sel \in all
    BY DEF all
  <2> QED
    BY <1>5, <2>1, <2>3, <2>4, ReachedIs
<1> QED
  BY <1>3, <1>4, <1>5

\* What a group means is what its members mean.
LEMMA MeaningOfGroup ==
    ASSUME NEW p, PolicyOK(p), NEW sel, IsGroup(sel, p)
    PROVE  Meaning(sel, p) = UNION {Meaning(m, p) : m \in ToSet(p.groups[sel.name])}
<1>1. Reached(sel, p) = {sel} \cup UNION {Reached(m, p) : m \in ToSet(p.groups[sel.name])}
  BY ReachedFromGroup
<1>2. \A d : ~Stands(sel, p, d)
  BY DEF Stands, IsGroup
<1> QED
  BY <1>1, <1>2 DEF Meaning

\* What an expansion may say of a selector: what it means or less, and all of
\* it when it is complete.
Says(x, s, p) ==
    /\ x.ids \subseteq Meaning(s, p)
    /\ x.status = "fully_evaluated" => x.ids = Meaning(s, p)

\* A selector without members.
LEMMA MatchingSays ==
    ASSUME NEW p, NEW s \in Selector, ~IsGroup(s, p)
    PROVE  Says(Matching(s, p), s, p)
<1> DEFINE x == Matching(s, p)
<1>1. Meaning(s, p) = {d \in Device : Stands(s, p, d)}
  BY ReachedFromLeaf DEF Meaning
<1>2. s.kind \in Kinds
  BY DEF Selector
<1>3. CASE s.kind = "all"
  BY <1>1, <1>3 DEF Says, Matching, Stands, Found
<1>4. CASE s.kind = "tag"
  BY <1>1, <1>4 DEF Says, Matching, Stands, Found
<1>5. CASE s.kind = "autogroup"
  <2>1. x = AutoGroup(s.name)
    BY <1>5 DEF Matching
  <2>2. CASE s.name = "member"
    BY <1>1, <1>5, <2>1, <2>2 DEF Says, AutoGroup, Stands, Found
  <2>3. CASE s.name = "tagged"
    BY <1>1, <1>5, <2>1, <2>3 DEF Says, AutoGroup, Stands, Found
  <2>4. CASE s.name \notin {"member", "tagged"}
    BY <2>1, <2>4 DEF Says, AutoGroup, Failed
  <2> QED
    BY <2>2, <2>3, <2>4
<1>6. CASE s.kind = "name"
  <2> DEFINE owned == {d \in Device : Owner[d] = s.name}
  <2>1. x = Named(s.name, p)
    BY <1>6 DEF Matching
  <2>2. CASE owned # {}
    <3>1. x = Found(owned)
      BY <2>1, <2>2 DEF Named
    <3>2. \A d \in Device : Stands(s, p, d) <=> d \in owned
      BY <1>6, <2>2 DEF Stands
    <3> QED
      BY <1>1, <3>1, <3>2 DEF Says, Found
  <2>3. CASE owned = {} /\ s.name \in DOMAIN p.hosts
    <3>1. x = Found({p.hosts[s.name]} \cap Device)
      BY <2>1, <2>3 DEF Named
    <3>2. \A d \in Device : Stands(s, p, d) <=> p.hosts[s.name] = d
      BY <1>6, <2>3 DEF Stands
    <3> QED
      BY <1>1, <3>1, <3>2 DEF Says, Found
  <2>4. CASE owned = {} /\ s.name \notin DOMAIN p.hosts
    <3>1. x = Failed({}, "unresolved_selector")
      BY <2>1, <2>4 DEF Named
    <3> QED
      BY <3>1 DEF Says, Failed
  <2> QED
    BY <2>2, <2>3, <2>4
<1>7. CASE s.kind = "group"
  BY <1>7 DEF Says, Matching, Failed
<1> QED
  BY <1>2, <1>3, <1>4, <1>5, <1>6, <1>7 DEF Kinds
\* The members of a group, each of which says what it means, up to the first
\* that is incomplete.
LEMMA MembersSay ==
    ASSUME NEW p, PolicyOK(p), NEW s, IsGroup(s, p), NEW f,
           \A m \in ToSet(p.groups[s.name]) : Says(f[m], m, p)
    PROVE  Says(Members([i \in DOMAIN p.groups[s.name] |-> f[p.groups[s.name][i]]]), s, p)
<1> DEFINE members == p.groups[s.name]
           parts == [i \in DOMAIN members |-> f[members[i]]]
           bad == {i \in DOMAIN parts : parts[i].status # "fully_evaluated"}
           last == IF bad = {} THEN Len(parts) ELSE Min(bad)
           ids == UNION {parts[i].ids : i \in 1 .. last}
           status == IF bad = {} THEN "fully_evaluated" ELSE parts[last].status
<1>1. members \in Seq(Selector) /\ DOMAIN members = 1 .. Len(members) /\ Len(members) \in Nat
  BY MembersAre
<1>2. DOMAIN parts = 1 .. Len(members) /\ Len(parts) = Len(members)
  BY <1>1
<1>3. Meaning(s, p) = UNION {Meaning(members[i], p) : i \in DOMAIN members}
  BY MeaningOfGroup DEF ToSet
<1>4. \A i \in DOMAIN members : Says(parts[i], members[i], p)
  BY DEF ToSet
<1>5. Members(parts) = [ids |-> ids, status |-> status]
  BY DEF Members
<1> SUFFICES Says(Members(parts), s, p)
  OBVIOUS
<1> HIDE DEF members, parts
<1>6. CASE bad = {}
  <2>1. last = Len(members)
    BY <1>2, <1>6
  <2>2. ids = UNION {parts[i].ids : i \in DOMAIN members}
    BY <1>1, <2>1
  <2>3. \A i \in DOMAIN members : parts[i].ids = Meaning(members[i], p)
    BY <1>1, <1>2, <1>4, <1>6 DEF Says
  <2>4. ids = Meaning(s, p)
    BY <1>3, <2>2, <2>3
  <2> HIDE DEF ids, status
  <2> QED
    BY <1>5, <2>4 DEF Says
<1>7. CASE bad # {}
  <2>1. last \in bad
    <3>1. bad \subseteq Nat
      BY <1>1, <1>2
    <3> HIDE DEF bad
    <3>2. \E i \in bad : \A j \in bad : i <= j
      BY <1>7, <3>1, LeastOf
    <3> QED
      BY <1>7, <3>2 DEF Min
  <2>2. last \in 1 .. Len(members) /\ parts[last].status # "fully_evaluated"
    BY <1>2, <2>1
  <2> HIDE DEF last
  <2>3. \A i \in 1 .. last : i \in DOMAIN members
    BY <1>1, <2>2
  <2>4. ids \subseteq Meaning(s, p)
    BY <1>3, <1>4, <2>3 DEF Says
  <2>5. status # "fully_evaluated"
    BY <1>7, <2>2
  <2> HIDE DEF ids, status
  <2> QED
    BY <1>5, <2>4, <2>5 DEF Says
<1> QED
  BY <1>6, <1>7

\* What Expand says of a selector.
LEMMA ExpandSays ==
    ASSUME NEW p, PolicyOK(p), NEW sel \in Selector
    PROVE  Says(Expand(sel, p), sel, p)
<1> DEFINE S == Selectors(sel, p)
<1>1. PICK f : f = [s \in S |-> Expansion(f, s, p)] /\ Expand(sel, p) = f[sel]
  BY ExpandIs
<1>2. PICK rank : IsRank(rank, p)
  BY RankOf
<1>3. \A s \in S : s \in Selector
  <2>1. ASSUME NEW g \in DOMAIN p.groups, NEW m \in ToSet(p.groups[g])
        PROVE  m \in Selector
    <3>1. p.groups[g] \in Seq(Selector)
      BY DEF PolicyOK
    <3> QED
      BY <3>1 DEF ToSet
  <2> QED
    BY <2>1 DEF Selectors
<1>4. sel \in S /\ \A s \in S : f[s] = Expansion(f, s, p)
  BY <1>1 DEF Selectors
<1>5. ASSUME NEW s \in S, IsGroup(s, p), NEW m \in ToSet(p.groups[s.name])
      PROVE  m \in S /\ rank[m] < rank[s]
  BY <1>2, <1>3, <1>5, MembersAre DEF IsRank
<1>6. Cardinality(DOMAIN p.groups) \in Nat
  BY FS_CardinalityType DEF PolicyOK
<1>7. \A s \in S : rank[s] \in Nat
  BY <1>2, <1>3, <1>6 DEF IsRank
<1> HIDE DEF S
<1> DEFINE T == {rank[s] : s \in {x \in S : ~Says(f[x], x, p)}}
<1>8. T = {}
  <2> SUFFICES ASSUME T # {} PROVE FALSE
    OBVIOUS
  <2>1. T \subseteq Nat
    BY <1>7
  <2>2. PICK n \in T : \A k \in T : n <= k
    <3> HIDE DEF T
    <3> QED
      BY <2>1, LeastOf
  <2>3. PICK s \in S : n = rank[s] /\ ~Says(f[s], s, p)
    BY <2>2
  <2>4. ASSUME NEW m \in S, rank[m] < rank[s]
        PROVE  Says(f[m], m, p)
    <3>1. rank[m] \in Nat /\ rank[s] \in Nat /\ (~Says(f[m], m, p) => rank[m] \in T)
      BY <1>7
    <3> HIDE DEF T
    <3> QED
      BY <2>2, <2>3, <2>4, <3>1
  <2>5. CASE IsGroup(s, p)
    <3>1. \A m \in ToSet(p.groups[s.name]) : Says(f[m], m, p)
      BY <1>5, <2>4, <2>5
    <3>2. f[s] = Members([i \in DOMAIN p.groups[s.name] |-> f[p.groups[s.name][i]]])
      BY <1>4, <2>5 DEF Expansion
    <3> QED
      BY <2>3, <2>5, <3>1, <3>2, MembersSay
  <2>6. CASE ~IsGroup(s, p)
    <3>1. f[s] = Matching(s, p)
      BY <1>4, <2>6 DEF Expansion
    <3> QED
      BY <1>3, <2>3, <2>6, <3>1, MatchingSays
  <2> QED
    BY <2>5, <2>6
<1>9. Says(f[sel], sel, p)
  BY <1>4, <1>8
<1> QED
  BY <1>1, <1>9

\* A selector that is taken with its wildcard port stands for nothing.
LEMMA GluedSays ==
    ASSUME PolicyAssumption, NEW p, PolicyOK(p), NEW sel \in Selector
    PROVE  Glued(sel) \in Selector /\ Expand(Glued(sel), p).ids = {}
<1> DEFINE g == Glued(sel)
<1>1. g.name = "with :*" /\ g.kind \in Kinds \ {"all"} /\ g \in Selector
  <2>1. sel.kind \in Kinds /\ sel.name \in Name
    BY DEF Selector
  <2>2. g = [kind |-> IF sel.kind = "all" THEN "name" ELSE sel.kind, name |-> "with :*"]
    BY DEF Glued
  <2> HIDE DEF g
  <2>3. g.name = "with :*" /\ g.kind \in Kinds \ {"all"}
    BY <2>1, <2>2 DEF Kinds
  <2>4. "with :*" \in Name
    BY DEF PolicyAssumption
  <2>5. g \in Selector
    BY <2>2, <2>3, <2>4 DEF Selector
  <2> QED
    BY <2>3, <2>5
<1>2. ~IsGroup(g, p)
  BY <1>1 DEF IsGroup, PolicyOK
<1>3. \A d \in Device : ~Stands(g, p, d)
  BY <1>1 DEF Stands, PolicyAssumption, PolicyOK
<1>4. Meaning(g, p) = {}
  BY <1>2, <1>3, ReachedFromLeaf DEF Meaning
<1> HIDE DEF g
<1>5. Expand(g, p).ids = {}
  BY <1>1, <1>4, ExpandSays DEF Says
<1> QED
  BY <1>1, <1>5 DEF g
\* A destination is expanded as the rule has it, or as nothing.
LEMMA EvaluatedSays ==
    ASSUME PolicyAssumption, NEW p, PolicyOK(p), NEW dst \in Destination
    PROVE  LET x == Expand(EvaluatedDestination(dst), p)
           IN /\ x = Expand(dst.sel, p) \/ x.ids = {}
              /\ dst.port # "*" => x = Expand(dst.sel, p)
              /\ x.ids \subseteq Meaning(dst.sel, p)
              /\ x.status = "fully_evaluated" /\ x.ids # {} => x.ids = Meaning(dst.sel, p)
<1>1. dst.sel \in Selector
  BY DEF Destination
<1>2. CASE dst.port = "*"
  BY <1>1, <1>2, GluedSays DEF EvaluatedDestination
<1>3. CASE dst.port # "*"
  BY <1>1, <1>3, ExpandSays DEF EvaluatedDestination, Says
<1> QED
  BY <1>2, <1>3

\* A policy of the constants is one, and so are its rules.
LEMMA PolicyIs ==
    ASSUME PolicyAssumption, NEW p \in Policies
    PROVE  /\ PolicyOK(p)
           /\ Rules(p) \in Seq(Rule) /\ p.grants \in Seq(Rule) /\ p.acls \in Seq(Rule)
           /\ Len(Rules(p)) = Len(p.grants) + Len(p.acls)
           /\ \A i \in 1 .. Len(p.grants) : Rules(p)[i] = p.grants[i]
           /\ \A i \in DOMAIN Rules(p) : i > Len(p.grants) =>
                 /\ Rules(p)[i] = p.acls[i - Len(p.grants)]
                 /\ i - Len(p.grants) \in DOMAIN p.acls
<1>1. PolicyOK(p) /\ p.grants \in Seq(Rule) /\ p.acls \in Seq(Rule)
  BY DEF PolicyAssumption, PolicyOK
<1> DEFINE grants == p.grants
           acls == p.acls
<1>2. Rules(p) = grants \o acls
  BY DEF Rules
<1>3. grants \in Seq(Rule) /\ acls \in Seq(Rule)
  BY <1>1
<1> HIDE DEF grants, acls
<1>4. /\ Rules(p) \in Seq(Rule)
      /\ Len(Rules(p)) = Len(grants) + Len(acls)
  BY <1>2, <1>3
<1>5. /\ \A i \in 1 .. Len(grants) : Rules(p)[i] = grants[i]
      /\ \A i \in DOMAIN Rules(p) : i > Len(grants) =>
            Rules(p)[i] = acls[i - Len(grants)] /\ i - Len(grants) \in DOMAIN acls
  BY <1>2, <1>3, <1>4
<1> QED
  BY <1>1, <1>4, <1>5 DEF grants, acls

\* The parts of a rule.
LEMMA RuleIs ==
    ASSUME NEW rule \in Rule
    PROVE  /\ rule.src \in Seq(Selector) /\ rule.dst \in Seq(Destination)
           /\ \A s \in DOMAIN rule.src : rule.src[s] \in Selector
           /\ \A t \in DOMAIN rule.dst : rule.dst[t] \in Destination /\ rule.dst[t].sel \in Selector
<1>1. rule.src \in Seq(Selector) /\ rule.dst \in Seq(Destination)
  BY DEF Rule
<1>2. \A x \in Destination : x.sel \in Selector
  BY DEF Destination
<1> QED
  BY <1>1, <1>2

\* A row of the relationships of a rule.
RowOf(i, rule, from, to, a, b) ==
    [rule_index |-> i, source |-> a, destination |-> b, posture |-> rule.posture.names,
     status |-> RelationStatus(from.status, to.status)]

\* Row r comes from source s and destination t of rule i.
IsRow(r, i, s, t, p) ==
    LET rule == Rules(p)[i]
        from == Expand(rule.src[s], p)
        to == Expand(EvaluatedDestination(rule.dst[t]), p)
    IN \E a \in from.ids, b \in to.ids : r = RowOf(i, rule, from, to, a, b)

LEMMA RelationsOf ==
    ASSUME NEW p, NEW i, NEW r
    PROVE  r \in RuleRelations(i, p) <=>
              \E s \in DOMAIN Rules(p)[i].src, t \in DOMAIN Rules(p)[i].dst : IsRow(r, i, s, t, p)
<1> DEFINE rule == Rules(p)[i]
           From(s) == Expand(rule.src[s], p)
           To(t) == Expand(EvaluatedDestination(rule.dst[t]), p)
           Rows(s, t) == {RowOf(i, rule, From(s), To(t), a, b) : a \in From(s).ids, b \in To(t).ids}
<1>1. RuleRelations(i, p) = UNION {Rows(s, t) : s \in DOMAIN rule.src, t \in DOMAIN rule.dst}
  BY DEF RuleRelations, RowOf
<1>2. \A s, t : r \in Rows(s, t) <=> IsRow(r, i, s, t, p)
  BY DEF IsRow
<1> HIDE DEF Rows
<1> QED
  BY <1>1, <1>2

\* The rows of a rule are those that name it.
LEMMA RowsOfRule ==
    ASSUME NEW p, NEW i \in DOMAIN Rules(p)
    PROVE  {r \in Relations(p) : r.rule_index = i} = RuleRelations(i, p)
<1>1. \A j, r : r \in RuleRelations(j, p) => r.rule_index = j
  BY RelationsOf DEF IsRow, RowOf
<1> QED
  BY <1>1 DEF Relations
-----------------------------------------------------------------------------
\* What has been answered is read from the policy.
PolicyIInv ==
    /\ input \in Policies
    /\ result # NoResult =>
          /\ result.relations = Relations(input)
          /\ result.review = SecurityReview(input)

\* The relationships are what the rules mean.
LEMMA RelationsAreMeant == PolicyAssumption /\ PolicyIInv => PermitsWhatTheRuleMeans
<1> DEFINE p == input
           rule(i) == Rules(p)[i]
           ofRule(i) == {r \in result.relations : r.rule_index = i}
           means(sels) == UNION {Meaning(sels[k], p) : k \in DOMAIN sels}
           to(i) == [t \in DOMAIN rule(i).dst |-> rule(i).dst[t].sel]
           full(i) == \E w \in ofRule(i) : w.status = "fully_evaluated"
<1> SUFFICES ASSUME PolicyAssumption, PolicyIInv, result # NoResult, NEW i \in DOMAIN Rules(p)
             PROVE  /\ \A r \in ofRule(i) : r.source \in means(rule(i).src) /\ r.destination \in means(to(i))
                    /\ (full(i) /\ Len(rule(i).src) = 1 /\ Len(rule(i).dst) = 1)
                         => {<<w.source, w.destination>> : w \in ofRule(i)}
                               = means(rule(i).src) \X means(to(i))
  BY DEF PermitsWhatTheRuleMeans
<1> DEFINE R == Rules(p)[i]
           From(s) == Expand(R.src[s], p)
           To(t) == Expand(EvaluatedDestination(R.dst[t]), p)
<1>1. p \in Policies /\ PolicyOK(p) /\ R \in Rule
  <2>1. p \in Policies
    BY DEF PolicyIInv
  <2>2. PolicyOK(p) /\ Rules(p) \in Seq(Rule)
    BY <2>1, PolicyIs
  <2> QED
    BY <2>1, <2>2
<1>2. ofRule(i) = RuleRelations(i, p)
  BY RowsOfRule DEF PolicyIInv
<1>3. \A s \in DOMAIN R.src : Says(From(s), R.src[s], p)
  BY <1>1, RuleIs, ExpandSays
<1>4. \A t \in DOMAIN R.dst :
         /\ To(t).ids \subseteq Meaning(R.dst[t].sel, p)
         /\ To(t).status = "fully_evaluated" /\ To(t).ids # {} =>
               To(t).ids = Meaning(R.dst[t].sel, p)
  BY <1>1, RuleIs, EvaluatedSays
<1>5. \A r : r \in ofRule(i) <=>
         \E s \in DOMAIN R.src, t \in DOMAIN R.dst : IsRow(r, i, s, t, p)
  BY <1>2, RelationsOf
<1>6. DOMAIN to(i) = DOMAIN R.dst /\ \A t \in DOMAIN R.dst : to(i)[t] = R.dst[t].sel
  OBVIOUS
<1>7. ASSUME NEW r \in ofRule(i)
      PROVE  r.source \in means(R.src) /\ r.destination \in means(to(i))
  <2>1. PICK s \in DOMAIN R.src, t \in DOMAIN R.dst : IsRow(r, i, s, t, p)
    BY <1>5, <1>7
  <2>2. PICK a \in From(s).ids, b \in To(t).ids : r = RowOf(i, R, From(s), To(t), a, b)
    BY <2>1 DEF IsRow
  <2>3. r.source = a /\ r.destination = b
    BY <2>2 DEF RowOf
  <2>4. a \in Meaning(R.src[s], p) /\ b \in Meaning(R.dst[t].sel, p)
    BY <1>3, <1>4 DEF Says
  <2> HIDE DEF R, to
  <2> QED
    BY <1>6, <2>3, <2>4
<1>8. ASSUME full(i), Len(R.src) = 1, Len(R.dst) = 1
      PROVE  {<<w.source, w.destination>> : w \in ofRule(i)} = means(R.src) \X means(to(i))
  <2>1. DOMAIN R.src = {1} /\ DOMAIN R.dst = {1}
    BY <1>1, <1>8, RuleIs
  <2>2. means(R.src) = Meaning(R.src[1], p) /\ means(to(i)) = Meaning(R.dst[1].sel, p)
    BY <1>6, <2>1
  <2>3. \A r : r \in ofRule(i) <=>
           \E a \in From(1).ids, b \in To(1).ids : r = RowOf(i, R, From(1), To(1), a, b)
    BY <1>5, <2>1 DEF IsRow
  <2> HIDE DEF ofRule, R, From, To
  <2>4. PICK w \in ofRule(i) : w.status = "fully_evaluated"
    BY <1>8
  <2>5. PICK a \in From(1).ids, b \in To(1).ids : w = RowOf(i, R, From(1), To(1), a, b)
    BY <2>3
  <2>6. From(1).status = "fully_evaluated" /\ To(1).status = "fully_evaluated" /\ To(1).ids # {}
    BY <2>4, <2>5 DEF RowOf, RelationStatus
  <2>7. From(1).ids = Meaning(R.src[1], p) /\ To(1).ids = Meaning(R.dst[1].sel, p)
    BY <1>3, <1>4, <2>1, <2>6 DEF Says
  <2>8. {<<x.source, x.destination>> : x \in ofRule(i)} = From(1).ids \X To(1).ids
    <3>1. \A a1, b1 : /\ RowOf(i, R, From(1), To(1), a1, b1).source = a1
                      /\ RowOf(i, R, From(1), To(1), a1, b1).destination = b1
      BY DEF RowOf
    <3>2. ASSUME NEW x \in ofRule(i)
          PROVE  <<x.source, x.destination>> \in From(1).ids \X To(1).ids
      BY <2>3, <3>1
    <3>3. ASSUME NEW c \in From(1).ids, NEW d \in To(1).ids
          PROVE  \E x \in ofRule(i) : <<c, d>> = <<x.source, x.destination>>
      BY <2>3, <3>1
    <3> QED
      BY <3>2, <3>3
  <2> QED
    BY <2>2, <2>7, <2>8 DEF R
<1> QED
  BY <1>7, <1>8
\* The pairs that the rows of a rule permit.
LEMMA PermittedPair ==
    ASSUME PolicyIInv, result # NoResult, NEW i \in DOMAIN Rules(input)
    PROVE  LET rule == Rules(input)[i]
           IN /\ \A x \in RulePairs(i) : x = <<x[1], x[2]>>
              /\ \A a, b : <<a, b>> \in RulePairs(i) <=>
                    /\ a # b
                    /\ \E s \in DOMAIN rule.src, t \in DOMAIN rule.dst :
                          /\ a \in Expand(rule.src[s], input).ids
                          /\ b \in Expand(EvaluatedDestination(rule.dst[t]), input).ids
<1> DEFINE p == input
           ofRule == {q \in result.relations : q.rule_index = i}
           apart == {q \in result.relations : q.rule_index = i /\ q.source # q.destination}
<1>1. ofRule = RuleRelations(i, p)
  BY RowsOfRule DEF PolicyIInv
<1>2. RulePairs(i) = {<<q.source, q.destination>> : q \in apart}
  BY DEF RulePairs
<1>3. \A q : q \in apart <=> q \in RuleRelations(i, p) /\ q.source # q.destination
  BY <1>1
<1> HIDE DEF apart, ofRule, p
<1>4. \A x \in RulePairs(i) : x = <<x[1], x[2]>>
  BY <1>2
<1>5. ASSUME NEW a, NEW b
      PROVE  <<a, b>> \in RulePairs(i) <=>
                /\ a # b
                /\ \E q \in RuleRelations(i, p) : q.source = a /\ q.destination = b
  BY <1>2, <1>3
<1> DEFINE rule == Rules(p)[i]
           Rows(s, t) == \E q : IsRow(q, i, s, t, p)
<1>6. ASSUME NEW a, NEW b, NEW s, NEW t
      PROVE  (\E q : IsRow(q, i, s, t, p) /\ q.source = a /\ q.destination = b) <=>
                /\ a \in Expand(rule.src[s], p).ids
                /\ b \in Expand(EvaluatedDestination(rule.dst[t]), p).ids
  <2> DEFINE from == Expand(rule.src[s], p)
             to == Expand(EvaluatedDestination(rule.dst[t]), p)
  <2>1. \A q : IsRow(q, i, s, t, p) <=>
           \E c \in from.ids, d \in to.ids : q = RowOf(i, rule, from, to, c, d)
    BY DEF IsRow
  <2>2. \A c, d : /\ RowOf(i, rule, from, to, c, d).source = c
                  /\ RowOf(i, rule, from, to, c, d).destination = d
    BY DEF RowOf
  <2> HIDE DEF from, to
  <2>3. (\E q : IsRow(q, i, s, t, p) /\ q.source = a /\ q.destination = b)
           <=> a \in from.ids /\ b \in to.ids
    BY <2>1, <2>2
  <2> QED
    BY <2>3 DEF from, to
<1>7. ASSUME NEW a, NEW b
      PROVE  <<a, b>> \in RulePairs(i) <=>
                /\ a # b
                /\ \E s \in DOMAIN rule.src, t \in DOMAIN rule.dst :
                      /\ a \in Expand(rule.src[s], p).ids
                      /\ b \in Expand(EvaluatedDestination(rule.dst[t]), p).ids
  <2>1. <<a, b>> \in RulePairs(i) <=>
           a # b /\ \E q : q \in RuleRelations(i, p) /\ q.source = a /\ q.destination = b
    BY <1>5
  <2>2. \A q : q \in RuleRelations(i, p) <=>
           \E s \in DOMAIN rule.src, t \in DOMAIN rule.dst : IsRow(q, i, s, t, p)
    BY RelationsOf
  <2> HIDE DEF rule
  <2>3. (\E q : q \in RuleRelations(i, p) /\ q.source = a /\ q.destination = b) <=>
           \E s \in DOMAIN rule.src, t \in DOMAIN rule.dst :
              \E q : IsRow(q, i, s, t, p) /\ q.source = a /\ q.destination = b
    BY <2>2
  <2>4. \A s, t : (\E q : IsRow(q, i, s, t, p) /\ q.source = a /\ q.destination = b) <=>
                     /\ a \in Expand(rule.src[s], p).ids
                     /\ b \in Expand(EvaluatedDestination(rule.dst[t]), p).ids
    BY <1>6
  <2> QED
    BY <2>1, <2>3, <2>4
<1> QED
  BY <1>4, <1>7 DEF p

\* The pairs of the sides of a rule.
LEMMA SidePair ==
    ASSUME NEW rule, NEW section, NEW p
    PROVE  /\ \A x \in Pairs(Sides(rule, section, p)) : x = <<x[1], x[2]>>
           /\ \A a, b : <<a, b>> \in Pairs(Sides(rule, section, p)) <=>
                 /\ a # b
                 /\ \E s \in DOMAIN rule.src, t \in DOMAIN rule.dst :
                       /\ a \in Expand(rule.src[s], p).ids
                       /\ b \in Expand(ReviewedDestination(rule.dst[t], section), p).ids
<1> DEFINE from == {Expand(rule.src[s], p) : s \in DOMAIN rule.src}
           to == {Expand(ReviewedDestination(rule.dst[t], section), p) : t \in DOMAIN rule.dst}
           A == UNION {e.ids : e \in from}
           B == UNION {e.ids : e \in to}
           sides == Sides(rule, section, p)
<1>1. sides.from = A /\ sides.to = B
  BY DEF Sides
<1>2. Pairs(sides) = {x \in A \X B : x[1] # x[2]}
  BY <1>1 DEF Pairs
<1>3. \A a : a \in A <=> \E s \in DOMAIN rule.src : a \in Expand(rule.src[s], p).ids
  OBVIOUS
<1>4. \A b : b \in B <=> \E t \in DOMAIN rule.dst :
                            b \in Expand(ReviewedDestination(rule.dst[t], section), p).ids
  OBVIOUS
<1> HIDE DEF A, B, sides
<1>5. \A x \in Pairs(sides) : x = <<x[1], x[2]>>
  BY <1>2
<1>6. \A a, b : <<a, b>> \in Pairs(sides) <=> a # b /\ a \in A /\ b \in B
  BY <1>2
<1> QED
  BY <1>3, <1>4, <1>5, <1>6 DEF sides

\* What a rule permits the review counts, and nothing else, but for the ports
\* that only one of them splits off.
LEMMA PermittedIsReviewed ==
    ASSUME PolicyAssumption, PolicyIInv, result # NoResult, NEW i \in DOMAIN Rules(input)
    PROVE  LET rule == Rules(input)[i]
               section == Section(i, input)
               pairs == Pairs(Sides(rule, section, input))
           IN ~Ported(rule, section) =>
                 RulePairs(i) \subseteq pairs /\ (~Starred(rule, section) => RulePairs(i) = pairs)
<1> DEFINE p == input
           rule == Rules(p)[i]
           section == Section(i, p)
           permits(t) == Expand(EvaluatedDestination(rule.dst[t]), p)
           reviews(t) == Expand(ReviewedDestination(rule.dst[t], section), p)
<1>1. p \in Policies
  BY DEF PolicyIInv
<1>2. PolicyOK(p) /\ Rules(p) \in Seq(Rule)
  BY <1>1, PolicyIs
<1>3. rule \in Rule /\ section \in {"grants", "acls"}
  BY <1>2 DEF Section
<1>4. ASSUME ~Ported(rule, section), NEW t \in DOMAIN rule.dst
      PROVE  /\ permits(t) = reviews(t) \/ permits(t).ids = {}
             /\ ~Starred(rule, section) => permits(t) = reviews(t)
  <2>1. CASE section = "acls"
    <3>1. ReviewedDestination(rule.dst[t], section) = rule.dst[t].sel
      BY <2>1 DEF ReviewedDestination
    <3>2. /\ permits(t) = Expand(rule.dst[t].sel, p) \/ permits(t).ids = {}
          /\ rule.dst[t].port # "*" => permits(t) = Expand(rule.dst[t].sel, p)
      BY <1>2, <1>3, RuleIs, EvaluatedSays
    <3> QED
      BY <2>1, <3>1, <3>2 DEF Starred
  <2>2. CASE section = "grants"
    <3>1. rule.dst[t].port \in {"none", "*"}
      BY <1>4, <2>2 DEF Ported
    <3>2. EvaluatedDestination(rule.dst[t]) = ReviewedDestination(rule.dst[t], section)
      BY <2>2, <3>1 DEF EvaluatedDestination, ReviewedDestination
    <3> QED
      BY <3>2
  <2> QED
    BY <1>3, <2>1, <2>2
<1>5. /\ \A x \in RulePairs(i) : x = <<x[1], x[2]>>
      /\ \A a, b : <<a, b>> \in RulePairs(i) <=>
            /\ a # b
            /\ \E s \in DOMAIN rule.src, t \in DOMAIN rule.dst :
                  a \in Expand(rule.src[s], p).ids /\ b \in permits(t).ids
  BY PermittedPair
<1> DEFINE pairs == Pairs(Sides(rule, section, p))
<1>6. /\ \A x \in pairs : x = <<x[1], x[2]>>
      /\ \A a, b : <<a, b>> \in pairs <=>
            /\ a # b
            /\ \E s \in DOMAIN rule.src, t \in DOMAIN rule.dst :
                  a \in Expand(rule.src[s], p).ids /\ b \in reviews(t).ids
  BY SidePair
<1> HIDE DEF rule, section, p, permits, reviews, pairs
<1>7. ASSUME ~Ported(rule, section) PROVE RulePairs(i) \subseteq pairs
  <2> SUFFICES ASSUME NEW a, NEW b, <<a, b>> \in RulePairs(i)
               PROVE  <<a, b>> \in pairs
    BY <1>5
  <2> QED
    BY <1>4, <1>5, <1>6, <1>7
<1>8. ASSUME ~Ported(rule, section), ~Starred(rule, section) PROVE pairs \subseteq RulePairs(i)
  <2> SUFFICES ASSUME NEW a, NEW b, <<a, b>> \in pairs
               PROVE  <<a, b>> \in RulePairs(i)
    BY <1>6
  <2> QED
    BY <1>4, <1>5, <1>6, <1>8
<1> QED
  BY <1>7, <1>8 DEF rule, section, p, pairs
-----------------------------------------------------------------------------
(* The findings of a review, one after the other.                           *)

\* The elements of two sequences in a row.
LEMMA ElementsOfBoth ==
    ASSUME NEW F, NEW s \in Seq(F), NEW t \in Seq(F)
    PROVE  s \o t \in Seq(F) /\ ToSet(s) \subseteq ToSet(s \o t) /\ ToSet(t) \subseteq ToSet(s \o t)
<1>1. s \o t \in Seq(F)
  OBVIOUS
<1>2. ASSUME NEW i \in DOMAIN s
      PROVE  i \in DOMAIN (s \o t) /\ (s \o t)[i] = s[i]
  OBVIOUS
<1>3. ASSUME NEW i \in DOMAIN t
      PROVE  Len(s) + i \in DOMAIN (s \o t) /\ (s \o t)[Len(s) + i] = t[i]
  OBVIOUS
<1> QED
  BY <1>1, <1>2, <1>3 DEF ToSet

\* The first n of these sequences one after the other, by recursion on n.
IsFlat(f, seqs) ==
    f = [i \in 1 .. Len(seqs) |-> IF i = 1 THEN seqs[i] ELSE f[i - 1] \o seqs[i]]

\* That recursion has a solution.
LEMMA FlatExists ==
    ASSUME NEW F, NEW seqs \in Seq(Seq(F))
    PROVE  \E f : IsFlat(f, seqs)
<1> DEFINE N == Len(seqs)
           Step(f, i) == IF i = 1 THEN seqs[i] ELSE f[i - 1] \o seqs[i]
           Solved(n) == \E f : /\ f = [i \in 1 .. N |-> f[i]]
                               /\ \A i \in 1 .. N : i <= n => f[i] = Step(f, i)
<1>1. N \in Nat
  OBVIOUS
<1> HIDE DEF N
<1>2. Solved(0)
  <2> DEFINE f == [i \in 1 .. N |-> 0]
  <2>1. f = [i \in 1 .. N |-> f[i]] /\ \A i \in 1 .. N : ~(i <= 0)
    BY <1>1
  <2> HIDE DEF f
  <2> QED
    BY <2>1
<1>3. ASSUME NEW n \in Nat, Solved(n)
      PROVE  Solved(n + 1)
  <2>1. PICK f : /\ f = [i \in 1 .. N |-> f[i]]
                 /\ \A i \in 1 .. N : i <= n => f[i] = Step(f, i)
    BY <1>3
  <2> HIDE DEF Step
  <2> DEFINE g == [i \in 1 .. N |-> IF i <= n THEN f[i] ELSE Step(f, i)]
  <2>2. \A i \in 1 .. N : i <= n => g[i] = f[i]
    OBVIOUS
  <2>3. ASSUME NEW i \in 1 .. N, i <= n + 1
        PROVE  g[i] = Step(g, i)
    <3>1. g[i] = Step(f, i)
      BY <2>1
    <3> HIDE DEF g
    <3>2. Step(g, i) = Step(f, i)
      <4>1. i # 1 => i - 1 \in 1 .. N /\ i - 1 <= n
        BY <1>1, <2>3
      <4> QED
        BY <2>2, <4>1 DEF Step
    <3> QED
      BY <3>1, <3>2
  <2>4. g = [i \in 1 .. N |-> g[i]]
    OBVIOUS
  <2> HIDE DEF g
  <2> QED
    BY <2>3, <2>4
<1>4. Solved(N)
  <2> DEFINE T == {n \in Nat : ~Solved(n)}
  <2> HIDE DEF Solved
  <2>1. CASE T = {}
    BY <1>1, <2>1
  <2>2. CASE T # {}
    <3>1. PICK n \in T : \A m \in T : n <= m
      <4>1. T \subseteq Nat
        OBVIOUS
      <4> HIDE DEF T
      <4> QED
        BY <2>2, <4>1, LeastOf
    <3>2. n \in Nat /\ n # 0 /\ ~Solved(n)
      BY <1>2, <3>1
    <3>3. n - 1 \in Nat /\ ~(n - 1 \in T)
      BY <3>1, <3>2
    <3>4. Solved(n - 1)
      BY <3>3
    <3>5. Solved(n - 1 + 1)
      BY <1>3, <3>3, <3>4
    <3> QED
      BY <3>2, <3>5
  <2> QED
    BY <2>1, <2>2
<1>5. PICK f : f = [i \in 1 .. N |-> f[i]] /\ \A i \in 1 .. N : i <= N => f[i] = Step(f, i)
  BY <1>4
<1>6. f = [i \in 1 .. N |-> Step(f, i)]
  <2> HIDE DEF Step
  <2>1. ASSUME NEW i \in 1 .. N
        PROVE  f[i] = Step(f, i)
    <3>1. i <= N
      BY <1>1
    <3> QED
      BY <1>5, <3>1
  <2> QED
    BY <1>5, <2>1
<1> QED
  BY <1>6 DEF IsFlat, N

\* Flattening keeps every element.
LEMMA ElementsOfAll ==
    ASSUME NEW F, NEW seqs \in Seq(Seq(F))
    PROVE  /\ FlattenSeq(seqs) \in Seq(F)
           /\ \A i \in DOMAIN seqs : ToSet(seqs[i]) \subseteq ToSet(FlattenSeq(seqs))
<1> DEFINE N == Len(seqs)
           f == CHOOSE g : IsFlat(g, seqs)
<1>1. N \in Nat /\ DOMAIN seqs = 1 .. N /\ \A i \in 1 .. N : seqs[i] \in Seq(F)
  OBVIOUS
<1>2. CASE N = 0
  <2>1. seqs = << >> /\ FlattenSeq(seqs) = seqs /\ DOMAIN seqs = {}
    BY <1>1, <1>2 DEF FlattenSeq
  <2>2. << >> \in Seq(F)
    OBVIOUS
  <2> QED
    BY <2>1, <2>2
<1>3. CASE N # 0
  <2>1. IsFlat(f, seqs)
    BY FlatExists
  <2>2. FlattenSeq(seqs) = f[N]
    BY <1>3 DEF FlattenSeq, IsFlat
  <2> HIDE DEF f, N
  <2>3. \A i \in 1 .. N : f[i] = IF i = 1 THEN seqs[i] ELSE f[i - 1] \o seqs[i]
    BY <2>1 DEF IsFlat, N
  <2> DEFINE Good(n) == /\ f[n] \in Seq(F)
                        /\ \A i \in 1 .. n : ToSet(seqs[i]) \subseteq ToSet(f[n])
             T == {n \in 1 .. N : ~Good(n)}
  <2>4. T = {}
    <3> SUFFICES ASSUME T # {} PROVE FALSE
      OBVIOUS
    <3>1. PICK n \in T : \A m \in T : n <= m
      <4>1. T \subseteq Nat
        BY <1>1
      <4> HIDE DEF T
      <4> QED
        BY <4>1, LeastOf
    <3>2. n \in 1 .. N /\ ~Good(n)
      BY <3>1
    <3>3. CASE n = 1
      <4>1. f[n] = seqs[1] /\ 1 .. n = {1}
        BY <2>3, <3>2, <3>3
      <4> QED
        BY <1>1, <3>2, <3>3, <4>1
    <3>4. CASE n # 1
      <4>1. n - 1 \in 1 .. N /\ n - 1 < n
        BY <1>1, <3>2, <3>4
      <4>2. Good(n - 1)
        <5>1. n - 1 \notin T
          <6> HIDE DEF T
          <6> QED
            BY <1>1, <3>1, <3>2, <4>1
        <5> HIDE DEF Good
        <5> QED
          BY <4>1, <5>1
      <4>3. f[n] = f[n - 1] \o seqs[n]
        BY <2>3, <3>2, <3>4
      <4>4. f[n - 1] \in Seq(F) /\ seqs[n] \in Seq(F)
        BY <1>1, <3>2, <4>2
      <4>5. /\ f[n] \in Seq(F) /\ ToSet(f[n - 1]) \subseteq ToSet(f[n])
            /\ ToSet(seqs[n]) \subseteq ToSet(f[n])
        BY <4>3, <4>4, ElementsOfBoth
      <4>6. ASSUME NEW i \in 1 .. n
            PROVE  ToSet(seqs[i]) \subseteq ToSet(f[n])
        <5>1. CASE i = n
          BY <4>5, <5>1
        <5>2. CASE i # n
          <6>1. i \in 1 .. n - 1
            BY <1>1, <3>2, <5>2
          <6> QED
            BY <4>2, <4>5, <6>1
        <5> QED
          BY <5>1, <5>2
      <4> QED
        BY <3>2, <4>5, <4>6
    <3> QED
      BY <3>3, <3>4
  <2>5. Good(N)
    <3> HIDE DEF Good
    <3>1. N \in 1 .. N
      BY <1>1, <1>3
    <3> QED
      BY <2>4, <3>1
  <2> QED
    BY <1>1, <2>2, <2>5
<1> QED
  BY <1>2, <1>3
\* What a finding is made of.
Reported ==
    [kind : {"global", "broad_source", "broad_destination", "lateral", "no_posture", "ssh",
             "authority"},
     severity : {"critical", "high", "medium"},
     section : {"grants", "acls", "ssh", "tagOwners", "autoApprovers"},
     index : Nat]

\* One finding or none.
LEMMA OneOrNone ==
    ASSUME NEW condition, NEW finding \in Reported
    PROVE  /\ If(condition, finding) \in Seq(Reported)
           /\ condition => finding \in ToSet(If(condition, finding))
<1>1. CASE condition
  <2>1. If(condition, finding) = <<finding>>
    BY <1>1 DEF If
  <2> QED
    BY <2>1 DEF ToSet
<1>2. CASE ~condition
  <2>1. If(condition, finding) = << >>
    BY <1>2 DEF If
  <2> QED
    BY <1>2, <2>1
<1> QED
  BY <1>1, <1>2

\* These findings name a rule as one that reaches everything or moves laterally.
Reports(findings, section, i) ==
    \E f \in ToSet(findings) :
       f.section = section /\ f.index = i /\ f.kind \in {"global", "lateral"}

\* The findings of a rule; one that is open and permits many pairs has one.
LEMMA FindingsOfRule ==
    ASSUME NEW rule, NEW section \in {"grants", "acls"}, NEW i \in Nat, NEW p
    PROVE  /\ RuleFindings(rule, section, i, p) \in Seq(Reported)
           /\ (/\ ~Skipped(rule, section) /\ Unrestricted(rule, section)
               /\ AtLeast(Cardinality(Pairs(Sides(rule, section, p))), Large))
              => Reports(RuleFindings(rule, section, i, p), section, i)
<1> DEFINE found == RuleFindings(rule, section, i, p)
           sides == Sides(rule, section, p)
           to == [t \in DOMAIN rule.dst |-> ReviewedDestination(rule.dst[t], section)]
           open == Unrestricted(rule, section)
           broadFrom == \E s \in DOMAIN rule.src : Broad(rule.src[s])
           broadTo == \E t \in DOMAIN to : Broad(to[t])
           everywhere(sels) == \E k \in DOMAIN sels : sels[k].kind = "all"
           global == open /\ everywhere(rule.src) /\ everywhere(to)
           n == Cardinality(Pairs(sides))
           sensitive == \/ \E t \in DOMAIN rule.dst : Sensitive(rule.dst[t].sel)
                        \/ sides.to \cap Infrastructure # {}
           rated == IF open THEN "high" ELSE "medium"
           large == IF n >= Larger THEN "high" ELSE "medium"
           f1 == Finding("global", "critical", section, i)
           f2 == Finding("broad_source", rated, section, i)
           f3 == Finding("broad_destination", rated, section, i)
           f4 == Finding("lateral", large, section, i)
           f5 == Finding("no_posture", "medium", section, i)
           many == ~global /\ open /\ AtLeast(n, Large)
           s1 == If(global, f1)
           s2 == If(~global /\ broadFrom, f2)
           s3 == If(~global /\ broadTo, f3)
           s4 == If(many, f4)
           s5 == If(broadFrom /\ sensitive /\ rule.posture.names = <<>>, f5)
<1>1. found = IF Skipped(rule, section) THEN <<>> ELSE s1 \o s2 \o s3 \o s4 \o s5
  BY DEF RuleFindings
<1>2. f1 \in Reported /\ f2 \in Reported /\ f3 \in Reported /\ f4 \in Reported /\ f5 \in Reported
  BY DEF Finding, Reported
<1>3. /\ f1.section = section /\ f1.index = i /\ f1.kind = "global"
      /\ f4.section = section /\ f4.index = i /\ f4.kind = "lateral"
  BY DEF Finding
<1> HIDE DEF f1, f2, f3, f4, f5, found, global, broadFrom, broadTo, sensitive, n
<1>4. /\ s1 \in Seq(Reported) /\ (global => f1 \in ToSet(s1)) /\ s2 \in Seq(Reported)
      /\ s3 \in Seq(Reported) /\ s4 \in Seq(Reported) /\ (many => f4 \in ToSet(s4))
      /\ s5 \in Seq(Reported)
  BY <1>2, OneOrNone
<1> HIDE DEF s1, s2, s3, s4, s5
<1>5. s1 \o s2 \in Seq(Reported) /\ ToSet(s1) \subseteq ToSet(s1 \o s2)
  BY <1>4, ElementsOfBoth
<1> DEFINE t2 == s1 \o s2
           t3 == t2 \o s3
           t4 == t3 \o s4
           t5 == t4 \o s5
<1>6. t3 \in Seq(Reported) /\ ToSet(t2) \subseteq ToSet(t3)
  <2> HIDE DEF t2
  <2> QED
    BY <1>4, <1>5, ElementsOfBoth DEF t2
<1>7. t4 \in Seq(Reported) /\ ToSet(t3) \subseteq ToSet(t4) /\ ToSet(s4) \subseteq ToSet(t4)
  <2> HIDE DEF t3
  <2> QED
    BY <1>4, <1>6, ElementsOfBoth
<1>8. t5 \in Seq(Reported) /\ ToSet(t4) \subseteq ToSet(t5)
  <2> HIDE DEF t4
  <2> QED
    BY <1>4, <1>7, ElementsOfBoth
<1>9. found = IF Skipped(rule, section) THEN <<>> ELSE t5
  BY <1>1
<1>10. ToSet(s1) \subseteq ToSet(t2)
  BY <1>5
<1> HIDE DEF t2, t3, t4, t5
<1>11. found \in Seq(Reported)
  BY <1>8, <1>9
<1>12. ASSUME ~Skipped(rule, section), open, AtLeast(n, Large)
       PROVE  Reports(found, section, i)
  <2>1. global \/ many
    BY <1>12
  <2>2. f1 \in ToSet(t5) \/ f4 \in ToSet(t5)
    BY <1>4, <1>6, <1>7, <1>8, <1>10, <2>1
  <2> QED
    BY <1>3, <1>9, <1>12, <2>2 DEF Reports
<1> QED
  BY <1>11, <1>12 DEF found, n

\* The findings of a section, those of each rule among them.
LEMMA FindingsOfSection ==
    ASSUME NEW rules \in Seq(Rule), NEW section \in {"grants", "acls"}, NEW p
    PROVE  /\ SectionFindings(rules, section, p) \in Seq(Reported)
           /\ \A i \in DOMAIN rules :
                 ToSet(RuleFindings(rules[i], section, i, p))
                    \subseteq ToSet(SectionFindings(rules, section, p))
<1> DEFINE each == [i \in DOMAIN rules |-> RuleFindings(rules[i], section, i, p)]
<1>1. DOMAIN rules = 1 .. Len(rules) /\ Len(rules) \in Nat
  OBVIOUS
<1>2. \A i \in DOMAIN rules : RuleFindings(rules[i], section, i, p) \in Seq(Reported)
  <2> SUFFICES ASSUME NEW i \in DOMAIN rules
               PROVE  RuleFindings(rules[i], section, i, p) \in Seq(Reported)
    OBVIOUS
  <2>1. i \in Nat
    BY <1>1
  <2> QED
    BY <2>1, FindingsOfRule
<1>3. each \in Seq(Seq(Reported))
  BY <1>1, <1>2
<1>4. DOMAIN each = DOMAIN rules /\ SectionFindings(rules, section, p) = FlattenSeq(each)
  BY DEF SectionFindings
<1>5. \A i \in DOMAIN rules : each[i] = RuleFindings(rules[i], section, i, p)
  OBVIOUS
<1> HIDE DEF each
<1>6. /\ FlattenSeq(each) \in Seq(Reported)
      /\ \A i \in DOMAIN each : ToSet(each[i]) \subseteq ToSet(FlattenSeq(each))
  BY <1>3, ElementsOfAll
<1> QED
  BY <1>4, <1>5, <1>6

\* The findings about SSH.
LEMMA FindingsOfSsh ==
    ASSUME NEW rules, rules \in Seq(ToSet(rules))
    PROVE  SshFindings(rules) \in Seq(Reported)
<1> DEFINE anyBroad(sels) == \E k \in DOMAIN sels : Broad(sels[k])
           risky(r) == r.users \cap {"root", "nonroot", "*"}
           severity(r) == IF "root" \in r.users \/ anyBroad(r.dst) THEN "high" ELSE "medium"
           is(r) == r.accept /\ (anyBroad(r.src) \/ anyBroad(r.dst) \/ risky(r) # {})
           one(i, r) == If(is(r), Finding("ssh", severity(r), "ssh", i))
           each == [i \in DOMAIN rules |-> one(i, rules[i])]
<1>1. SshFindings(rules) = FlattenSeq(each)
  BY DEF SshFindings
<1>2. DOMAIN rules = 1 .. Len(rules) /\ Len(rules) \in Nat
  OBVIOUS
<1>3. \A r : severity(r) \in {"high", "medium"}
  OBVIOUS
<1> HIDE DEF severity, is
<1>4. \A i \in DOMAIN rules : one(i, rules[i]) \in Seq(Reported)
  <2> SUFFICES ASSUME NEW i \in DOMAIN rules PROVE one(i, rules[i]) \in Seq(Reported)
    OBVIOUS
  <2>1. Finding("ssh", severity(rules[i]), "ssh", i) \in Reported
    BY <1>2, <1>3 DEF Finding, Reported
  <2> QED
    BY <2>1, OneOrNone
<1> HIDE DEF one
<1>5. each \in Seq(Seq(Reported))
  BY <1>2, <1>4
<1> HIDE DEF each
<1> QED
  BY <1>1, <1>5, ElementsOfAll

\* The findings about tag owners and automatic approvers.
LEMMA FindingsOfAuthority ==
    ASSUME NEW lists, lists \in Seq(ToSet(lists)), NEW section \in {"tagOwners", "autoApprovers"}
    PROVE  AuthorityFindings(lists, section) \in Seq(Reported)
<1> DEFINE is(i) == \E k \in DOMAIN lists[i] : Broad(lists[i][k])
           one(i) == If(is(i), Finding("authority", "high", section, i))
           each == [i \in DOMAIN lists |-> one(i)]
<1>1. AuthorityFindings(lists, section) = FlattenSeq(each)
  BY DEF AuthorityFindings
<1>2. DOMAIN lists = 1 .. Len(lists) /\ Len(lists) \in Nat
  OBVIOUS
<1> HIDE DEF is
<1>3. \A i \in DOMAIN lists : one(i) \in Seq(Reported)
  <2> SUFFICES ASSUME NEW i \in DOMAIN lists PROVE one(i) \in Seq(Reported)
    OBVIOUS
  <2>1. Finding("authority", "high", section, i) \in Reported
    BY <1>2 DEF Finding, Reported
  <2> QED
    BY <2>1, OneOrNone
<1> HIDE DEF one
<1>4. each \in Seq(Seq(Reported))
  BY <1>2, <1>3
<1> HIDE DEF each
<1> QED
  BY <1>1, <1>4, ElementsOfAll

\* A review that is not cut has the findings of all rules.
LEMMA ReviewHasAll ==
    ASSUME PolicyAssumption, NEW p \in Policies, ~SecurityReview(p).truncated
    PROVE  /\ ToSet(SectionFindings(p.grants, "grants", p)) \subseteq SecurityReview(p).findings
           /\ ToSet(SectionFindings(p.acls, "acls", p)) \subseteq SecurityReview(p).findings
<1> DEFINE g == SectionFindings(p.grants, "grants", p)
           a == SectionFindings(p.acls, "acls", p)
           h == SshFindings(p.ssh)
           t == AuthorityFindings(p.tagOwners, "tagOwners")
           v == AuthorityFindings(p.autoApprovers, "autoApprovers")
           all == g \o a \o h \o t \o v
<1>1. /\ g \in Seq(Reported) /\ a \in Seq(Reported) /\ h \in Seq(Reported)
      /\ t \in Seq(Reported) /\ v \in Seq(Reported)
  BY PolicyIs, FindingsOfSection, FindingsOfSsh, FindingsOfAuthority DEF PolicyAssumption
<1>2. /\ SecurityReview(p).findings = ToSet(SubSeq(all, 1, Min({Len(all), FindingLimit})))
      /\ ~(Len(all) >= FindingLimit)
  BY DEF SecurityReview, Truncated
<1> SUFFICES ToSet(g) \subseteq SecurityReview(p).findings /\ ToSet(a) \subseteq SecurityReview(p).findings
  OBVIOUS
<1> HIDE DEF g, a, h, t, v
<1> DEFINE s2 == g \o a
           s3 == s2 \o h
           s4 == s3 \o t
<1>3. s2 \in Seq(Reported) /\ ToSet(g) \subseteq ToSet(s2) /\ ToSet(a) \subseteq ToSet(s2)
  BY <1>1, ElementsOfBoth
<1>4. s3 \in Seq(Reported) /\ ToSet(s2) \subseteq ToSet(s3)
  <2> HIDE DEF s2
  <2> QED
    BY <1>1, <1>3, ElementsOfBoth
<1>5. s4 \in Seq(Reported) /\ ToSet(s3) \subseteq ToSet(s4)
  <2> HIDE DEF s3
  <2> QED
    BY <1>1, <1>4, ElementsOfBoth
<1>6. all \in Seq(Reported) /\ ToSet(s4) \subseteq ToSet(all)
  <2> HIDE DEF s4
  <2> QED
    BY <1>1, <1>5, ElementsOfBoth DEF s4
<1> HIDE DEF s2, s3, s4, all
<1>7. Len(all) \in Nat /\ FindingLimit \in Nat /\ ~(Len(all) >= FindingLimit)
  <2>1. Len(all) \in Nat
    BY <1>6
  <2>2. FindingLimit \in Nat
    BY DEF PolicyAssumption
  <2> QED
    BY <1>2, <2>1, <2>2
<1>8. Min({Len(all), FindingLimit}) = Len(all)
  BY <1>7 DEF Min
<1>9. SubSeq(all, 1, Len(all)) = all
  BY <1>6
<1> QED
  BY <1>2, <1>3, <1>4, <1>5, <1>6, <1>8, <1>9
\* The pairs of a rule that two sides of devices permit are finitely many.
LEMMA PairsAreFinite ==
    ASSUME PolicyAssumption, NEW p, PolicyOK(p), NEW rule \in Rule, NEW section
    PROVE  IsFiniteSet(Pairs(Sides(rule, section, p)))
<1>1. \A s \in DOMAIN rule.src : Expand(rule.src[s], p).ids \subseteq Device
  BY RuleIs, ExpandSays DEF Says, Meaning
<1>2. ASSUME NEW t \in DOMAIN rule.dst
      PROVE  Expand(ReviewedDestination(rule.dst[t], section), p).ids \subseteq Device
  <2>1. rule.dst[t].sel \in Selector
    BY RuleIs
  <2>2. Expand(rule.dst[t].sel, p).ids \subseteq Device
    BY <2>1, ExpandSays DEF Says, Meaning
  <2>3. Expand(Glued(rule.dst[t].sel), p).ids = {}
    BY <2>1, GluedSays
  <2> QED
    BY <2>2, <2>3 DEF ReviewedDestination
<1>3. Pairs(Sides(rule, section, p)) \subseteq Device \X Device
  <2> SUFFICES ASSUME NEW a, NEW b, <<a, b>> \in Pairs(Sides(rule, section, p))
               PROVE  a \in Device /\ b \in Device
    BY SidePair
  <2> QED
    BY <1>1, <1>2, SidePair
<1>4. IsFiniteSet(Device \X Device)
  BY FS_Product DEF PolicyAssumption
<1> QED
  BY <1>3, <1>4, FS_Subset

\* A rule that is unrestricted is reviewed.
LEMMA UnrestrictedIsReviewed ==
    ASSUME NEW rule, NEW section \in {"grants", "acls"}, Unrestricted(rule, section)
    PROVE  ~Skipped(rule, section)
BY DEF Unrestricted, Skipped

LEMMA ReviewIsExact == PolicyAssumption /\ PolicyIInv => RelationsMatchReview
BY PermittedIsReviewed DEF RelationsMatchReview

LEMMA ReviewReports == PolicyAssumption /\ PolicyIInv => ExposureIsReported
<1> DEFINE p == input
           section(i) == Section(i, p)
           index(i) == IF section(i) = "grants" THEN i ELSE i - Len(p.grants)
           rules(i) == IF section(i) = "grants" THEN p.grants ELSE p.acls
           found(i) == RuleFindings(Rules(p)[i], section(i), index(i), p)
<1> SUFFICES ASSUME PolicyAssumption, PolicyIInv, result # NoResult, NEW i \in DOMAIN Rules(p),
                    Unrestricted(Rules(p)[i], section(i)), ~Ported(Rules(p)[i], section(i)),
                    Cardinality(RulePairs(i)) >= Large,
                    ~result.review.truncated
             PROVE  \E f \in result.review.findings :
                       /\ f.section = section(i) /\ f.index = index(i)
                       /\ f.kind \in {"global", "lateral"}
  BY DEF ExposureIsReported
<1>1. p \in Policies /\ result.review = SecurityReview(p)
  BY DEF PolicyIInv
<1>2. PolicyOK(p) /\ Rules(p) \in Seq(Rule) /\ Rules(p)[i] \in Rule
  <2>1. PolicyOK(p) /\ Rules(p) \in Seq(Rule)
    BY <1>1, PolicyIs
  <2> QED
    BY <2>1
<1>3. /\ section(i) \in {"grants", "acls"} /\ index(i) \in Nat
      /\ index(i) \in DOMAIN rules(i) /\ Rules(p)[i] = rules(i)[index(i)]
  <2>1. /\ p.grants \in Seq(Rule) /\ p.acls \in Seq(Rule)
        /\ \A k \in 1 .. Len(p.grants) : Rules(p)[k] = p.grants[k]
        /\ \A k \in DOMAIN Rules(p) : k > Len(p.grants) =>
              /\ Rules(p)[k] = p.acls[k - Len(p.grants)]
              /\ k - Len(p.grants) \in DOMAIN p.acls
    BY <1>1, PolicyIs
  <2>2. i \in Nat /\ i >= 1 /\ Len(p.grants) \in Nat
    BY <1>2, <2>1
  <2>3. CASE i <= Len(p.grants)
    <3>1. section(i) = "grants" /\ index(i) = i /\ rules(i) = p.grants
      BY <2>3 DEF Section
    <3>2. i \in 1 .. Len(p.grants)
      BY <2>2, <2>3
    <3>3. i \in DOMAIN p.grants /\ Rules(p)[i] = p.grants[i]
      BY <2>1, <3>2
    <3> HIDE DEF section, index, rules
    <3> QED
      BY <2>2, <3>1, <3>3
  <2>4. CASE i > Len(p.grants)
    <3>1. section(i) = "acls" /\ index(i) = i - Len(p.grants) /\ rules(i) = p.acls
      <4>1. ~(i <= Len(p.grants))
        BY <2>2, <2>4
      <4>2. section(i) = "acls" /\ "acls" # "grants"
        BY <4>1 DEF Section
      <4> HIDE DEF section
      <4> QED
        BY <4>2
    <3>2. i - Len(p.grants) \in Nat
      BY <2>2, <2>4
    <3>3. Rules(p)[i] = p.acls[i - Len(p.grants)] /\ i - Len(p.grants) \in DOMAIN p.acls
      BY <2>1, <2>4
    <3> HIDE DEF section, index, rules
    <3> QED
      BY <3>1, <3>2, <3>3
  <2> QED
    BY <2>2, <2>3, <2>4
<1> HIDE DEF index
<1>4. AtLeast(Cardinality(Pairs(Sides(Rules(p)[i], section(i), p))), Large)
  <2> DEFINE pairs == Pairs(Sides(Rules(p)[i], section(i), p))
  <2>1. IsFiniteSet(pairs)
    BY <1>2, PairsAreFinite
  <2>2. RulePairs(i) \subseteq pairs
    BY PermittedIsReviewed
  <2> HIDE DEF pairs
  <2>3. /\ Cardinality(RulePairs(i)) \in Nat /\ Cardinality(pairs) \in Nat
        /\ Cardinality(RulePairs(i)) <= Cardinality(pairs)
    BY <2>1, <2>2, FS_Subset, FS_CardinalityType
  <2>4. Large \in Nat
    BY DEF PolicyAssumption
  <2>5. Cardinality(pairs) >= Large
    BY <2>3, <2>4
  <2> QED
    BY <2>5 DEF AtLeast, pairs
<1> HIDE DEF section, p
<1>5. ~Skipped(Rules(p)[i], section(i)) /\ Unrestricted(Rules(p)[i], section(i))
  BY <1>3, UnrestrictedIsReviewed
<1>6. \E f \in ToSet(found(i)) :
         f.section = section(i) /\ f.index = index(i) /\ f.kind \in {"global", "lateral"}
  <2> DEFINE rule == Rules(p)[i]
  <2> SUFFICES Reports(RuleFindings(rule, section(i), index(i), p), section(i), index(i))
    BY DEF Reports
  <2>1. /\ ~Skipped(rule, section(i)) /\ Unrestricted(rule, section(i))
        /\ AtLeast(Cardinality(Pairs(Sides(rule, section(i), p))), Large)
    BY <1>4, <1>5
  <2>2. section(i) \in {"grants", "acls"} /\ index(i) \in Nat
    BY <1>3
  <2> HIDE DEF rule
  <2>3. ASSUME NEW r, NEW sec \in {"grants", "acls"}, NEW k \in Nat,
               ~Skipped(r, sec), Unrestricted(r, sec),
               AtLeast(Cardinality(Pairs(Sides(r, sec, p))), Large)
        PROVE  Reports(RuleFindings(r, sec, k, p), sec, k)
    BY <2>3, FindingsOfRule
  <2> QED
    BY <2>1, <2>2, <2>3
<1>7. ToSet(found(i)) \subseteq result.review.findings
  <2>1. /\ ToSet(SectionFindings(p.grants, "grants", p)) \subseteq result.review.findings
        /\ ToSet(SectionFindings(p.acls, "acls", p)) \subseteq result.review.findings
    BY <1>1, ReviewHasAll
  <2>2. p.grants \in Seq(Rule) /\ p.acls \in Seq(Rule)
    BY <1>1, PolicyIs
  <2>3. CASE section(i) = "grants"
    <3>1. index(i) \in DOMAIN p.grants /\ found(i) = RuleFindings(p.grants[index(i)], "grants", index(i), p)
      BY <1>3, <2>3
    <3> HIDE DEF found
    <3>2. ToSet(found(i)) \subseteq ToSet(SectionFindings(p.grants, "grants", p))
      BY <2>2, <3>1, FindingsOfSection
    <3> QED
      BY <2>1, <3>2
  <2>4. CASE section(i) = "acls"
    <3>1. index(i) \in DOMAIN p.acls /\ found(i) = RuleFindings(p.acls[index(i)], "acls", index(i), p)
      BY <1>3, <2>4
    <3> HIDE DEF found
    <3>2. ToSet(found(i)) \subseteq ToSet(SectionFindings(p.acls, "acls", p))
      BY <2>2, <3>1, FindingsOfSection
    <3> QED
      BY <2>1, <3>2
  <2> QED
    BY <1>3, <2>3, <2>4
<1> HIDE DEF found
<1> QED
  BY <1>6, <1>7

\* Nothing but the answer to the request is written.
LEMMA PolicyInductive == PolicySpec => []PolicyIInv
<1>1. PolicyInit => PolicyIInv
  BY DEF PolicyInit, PolicyIInv
<1>2. PolicyIInv /\ [ReadPolicy]_policyVars => PolicyIInv'
  <2> SUFFICES ASSUME PolicyIInv, [ReadPolicy]_policyVars PROVE PolicyIInv'
    OBVIOUS
  <2>1. CASE ReadPolicy
    <3>1. /\ result'.relations = Relations(input) /\ result'.review = SecurityReview(input)
          /\ input' = input
      BY <2>1 DEF ReadPolicy
    <3>2. Relations(input)' = Relations(input) /\ SecurityReview(input)' = SecurityReview(input)
      BY <3>1
    <3> QED
      BY <3>1, <3>2 DEF PolicyIInv
  <2>2. CASE UNCHANGED policyVars
    BY <2>2 DEF policyVars, PolicyIInv
  <2> QED
    BY <2>1, <2>2
<1> QED
  BY <1>1, <1>2, PTL DEF PolicySpec

\* What evaluate_policy permits lies within what the selectors of the rule
\* mean, and is all of it for a rule that is fully evaluated: for any groups
\* that end, any hosts and any devices.
THEOREM RulesAreMeant == PolicySpec => []PermitsWhatTheRuleMeans
<1>1. PolicyIInv => PermitsWhatTheRuleMeans
  BY PolicyAssumption, RelationsAreMeant
<1> QED
  BY <1>1, PolicyInductive, PTL

\* The exposure review and the relationships expand a rule to the same pairs,
\* and a wide rule is in a review that is not cut, for any policy and limits.
THEOREM ReviewIsTrue == PolicySpec => []ReviewInv
<1>1. PolicyIInv => ReviewInv
  BY PolicyAssumption, ReviewIsExact, ReviewReports DEF ReviewInv
<1> QED
  BY <1>1, PolicyInductive, PTL

-----------------------------------------------------------------------------
(* The removal of duplicates: what is kept of a list.                       *)

\* Flattening gives nothing when there is nothing to flatten.
LEMMA FlatNone ==
    ASSUME NEW F, NEW seqs \in Seq(Seq(F))
    PROVE  FlattenSeq(seqs) = << >> <=> \A i \in DOMAIN seqs : seqs[i] = << >>
<1>1. \A i \in DOMAIN seqs : seqs[i] \in Seq(F)
  OBVIOUS
<1>2. ASSUME FlattenSeq(seqs) = << >>, NEW i \in DOMAIN seqs
      PROVE  seqs[i] = << >>
  <2>1. ToSet(seqs[i]) \subseteq ToSet(<< >>)
    BY <1>2, ElementsOfAll
  <2>2. ToSet(<< >>) = {}
    BY DEF ToSet
  <2>3. DOMAIN seqs[i] = {}
    BY <2>1, <2>2 DEF ToSet
  <2> QED
    BY <1>1, <2>3
<1>3. ASSUME \A i \in DOMAIN seqs : seqs[i] = << >>
      PROVE  FlattenSeq(seqs) = << >>
  <2>1. seqs \in Seq(Seq({}))
    <3>1. \A i \in DOMAIN seqs : seqs[i] \in Seq({})
      BY <1>3
    <3> QED
      BY <3>1
  <2>2. FlattenSeq(seqs) \in Seq({})
    BY <2>1, ElementsOfAll
  <2> QED
    BY <2>2
<1> QED
  BY <1>2, <1>3

\* The elements that are kept.
LEMMA KeptElements ==
    ASSUME NEW T, NEW values \in Seq(T), NEW S \in SUBSET DOMAIN values
    PROVE  /\ Kept(values, S) \in Seq(T)
           /\ ToSet(Kept(values, S)) = {values[i] : i \in S}
<1> DEFINE X == {values[i] : i \in S}
           seqs == [i \in DOMAIN values |-> IF i \in S THEN <<values[i]>> ELSE << >>]
           k == Kept(values, S)
<1>1. k = FlattenSeq(seqs)
  BY DEF Kept
<1>2. DOMAIN seqs = DOMAIN values /\ \A i \in S : seqs[i] = <<values[i]>>
  OBVIOUS
<1>3. seqs \in Seq(Seq(X))
  <2>1. DOMAIN values = 1 .. Len(values) /\ Len(values) \in Nat
    OBVIOUS
  <2>2. ASSUME NEW i \in DOMAIN values
        PROVE  seqs[i] \in Seq(X)
    <3>1. CASE i \in S
      <4>1. values[i] \in X
        BY <3>1
      <4> HIDE DEF X
      <4> QED
        BY <3>1, <4>1
    <3>2. CASE i \notin S
      BY <3>2
    <3> QED
      BY <3>1, <3>2
  <2> HIDE DEF X
  <2> QED
    BY <2>1, <2>2
<1> HIDE DEF seqs, X
<1>4. k \in Seq(X) /\ \A i \in DOMAIN seqs : ToSet(seqs[i]) \subseteq ToSet(k)
  BY <1>1, <1>3, ElementsOfAll
<1> HIDE DEF k
<1>5. ToSet(k) \subseteq X
  BY <1>4 DEF ToSet
<1>6. ASSUME NEW i \in S
      PROVE  values[i] \in ToSet(k)
  <2>1. values[i] \in ToSet(<<values[i]>>)
    BY DEF ToSet
  <2> QED
    BY <1>2, <1>4, <2>1
<1>7. X \subseteq ToSet(k)
  BY <1>6 DEF X
<1>8. X \subseteq T
  BY DEF X
<1>9. k \in Seq(T)
  BY <1>4, <1>8
<1> QED
  BY <1>5, <1>7, <1>9 DEF k, X

\* What is kept of the first n values.
IsKept(k, values, S, n) ==
    /\ k \in Seq({values[i] : i \in S \cap (1 .. n)}) /\ Len(k) <= n
    /\ IF 1 .. n \subseteq S THEN Len(k) = n /\ \A i \in 1 .. n : k[i] = values[i] ELSE Len(k) < n
    /\ (\A i, j \in S : values[i] = values[j] => i = j) =>
          \A a, b \in DOMAIN k : k[a] = k[b] => a = b

\* One more value is appended or left out.
LEMMA KeptNext ==
    ASSUME NEW values, NEW S, NEW n \in Nat, NEW k, NEW new, IsKept(k, values, S, n),
           new = IF n + 1 \in S THEN k \o <<values[n + 1]>> ELSE k
    PROVE  IsKept(new, values, S, n + 1)
<1> DEFINE X(m) == {values[i] : i \in S \cap (1 .. m)}
           apart == \A i, j \in S : values[i] = values[j] => i = j
<1>1. k \in Seq(X(n)) /\ Len(k) <= n /\ Len(k) \in Nat /\ DOMAIN k = 1 .. Len(k)
  BY DEF IsKept
<1>2. X(n) \subseteq X(n + 1) /\ k \in Seq(X(n + 1))
  <2>1. X(n) \subseteq X(n + 1)
    OBVIOUS
  <2> HIDE DEF X
  <2> QED
    BY <1>1, <2>1
<1>3. CASE n + 1 \in S
  <2>1. new = k \o <<values[n + 1]>>
    BY <1>3
  <2>2. values[n + 1] \in X(n + 1)
    BY <1>3
  <2> DEFINE Y == X(n + 1)
             last == values[n + 1]
  <2>9. k \in Seq(Y) /\ last \in Y /\ new = k \o <<last>>
    BY <1>2, <2>1, <2>2
  <2> HIDE DEF X, Y, last
  <2>3. /\ new \in Seq(Y) /\ Len(new) = Len(k) + 1
        /\ new[Len(k) + 1] = last /\ DOMAIN new = 1 .. Len(k) + 1
        /\ \A a \in 1 .. Len(k) : new[a] = k[a]
    BY <2>9
  <2>4. /\ new[Len(k) + 1] = values[n + 1] /\ DOMAIN new = 1 .. Len(k) + 1
        /\ \A a \in 1 .. Len(k) : new[a] = k[a]
    BY <2>3 DEF last
  <2>5. 1 .. n + 1 \subseteq S <=> 1 .. n \subseteq S
    <3>1. 1 .. n + 1 = (1 .. n) \cup {n + 1}
      OBVIOUS
    <3> QED
      BY <1>3, <3>1
  <2>6. IF 1 .. n + 1 \subseteq S
        THEN Len(new) = n + 1 /\ \A i \in 1 .. n + 1 : new[i] = values[i]
        ELSE Len(new) < n + 1
    <3>1. CASE 1 .. n \subseteq S
      <4>1. Len(k) = n /\ \A i \in 1 .. n : k[i] = values[i]
        BY <3>1 DEF IsKept
      <4> QED
        BY <2>3, <2>4, <2>5, <3>1, <4>1
    <3>2. CASE ~(1 .. n \subseteq S)
      <4>1. Len(k) < n
        BY <3>2 DEF IsKept
      <4> QED
        BY <1>1, <2>3, <2>5, <3>2, <4>1
    <3> QED
      BY <3>1, <3>2
  <2>7. ASSUME apart
        PROVE  \A a, b \in DOMAIN new : new[a] = new[b] => a = b
    <3>1. \A a, b \in 1 .. Len(k) : k[a] = k[b] => a = b
      BY <1>1, <2>7 DEF IsKept
    <3>2. \A a \in 1 .. Len(k) : k[a] # values[n + 1]
      <4> SUFFICES ASSUME NEW a \in 1 .. Len(k) PROVE k[a] # values[n + 1]
        OBVIOUS
      <4>1. k[a] \in X(n)
        BY <1>1
      <4>2. PICK i \in S \cap (1 .. n) : k[a] = values[i]
        BY <4>1 DEF X
      <4> QED
        BY <1>3, <2>7, <4>2
    <3> QED
      BY <1>1, <2>4, <3>1, <3>2
  <2>8. new \in Seq({values[i] : i \in S \cap (1 .. n + 1)}) /\ Len(new) <= n + 1
    BY <1>1, <2>3 DEF X, Y
  <2> QED
    BY <2>6, <2>7, <2>8 DEF IsKept
<1>4. CASE n + 1 \notin S
  <2>1. new = k /\ ~(1 .. n + 1 \subseteq S) /\ Len(k) < n + 1 /\ Len(k) <= n + 1
    BY <1>1, <1>4
  <2> QED
    BY <1>2, <2>1 DEF IsKept
<1> QED
  BY <1>3, <1>4
\* All of what is kept.
LEMMA KeptIs ==
    ASSUME NEW T, NEW values \in Seq(T), NEW S \in SUBSET DOMAIN values
    PROVE  IsKept(Kept(values, S), values, S, Len(values))
<1> DEFINE seqs == [i \in DOMAIN values |-> IF i \in S THEN <<values[i]>> ELSE << >>]
           N == Len(values)
           f == CHOOSE g : IsFlat(g, seqs)
<1>1. N \in Nat /\ DOMAIN values = 1 .. N
  OBVIOUS
<1>2. Kept(values, S) = FlattenSeq(seqs)
  BY DEF Kept
<1>3. seqs \in Seq(Seq(T)) /\ Len(seqs) = N /\ DOMAIN seqs = 1 .. N
  <2>1. \A i \in DOMAIN values : seqs[i] \in Seq(T)
    OBVIOUS
  <2>2. seqs = [i \in 1 .. N |-> seqs[i]]
    BY <1>1
  <2> HIDE DEF seqs
  <2> QED
    BY <1>1, <2>1, <2>2
<1>4. \A i \in 1 .. N : seqs[i] = IF i \in S THEN <<values[i]>> ELSE << >>
  BY <1>1
<1>5. IsKept(<< >>, values, S, 0)
  BY DEF IsKept
<1> HIDE DEF seqs, N
<1>6. CASE N = 0
  <2>1. FlattenSeq(seqs) = << >>
    <3>1. Len(seqs) = 0
      BY <1>3, <1>6
    <3>2. seqs = << >>
      BY <1>3, <3>1
    <3> QED
      BY <3>1, <3>2 DEF FlattenSeq
  <2> QED
    BY <1>2, <1>5, <1>6, <2>1 DEF N
<1>7. CASE N # 0
  <2>1. IsFlat(f, seqs)
    BY <1>3, FlatExists
  <2>2. FlattenSeq(seqs) = f[N]
    BY <1>3, <1>7 DEF FlattenSeq, IsFlat
  <2> HIDE DEF f
  <2>3. \A i \in 1 .. N : f[i] = IF i = 1 THEN seqs[i] ELSE f[i - 1] \o seqs[i]
    BY <1>3, <2>1 DEF IsFlat
  <2> DEFINE Good(n) == IsKept(f[n], values, S, n)
             B == {n \in 1 .. N : ~Good(n)}
  <2>4. B = {}
    <3> SUFFICES ASSUME B # {} PROVE FALSE
      OBVIOUS
    <3>1. PICK n \in B : \A m \in B : n <= m
      <4>1. B \subseteq Nat
        BY <1>1
      <4> HIDE DEF B
      <4> QED
        BY <4>1, LeastOf
    <3>2. n \in 1 .. N /\ ~Good(n) /\ n - 1 \in Nat /\ n - 1 + 1 = n
      BY <1>1, <3>1
    <3>3. CASE n = 1
      <4>1. f[1] = IF 1 \in S THEN <<values[1]>> ELSE << >>
        BY <1>4, <2>3, <3>2, <3>3
      <4>2. f[1] = IF 0 + 1 \in S THEN << >> \o <<values[0 + 1]>> ELSE << >>
        BY <4>1
      <4>3. IsKept(f[1], values, S, 0 + 1)
        BY <1>5, <4>2, KeptNext
      <4> QED
        BY <3>2, <3>3, <4>3
    <3>4. CASE n # 1
      <4>1. n - 1 \in 1 .. N /\ n - 1 < n
        BY <1>1, <3>2, <3>4
      <4>2. Good(n - 1)
        <5>1. n - 1 \notin B
          <6> HIDE DEF B
          <6> QED
            BY <1>1, <3>1, <3>2, <4>1
        <5> HIDE DEF Good
        <5> QED
          BY <4>1, <5>1
      <4>3. f[n] = f[n - 1] \o seqs[n]
        BY <2>3, <3>2, <3>4
      <4>4. f[n - 1] \in Seq({values[i] : i \in S \cap (1 .. n - 1)})
        BY <4>2 DEF IsKept
      <4> HIDE DEF Good
      <4>5. f[n] = IF n \in S THEN f[n - 1] \o <<values[n]>> ELSE f[n - 1]
        <5> DEFINE X == {values[i] : i \in S \cap (1 .. n - 1)}
                   k == f[n - 1]
        <5>1. k \in Seq(X)
          BY <4>4
        <5> HIDE DEF X, k
        <5>2. k \o << >> = k
          BY <5>1
        <5> QED
          BY <1>4, <3>2, <4>3, <5>2 DEF k
      <4>6. f[n] = IF n - 1 + 1 \in S THEN f[n - 1] \o <<values[n - 1 + 1]>> ELSE f[n - 1]
        BY <3>2, <4>5
      <4>7. IsKept(f[n - 1], values, S, n - 1)
        BY <4>2 DEF Good
      <4>8. IsKept(f[n], values, S, n - 1 + 1)
        BY <3>2, <4>6, <4>7, KeptNext
      <4> QED
        BY <3>2, <4>8 DEF Good
    <3> QED
      BY <3>3, <3>4
  <2>5. Good(N)
    <3> HIDE DEF Good
    <3>1. N \in 1 .. N
      BY <1>1, <1>7
    <3> QED
      BY <2>4, <3>1
  <2> QED
    BY <1>2, <2>2, <2>5 DEF N
<1> QED
  BY <1>6, <1>7

\* All is kept exactly if nothing is shorter, and without a repetition nothing
\* is repeated.
LEMMA KeptWhole ==
    ASSUME NEW T, NEW values \in Seq(T), NEW S \in SUBSET DOMAIN values
    PROVE  /\ S = DOMAIN values => Kept(values, S) = values
           /\ Len(Kept(values, S)) = Len(values) => S = DOMAIN values
           /\ (\A i, j \in S : values[i] = values[j] => i = j) =>
                 \A a, b \in DOMAIN Kept(values, S) :
                    Kept(values, S)[a] = Kept(values, S)[b] => a = b
<1> DEFINE k == Kept(values, S)
           N == Len(values)
<1>1. N \in Nat /\ DOMAIN values = 1 .. N
  OBVIOUS
<1>2. IsKept(k, values, S, N)
  BY KeptIs
<1>3. k \in Seq(T)
  BY KeptElements
<1> HIDE DEF k, N
<1>4. 1 .. N \subseteq S <=> S = DOMAIN values
  BY <1>1
<1>5. ASSUME S = DOMAIN values
      PROVE  k = values
  <2>1. Len(k) = N /\ \A i \in 1 .. N : k[i] = values[i]
    BY <1>2, <1>4, <1>5 DEF IsKept
  <2>2. DOMAIN k = DOMAIN values
    BY <1>1, <1>3, <2>1
  <2> QED
    BY <1>1, <1>3, <2>1, <2>2
<1>6. ASSUME Len(k) = N
      PROVE  S = DOMAIN values
  <2>1. ~(Len(k) < N)
    BY <1>1, <1>6
  <2> QED
    BY <1>2, <1>4, <2>1 DEF IsKept
<1>7. (\A i, j \in S : values[i] = values[j] => i = j) => \A a, b \in DOMAIN k : k[a] = k[b] => a = b
  BY <1>2 DEF IsKept
<1> QED
  BY <1>5, <1>6, <1>7 DEF k, N
-----------------------------------------------------------------------------
(* The removal of duplicates: the values.  Nested, Deduplicated and Content *)
(* are recursive functions, so first that they exist.                       *)

\* The values one level up.
Above(S) == S \cup ListOf(S) \cup ObjectOf(S)

IsNested(f) ==
    f = [n \in 0 .. Depth |-> IF n = 0 THEN [kind : {"scalar"}, of : Scalar]
                              ELSE f[n - 1] \cup ListOf(f[n - 1]) \cup ObjectOf(f[n - 1])]

\* What Nested[n] is made of.
LEMMA NestedIs ==
    ASSUME DuplicatesAssumption
    PROVE  /\ Nested[0] = [kind : {"scalar"}, of : Scalar]
           /\ \A n \in Nat : n < Depth => Nested[n + 1] = Above(Nested[n])
<1> DEFINE D == 0 .. Depth
           Step(f, n) == IF n = 0 THEN [kind : {"scalar"}, of : Scalar] ELSE Above(f[n - 1])
           Solved(n) == \E f : /\ f = [i \in D |-> f[i]]
                               /\ \A i \in D : i <= n => f[i] = Step(f, i)
<1>1. Depth \in Nat
  BY DEF DuplicatesAssumption
<1>2. Solved(0)
  <2> DEFINE f == [i \in D |-> [kind : {"scalar"}, of : Scalar]]
  <2>1. \A i \in D : i <= 0 => i = 0
    BY <1>1
  <2>2. f = [i \in D |-> f[i]] /\ \A i \in D : i <= 0 => f[i] = Step(f, i)
    BY <2>1
  <2> HIDE DEF f
  <2> QED
    BY <2>2
<1>3. ASSUME NEW n \in Nat, Solved(n)
      PROVE  Solved(n + 1)
  <2>1. PICK f : /\ f = [i \in D |-> f[i]]
                 /\ \A i \in D : i <= n => f[i] = Step(f, i)
    BY <1>3
  <2> HIDE DEF Step
  <2> DEFINE g == [i \in D |-> IF i <= n THEN f[i] ELSE Step(f, i)]
  <2>2. \A i \in D : i <= n => g[i] = f[i]
    OBVIOUS
  <2>3. ASSUME NEW i \in D, i <= n + 1
        PROVE  g[i] = Step(g, i)
    <3>1. g[i] = Step(f, i)
      BY <2>1
    <3> HIDE DEF g
    <3>2. Step(g, i) = Step(f, i)
      <4>1. i # 0 => i - 1 \in D /\ i - 1 <= n
        BY <1>1, <2>3
      <4> QED
        BY <2>2, <4>1 DEF Step
    <3> QED
      BY <3>1, <3>2
  <2>4. g = [i \in D |-> g[i]]
    OBVIOUS
  <2> HIDE DEF g
  <2> QED
    BY <2>3, <2>4
<1>4. Solved(Depth)
  <2> DEFINE B == {n \in Nat : ~Solved(n)}
  <2> HIDE DEF Solved
  <2>1. CASE B = {}
    BY <1>1, <2>1
  <2>2. CASE B # {}
    <3>1. PICK n \in B : \A m \in B : n <= m
      <4>1. B \subseteq Nat
        OBVIOUS
      <4> HIDE DEF B
      <4> QED
        BY <2>2, <4>1, LeastOf
    <3>2. n \in Nat /\ n # 0 /\ ~Solved(n)
      BY <1>2, <3>1
    <3>3. n - 1 \in Nat /\ ~(n - 1 \in B)
      BY <3>1, <3>2
    <3>4. Solved(n - 1)
      BY <3>3
    <3>5. Solved(n - 1 + 1)
      BY <1>3, <3>3, <3>4
    <3> QED
      BY <3>2, <3>5
  <2> QED
    BY <2>1, <2>2
<1>5. PICK f : f = [i \in D |-> f[i]] /\ \A i \in D : i <= Depth => f[i] = Step(f, i)
  BY <1>4
<1>6. f = [i \in D |-> Step(f, i)]
  <2> HIDE DEF Step
  <2>1. \A i \in D : i <= Depth
    BY <1>1
  <2> QED
    BY <1>5, <2>1
<1>7. IsNested(f)
  BY <1>6 DEF IsNested, Above
<1> DEFINE g == CHOOSE h : IsNested(h)
<1>8. IsNested(g)
  BY <1>7
<1>9. Nested = g
  BY DEF Nested, IsNested
<1> HIDE DEF g
<1>10. \A n \in D : Nested[n] = Step(Nested, n)
  <2>1. Nested = [n \in D |-> Step(Nested, n)]
    BY <1>8, <1>9 DEF IsNested, Above
  <2> DEFINE h == Nested
  <2>2. h = [n \in D |-> Step(h, n)]
    BY <2>1
  <2> HIDE DEF h, Step
  <2>3. \A n \in D : h[n] = Step(h, n)
    BY <2>2
  <2> QED
    BY <2>3 DEF h
<1>11. Nested[0] = [kind : {"scalar"}, of : Scalar]
  <2>1. 0 \in D
    BY <1>1
  <2> QED
    BY <1>10, <2>1
<1>12. ASSUME NEW n \in Nat, n < Depth
       PROVE  Nested[n + 1] = Above(Nested[n])
  <2>1. n + 1 \in D /\ n + 1 # 0 /\ n + 1 - 1 = n
    BY <1>1, <1>12
  <2> QED
    BY <1>10, <2>1
<1> QED
  BY <1>11, <1>12

\* A value of some level is a value of every level above.
LEMMA NestedGrows ==
    ASSUME DuplicatesAssumption, NEW n \in 0 .. Depth
    PROVE  Nested[n] \subseteq Value
<1>1. Depth \in Nat
  BY DEF DuplicatesAssumption
<1> DEFINE B == {m \in Nat : n + m <= Depth /\ ~(Nested[n] \subseteq Nested[n + m])}
<1>2. B = {}
  <2> SUFFICES ASSUME B # {} PROVE FALSE
    OBVIOUS
  <2>1. PICK m \in B : \A k \in B : m <= k
    <3>1. B \subseteq Nat
      OBVIOUS
    <3> HIDE DEF B
    <3> QED
      BY <3>1, LeastOf
  <2>2. m \in Nat /\ n + m <= Depth /\ ~(Nested[n] \subseteq Nested[n + m]) /\ n \in Nat
    BY <1>1, <2>1
  <2>3. m # 0
    BY <2>2
  <2>4. m - 1 \in Nat /\ n + (m - 1) <= Depth /\ m - 1 \notin B
    BY <1>1, <2>1, <2>2, <2>3
  <2>5. Nested[n] \subseteq Nested[n + (m - 1)]
    BY <2>4
  <2>6. n + (m - 1) \in Nat /\ n + (m - 1) < Depth /\ n + (m - 1) + 1 = n + m
    BY <1>1, <2>2, <2>4
  <2>7. Nested[n + m] = Above(Nested[n + (m - 1)])
    BY <2>6, NestedIs
  <2> QED
    BY <2>2, <2>5, <2>7 DEF Above
<1>3. Depth - n \in Nat /\ n + (Depth - n) = Depth
  BY <1>1
<1>4. Nested[n] \subseteq Nested[n + (Depth - n)]
  <2> DEFINE m == Depth - n
  <2>1. m \in Nat /\ n + m <= Depth
    BY <1>1, <1>3
  <2> HIDE DEF m
  <2>2. Nested[n] \subseteq Nested[n + m]
    BY <1>2, <2>1
  <2> QED
    BY <2>2 DEF m
<1> QED
  BY <1>3, <1>4 DEF Value

\* A value is a scalar, or has entries one level below.
LEMMA ValueIs ==
    ASSUME DuplicatesAssumption, NEW n \in 0 .. Depth, NEW v \in Nested[n]
    PROVE  \/ v.kind = "scalar" /\ v \in Nested[0]
           \/ \E m \in 0 .. Depth : m < n /\ v \in ListOf(Nested[m]) \cup ObjectOf(Nested[m])
<1> DEFINE Has(u, k) == \E m \in 0 .. Depth : m < k /\ u \in ListOf(Nested[m]) \cup ObjectOf(Nested[m])
           Good(k) == \A u \in Nested[k] : (u.kind = "scalar" /\ u \in Nested[0]) \/ Has(u, k)
           B == {k \in 0 .. Depth : ~Good(k)}
<1>1. Depth \in Nat
  BY DEF DuplicatesAssumption
<1>2. Nested[0] = [kind : {"scalar"}, of : Scalar] /\ \A k \in Nat : k < Depth => Nested[k + 1] = Above(Nested[k])
  BY NestedIs
<1>3. B = {}
  <2> SUFFICES ASSUME B # {} PROVE FALSE
    OBVIOUS
  <2>1. PICK k \in B : \A l \in B : k <= l
    <3>1. B \subseteq Nat
      BY <1>1
    <3> HIDE DEF B
    <3> QED
      BY <3>1, LeastOf
  <2>2. k \in 0 .. Depth /\ ~Good(k)
    BY <2>1
  <2>3. k # 0
    <3>1. \A u \in [kind : {"scalar"}, of : Scalar] : u.kind = "scalar"
      OBVIOUS
    <3>2. \A u \in Nested[0] : u.kind = "scalar"
      BY <1>2, <3>1
    <3>3. Good(0)
      BY <3>2
    <3> HIDE DEF Good
    <3> QED
      BY <2>2, <3>3
  <2>4. k - 1 \in 0 .. Depth /\ k - 1 < k /\ k - 1 + 1 = k /\ k - 1 < Depth
    BY <1>1, <2>2, <2>3
  <2>5. Good(k - 1)
    <3>1. ~(k - 1 \in B)
      <4> HIDE DEF B
      <4> QED
        BY <1>1, <2>1, <2>2, <2>4
    <3> QED
      BY <2>4, <3>1
  <2>6. Nested[k] = Above(Nested[k - 1])
    BY <1>1, <1>2, <2>4
  <2>7. ASSUME NEW u \in Nested[k]
        PROVE  (u.kind = "scalar" /\ u \in Nested[0]) \/ Has(u, k)
    <3>1. CASE u \in Nested[k - 1]
      <4>1. Has(u, k - 1) => Has(u, k)
        BY <1>1, <2>2, <2>4
      <4> HIDE DEF Has
      <4> QED
        BY <2>5, <3>1, <4>1
    <3>2. CASE u \in ListOf(Nested[k - 1]) \cup ObjectOf(Nested[k - 1])
      BY <2>4, <3>2
    <3> QED
      BY <2>6, <2>7, <3>1, <3>2 DEF Above
  <2> QED
    BY <2>2, <2>7
<1>4. Good(n)
  <2> HIDE DEF Good
  <2> QED
    BY <1>3
<1> QED
  BY <1>4
\* The values below level n.
Low(n) == UNION {Nested[m] : m \in {x \in 0 .. Depth : x < n}}

LEMMA LowIs ==
    ASSUME DuplicatesAssumption
    PROVE  /\ Low(0) = {} /\ \A n \in Nat : Low(n) \subseteq Value
           /\ Value \subseteq Low(Depth + 1)
           /\ \A n \in Nat : \A v \in Low(n + 1) :
                 v.kind # "scalar" => \A i \in DOMAIN v.items : v.items[i] \in Low(n)
<1>1. Depth \in Nat
  BY DEF DuplicatesAssumption
<1>2. Low(0) = {}
  <2>1. {x \in 0 .. Depth : x < 0} = {}
    BY <1>1
  <2> QED
    BY <2>1 DEF Low
<1>3. \A n \in Nat : Low(n) \subseteq Value
  BY NestedGrows DEF Low
<1>4. Value \subseteq Low(Depth + 1)
  <2>1. Depth \in {x \in 0 .. Depth : x < Depth + 1}
    BY <1>1
  <2> QED
    BY <2>1 DEF Low, Value
<1>5. ASSUME NEW n \in Nat, NEW v \in Low(n + 1), v.kind # "scalar", NEW i \in DOMAIN v.items
      PROVE  v.items[i] \in Low(n)
  <2>1. PICK k \in 0 .. Depth : k < n + 1 /\ v \in Nested[k]
    BY DEF Low
  <2>2. PICK m \in 0 .. Depth : m < k /\ v \in ListOf(Nested[m]) \cup ObjectOf(Nested[m])
    BY <1>5, <2>1, ValueIs
  <2>3. v.items \in Seq(Nested[m])
    BY <2>2 DEF ListOf, ObjectOf
  <2>4. v.items[i] \in Nested[m]
    BY <2>3
  <2>5. m \in {x \in 0 .. Depth : x < n}
    BY <1>1, <2>1, <2>2
  <2> QED
    BY <2>4, <2>5 DEF Low
<1> QED
  BY <1>2, <1>3, <1>4, <1>5

\* One step of the removal, from those in f.
Cleaning(f, v) ==
    IF v.kind = "scalar" THEN Copied(v)
    ELSE LET parts == [i \in DOMAIN v.items |-> f[v.items[i]]]
         IN IF v.kind = "list" THEN CleanedList(v, parts) ELSE CleanedObject(v, parts)

\* One step of the reading, from those in f.
Reading(f, v) ==
    IF v.kind = "scalar" THEN v
    ELSE LET contents == [i \in DOMAIN v.items |-> f[v.items[i]]]
         IN IF v.kind = "list" THEN [kind |-> v.kind, entries |-> ToSet(contents)]
            ELSE [kind |-> v.kind, keys |-> v.keys, entries |-> contents]

\* A step depends on the entries of a value alone.
LEMMA CleaningLocal ==
    ASSUME NEW v, NEW f, NEW g,
           v.kind # "scalar" => \A i \in DOMAIN v.items : f[v.items[i]] = g[v.items[i]]
    PROVE  Cleaning(f, v) = Cleaning(g, v)
<1>1. CASE v.kind = "scalar"
  BY <1>1 DEF Cleaning
<1>2. CASE v.kind # "scalar"
  <2>1. [i \in DOMAIN v.items |-> f[v.items[i]]] = [i \in DOMAIN v.items |-> g[v.items[i]]]
    BY <1>2
  <2> QED
    BY <1>2, <2>1 DEF Cleaning
<1> QED
  BY <1>1, <1>2

LEMMA ReadingLocal ==
    ASSUME NEW v, NEW f, NEW g,
           v.kind # "scalar" => \A i \in DOMAIN v.items : f[v.items[i]] = g[v.items[i]]
    PROVE  Reading(f, v) = Reading(g, v)
<1>1. CASE v.kind = "scalar"
  BY <1>1 DEF Reading
<1>2. CASE v.kind # "scalar"
  <2>1. [i \in DOMAIN v.items |-> f[v.items[i]]] = [i \in DOMAIN v.items |-> g[v.items[i]]]
    BY <1>2
  <2> QED
    BY <1>2, <2>1 DEF Reading
<1> QED
  BY <1>1, <1>2

\* There is such a function: by the levels of the values.
LEMMA CleaningExists ==
    ASSUME DuplicatesAssumption
    PROVE  \E f : f = [v \in Value |-> Cleaning(f, v)]
<1> DEFINE Solved(n) == \E f : /\ f = [v \in Value |-> f[v]]
                               /\ \A v \in Low(n) : f[v] = Cleaning(f, v)
<1>1. Depth \in Nat
  BY DEF DuplicatesAssumption
<1>2. Solved(0)
  <2> DEFINE f == [v \in Value |-> 0]
  <2>1. f = [v \in Value |-> f[v]]
    OBVIOUS
  <2> HIDE DEF f
  <2> QED
    BY <2>1, LowIs
<1>3. ASSUME NEW n \in Nat, Solved(n)
      PROVE  Solved(n + 1)
  <2>1. PICK f : f = [v \in Value |-> f[v]] /\ \A v \in Low(n) : f[v] = Cleaning(f, v)
    BY <1>3
  <2> DEFINE g == [v \in Value |-> IF v \in Low(n) THEN f[v] ELSE Cleaning(f, v)]
  <2>2. \A v \in Low(n) : g[v] = f[v]
    BY LowIs
  <2>3. ASSUME NEW v \in Low(n + 1)
        PROVE  g[v] = Cleaning(g, v)
    <3>1. v \in Value
      <4>1. n + 1 \in Nat
        OBVIOUS
      <4> QED
        BY <4>1, LowIs
    <3>2. g[v] = Cleaning(f, v)
      BY <2>1, <3>1
    <3> HIDE DEF g
    <3>3. v.kind # "scalar" => \A i \in DOMAIN v.items : g[v.items[i]] = f[v.items[i]]
      BY <2>2, LowIs
    <3>4. Cleaning(g, v) = Cleaning(f, v)
      BY <3>3, CleaningLocal
    <3> QED
      BY <3>2, <3>4
  <2>4. g = [v \in Value |-> g[v]]
    OBVIOUS
  <2> HIDE DEF g
  <2> QED
    BY <2>3, <2>4
<1>4. Solved(Depth + 1)
  <2> DEFINE B == {n \in Nat : ~Solved(n)}
  <2> HIDE DEF Solved
  <2>1. CASE B = {}
    BY <1>1, <2>1
  <2>2. CASE B # {}
    <3>1. PICK n \in B : \A m \in B : n <= m
      <4>1. B \subseteq Nat
        OBVIOUS
      <4> HIDE DEF B
      <4> QED
        BY <2>2, <4>1, LeastOf
    <3>2. n \in Nat /\ n # 0 /\ ~Solved(n)
      BY <1>2, <3>1
    <3>3. n - 1 \in Nat /\ ~(n - 1 \in B)
      BY <3>1, <3>2
    <3>4. Solved(n - 1)
      BY <3>3
    <3>5. Solved(n - 1 + 1)
      BY <1>3, <3>3, <3>4
    <3> QED
      BY <3>2, <3>5
  <2> QED
    BY <2>1, <2>2
<1>5. PICK f : f = [v \in Value |-> f[v]] /\ \A v \in Low(Depth + 1) : f[v] = Cleaning(f, v)
  BY <1>4
<1>6. f = [v \in Value |-> Cleaning(f, v)]
  BY <1>1, <1>5, LowIs
<1> QED
  BY <1>6

\* Deduplicated is that function.
LEMMA DeduplicatedIs ==
    ASSUME DuplicatesAssumption, NEW v \in Value
    PROVE  Deduplicated[v] = Cleaning(Deduplicated, v)
<1> DEFINE Is(f) == f = [u \in Value |-> Cleaning(f, u)]
           g == CHOOSE f : Is(f)
<1>1. \E f : Is(f)
  BY CleaningExists
<1>2. Is(g)
  BY <1>1
<1>3. Deduplicated = g
  BY DEF Deduplicated, Cleaning
<1> HIDE DEF g
<1>4. g[v] = Cleaning(g, v)
  <2>1. g = [u \in Value |-> Cleaning(g, u)]
    BY <1>2
  <2> QED
    BY <2>1
<1> QED
  BY <1>3, <1>4

\* There is such a function: by the levels of the values.
LEMMA ReadingExists ==
    ASSUME DuplicatesAssumption
    PROVE  \E f : f = [v \in Value |-> Reading(f, v)]
<1> DEFINE Solved(n) == \E f : /\ f = [v \in Value |-> f[v]]
                               /\ \A v \in Low(n) : f[v] = Reading(f, v)
<1>1. Depth \in Nat
  BY DEF DuplicatesAssumption
<1>2. Solved(0)
  <2> DEFINE f == [v \in Value |-> 0]
  <2>1. f = [v \in Value |-> f[v]]
    OBVIOUS
  <2> HIDE DEF f
  <2> QED
    BY <2>1, LowIs
<1>3. ASSUME NEW n \in Nat, Solved(n)
      PROVE  Solved(n + 1)
  <2>1. PICK f : f = [v \in Value |-> f[v]] /\ \A v \in Low(n) : f[v] = Reading(f, v)
    BY <1>3
  <2> DEFINE g == [v \in Value |-> IF v \in Low(n) THEN f[v] ELSE Reading(f, v)]
  <2>2. \A v \in Low(n) : g[v] = f[v]
    BY LowIs
  <2>3. ASSUME NEW v \in Low(n + 1)
        PROVE  g[v] = Reading(g, v)
    <3>1. v \in Value
      <4>1. n + 1 \in Nat
        OBVIOUS
      <4> QED
        BY <4>1, LowIs
    <3>2. g[v] = Reading(f, v)
      BY <2>1, <3>1
    <3> HIDE DEF g
    <3>3. v.kind # "scalar" => \A i \in DOMAIN v.items : g[v.items[i]] = f[v.items[i]]
      BY <2>2, LowIs
    <3>4. Reading(g, v) = Reading(f, v)
      BY <3>3, ReadingLocal
    <3> QED
      BY <3>2, <3>4
  <2>4. g = [v \in Value |-> g[v]]
    OBVIOUS
  <2> HIDE DEF g
  <2> QED
    BY <2>3, <2>4
<1>4. Solved(Depth + 1)
  <2> DEFINE B == {n \in Nat : ~Solved(n)}
  <2> HIDE DEF Solved
  <2>1. CASE B = {}
    BY <1>1, <2>1
  <2>2. CASE B # {}
    <3>1. PICK n \in B : \A m \in B : n <= m
      <4>1. B \subseteq Nat
        OBVIOUS
      <4> HIDE DEF B
      <4> QED
        BY <2>2, <4>1, LeastOf
    <3>2. n \in Nat /\ n # 0 /\ ~Solved(n)
      BY <1>2, <3>1
    <3>3. n - 1 \in Nat /\ ~(n - 1 \in B)
      BY <3>1, <3>2
    <3>4. Solved(n - 1)
      BY <3>3
    <3>5. Solved(n - 1 + 1)
      BY <1>3, <3>3, <3>4
    <3> QED
      BY <3>2, <3>5
  <2> QED
    BY <2>1, <2>2
<1>5. PICK f : f = [v \in Value |-> f[v]] /\ \A v \in Low(Depth + 1) : f[v] = Reading(f, v)
  BY <1>4
<1>6. f = [v \in Value |-> Reading(f, v)]
  BY <1>1, <1>5, LowIs
<1> QED
  BY <1>6

\* Content is that function.
LEMMA ContentIs ==
    ASSUME DuplicatesAssumption, NEW v \in Value
    PROVE  Content[v] = Reading(Content, v)
<1> DEFINE Is(f) == f = [u \in Value |-> Reading(f, u)]
           g == CHOOSE f : Is(f)
<1>1. \E f : Is(f)
  BY ReadingExists
<1>2. Is(g)
  BY <1>1
<1>3. Content = g
  BY DEF Content, Reading
<1> HIDE DEF g
<1>4. g[v] = Reading(g, v)
  <2>1. g = [u \in Value |-> Reading(g, u)]
    BY <1>2
  <2> QED
    BY <2>1
<1> QED
  BY <1>3, <1>4
-----------------------------------------------------------------------------
\* The entries of some object or list over T, each cleaned to a part.
ArePartsOf(parts, items, T) ==
    /\ parts = [i \in DOMAIN items |-> parts[i]]
    /\ \A i \in DOMAIN items :
          /\ parts[i].value \in T /\ parts[i].findings \in Seq(Nat)
          /\ parts[i].findings = << >> <=> parts[i].value = items[i]

\* A pair of a value and its findings; it has findings when the value is another.
IsCleanOf(c, v, T) ==
    /\ c = [value |-> c.value, findings |-> c.findings]
    /\ c.value \in T /\ c.findings \in Seq(Nat)
    /\ c.findings = << >> <=> c.value = v

LEMMA ValuesAre ==
    ASSUME NEW T, NEW items \in Seq(T), NEW parts, ArePartsOf(parts, items, T)
    PROVE  /\ DOMAIN parts = DOMAIN items /\ Values(parts) \in Seq(T)
           /\ DOMAIN Values(parts) = DOMAIN items /\ Len(Values(parts)) = Len(items)
           /\ \A i \in DOMAIN items : Values(parts)[i] = parts[i].value
           /\ (\A i \in DOMAIN items : parts[i].findings = << >>) <=> Values(parts) = items
<1> DEFINE vs == Values(parts)
<1>1. DOMAIN parts = DOMAIN items
  BY DEF ArePartsOf
<1>2. vs = [i \in DOMAIN items |-> parts[i].value]
  BY <1>1 DEF Values
<1>3. DOMAIN items = 1 .. Len(items) /\ Len(items) \in Nat
  OBVIOUS
<1>4. \A i \in DOMAIN items : parts[i].value \in T
  BY DEF ArePartsOf
<1>5. vs \in Seq(T) /\ DOMAIN vs = DOMAIN items
  BY <1>2, <1>3, <1>4
<1>6. \A i \in DOMAIN items : vs[i] = parts[i].value
  BY <1>2
<1> HIDE DEF vs
<1>7. Len(vs) = Len(items)
  BY <1>3, <1>5
<1>8. (\A i \in DOMAIN items : parts[i].findings = << >>) <=> \A i \in DOMAIN items : vs[i] = items[i]
  BY <1>6 DEF ArePartsOf
<1>9. (\A i \in DOMAIN items : vs[i] = items[i]) <=> vs = items
  BY <1>3, <1>5, <1>7
<1> QED
  BY <1>1, <1>5, <1>6, <1>7, <1>8, <1>9 DEF vs

\* An object whose entries were cleaned.
LEMMA ObjectIsClean ==
    ASSUME NEW T, NEW v \in ObjectOf(T), NEW parts, ArePartsOf(parts, v.items, T)
    PROVE  /\ IsCleanOf(CleanedObject(v, parts), v, ObjectOf(T))
           /\ CleanedObject(v, parts).value.keys = v.keys
           /\ CleanedObject(v, parts).value.items = Values(parts)
           /\ CleanedObject(v, parts).value.kind = v.kind
           /\ CleanedObject(v, parts).findings = << >> <=> Values(parts) = v.items
<1> DEFINE items == v.items
           vs == Values(parts)
           seqs == [i \in DOMAIN parts |-> parts[i].findings]
           c == CleanedObject(v, parts)
           w == [kind |-> "object", keys |-> v.keys, items |-> vs]
<1>1. /\ v \in [kind : {"object"}, keys : Seq(Field), items : Seq(T)]
      /\ items \in Seq(T) /\ v.keys \in Seq(Field) /\ Len(v.keys) = Len(items)
      /\ v.kind = "object"
  BY DEF ObjectOf
<1>2. v = [kind |-> "object", keys |-> v.keys, items |-> items] /\ [v EXCEPT !.items = vs] = w
  <2> HIDE DEF vs
  <2> QED
    BY <1>1
<1>3. c = [value |-> w, findings |-> FlattenSeq(seqs)]
  <2> HIDE DEF w
  <2> QED
    BY <1>2 DEF CleanedObject
<1>4. /\ DOMAIN parts = DOMAIN items /\ vs \in Seq(T) /\ Len(vs) = Len(items)
      /\ (\A i \in DOMAIN items : parts[i].findings = << >>) <=> vs = items
  <2> HIDE DEF items
  <2> QED
    BY <1>1, ValuesAre DEF items
<1>5. seqs \in Seq(Seq(Nat))
  <2>1. DOMAIN items = 1 .. Len(items) /\ Len(items) \in Nat
    BY <1>1
  <2>2. \A i \in DOMAIN items : parts[i].findings \in Seq(Nat)
    BY DEF ArePartsOf
  <2> QED
    BY <1>4, <2>1, <2>2
<1>6. FlattenSeq(seqs) = << >> <=> \A i \in DOMAIN items : parts[i].findings = << >>
  <2>1. FlattenSeq(seqs) = << >> <=> \A i \in DOMAIN seqs : seqs[i] = << >>
    <3> HIDE DEF seqs
    <3> QED
      BY <1>5, FlatNone
  <2> QED
    BY <1>4, <2>1
<1>7. FlattenSeq(seqs) \in Seq(Nat)
  <2> HIDE DEF seqs
  <2> QED
    BY <1>5, ElementsOfAll
<1>8. w \in ObjectOf(T)
  <2> HIDE DEF vs
  <2> QED
    BY <1>1, <1>4 DEF ObjectOf
<1>9. w = v <=> vs = items
  <2>1. w.items = vs
    OBVIOUS
  <2> QED
    BY <1>2, <2>1
<1> HIDE DEF c, w, seqs, vs, items
<1>10. c.value = w /\ c.findings = FlattenSeq(seqs) /\ c = [value |-> c.value, findings |-> c.findings]
  BY <1>3
<1>11. w.items = vs /\ w.keys = v.keys /\ w.kind = v.kind
  BY <1>1 DEF w
<1>12. IsCleanOf(c, v, ObjectOf(T))
  BY <1>4, <1>6, <1>7, <1>8, <1>9, <1>10 DEF IsCleanOf
<1> QED
  BY <1>4, <1>6, <1>10, <1>11, <1>12 DEF c, vs, items

\* What was copied is a part.
LEMMA CopiesAreParts ==
    ASSUME NEW T, NEW items \in Seq(T)
    PROVE  /\ ArePartsOf([i \in DOMAIN items |-> Copied(items[i])], items, T)
           /\ Values([i \in DOMAIN items |-> Copied(items[i])]) = items
<1> DEFINE parts == [i \in DOMAIN items |-> Copied(items[i])]
<1>1. << >> \in Seq(Nat)
  OBVIOUS
<1>2. \A i \in DOMAIN items : items[i] \in T
  OBVIOUS
<1>3. \A i \in DOMAIN items : parts[i].value = items[i] /\ parts[i].findings = << >>
  BY DEF Copied
<1>4. parts = [i \in DOMAIN items |-> parts[i]]
  OBVIOUS
<1> HIDE DEF parts
<1>5. ArePartsOf(parts, items, T)
  BY <1>1, <1>2, <1>3, <1>4 DEF ArePartsOf
<1>6. Values(parts) = items
  BY <1>3, <1>5, ValuesAre
<1> QED
  BY <1>5, <1>6 DEF parts
\* Every value has a first occurrence, and the first occurrences differ.
LEMMA FirstsAre ==
    ASSUME NEW T, NEW raw, NEW values \in Seq(T)
    PROVE  /\ Firsts(raw, values) \subseteq DOMAIN values
           /\ {values[i] : i \in Firsts(raw, values)} = ToSet(values)
           /\ \A i, j \in Firsts(raw, values) : values[i] = values[j] => i = j
           /\ (\A i, j \in DOMAIN values : values[i] = values[j] => i = j) =>
                 Firsts(raw, values) = DOMAIN values
<1> DEFINE S == Firsts(raw, values)
<1>1. DOMAIN values = 1 .. Len(values) /\ Len(values) \in Nat
  OBVIOUS
<1>2. S = {i \in DOMAIN values : \A j \in 1 .. i - 1 : values[j] # values[i]}
  BY DEF Firsts
<1> HIDE DEF S
<1>3. ASSUME NEW i \in DOMAIN values
      PROVE  \E j \in S : values[j] = values[i]
  <2> DEFINE Q == {j \in DOMAIN values : values[j] = values[i]}
  <2>1. Q \subseteq Nat /\ Q # {}
    BY <1>1
  <2>2. PICK j \in Q : \A m \in Q : j <= m
    <3> HIDE DEF Q
    <3> QED
      BY <2>1, LeastOf
  <2>3. ASSUME NEW m \in 1 .. j - 1
        PROVE  values[m] # values[j]
    <3>1. m \in DOMAIN values /\ ~(j <= m)
      BY <1>1, <2>2
    <3> QED
      BY <2>2, <3>1
  <2> QED
    BY <1>2, <2>2, <2>3
<1>4. ASSUME NEW i \in S, NEW j \in S, values[i] = values[j]
      PROVE  i = j
  <2>1. ~(i \in 1 .. j - 1) /\ ~(j \in 1 .. i - 1)
    BY <1>2, <1>4
  <2>2. i \in DOMAIN values /\ j \in DOMAIN values
    BY <1>2
  <2> QED
    BY <1>1, <2>1, <2>2
<1>5. ASSUME \A i, j \in DOMAIN values : values[i] = values[j] => i = j
      PROVE  S = DOMAIN values
  <2>1. ASSUME NEW i \in DOMAIN values, NEW j \in 1 .. i - 1
        PROVE  values[j] # values[i]
    <3>1. j \in DOMAIN values /\ j # i
      BY <1>1
    <3> QED
      BY <1>5, <3>1
  <2> QED
    BY <1>2, <2>1
<1>6. S \subseteq DOMAIN values
  BY <1>2
<1>7. {values[i] : i \in S} = ToSet(values)
  BY <1>3, <1>6 DEF ToSet
<1> QED
  BY <1>4, <1>5, <1>6, <1>7 DEF S

\* A list whose entries were cleaned.
LEMMA ListIsClean ==
    ASSUME NEW T, NEW v \in ListOf(T), NEW parts, ArePartsOf(parts, v.items, T)
    PROVE  /\ IsCleanOf(CleanedList(v, parts), v, ListOf(T))
           /\ ToSet(CleanedList(v, parts).value.items) = ToSet(Values(parts))
           /\ \A a, b \in DOMAIN CleanedList(v, parts).value.items :
                 CleanedList(v, parts).value.items[a] = CleanedList(v, parts).value.items[b] => a = b
           /\ Values(parts) = v.items /\ (\A a, b \in DOMAIN v.items : v.items[a] = v.items[b] => a = b)
                 => CleanedList(v, parts).findings = << >>
<1> DEFINE items == v.items
           vs == Values(parts)
           firsts == Firsts(items, vs)
           kept == Kept(vs, firsts)
           seqs == [i \in DOMAIN parts |-> IF i \in firsts THEN parts[i].findings ELSE <<i>>]
           c == CleanedList(v, parts)
           w == [kind |-> "list", items |-> kept]
<1>1. items \in Seq(T) /\ v = [kind |-> "list", items |-> items]
  BY DEF ListOf
<1>2. v \in [kind : {"list"}, items : Seq(T)] /\ [v EXCEPT !.items = kept] = w
  <2> HIDE DEF kept
  <2> QED
    BY DEF ListOf
<1>3. c = [value |-> w, findings |-> FlattenSeq(seqs)]
  <2>1. c = [value |-> [v EXCEPT !.items = kept], findings |-> FlattenSeq(seqs)]
    BY DEF CleanedList
  <2> HIDE DEF w, c, kept, seqs
  <2> QED
    BY <1>2, <2>1
<1>4. /\ DOMAIN parts = DOMAIN items /\ vs \in Seq(T) /\ DOMAIN vs = DOMAIN items
      /\ Len(vs) = Len(items)
      /\ (\A i \in DOMAIN items : parts[i].findings = << >>) <=> vs = items
  <2> HIDE DEF items
  <2> QED
    BY <1>1, ValuesAre DEF items
<1> HIDE DEF vs
<1>5. /\ firsts \subseteq DOMAIN vs /\ {vs[i] : i \in firsts} = ToSet(vs)
      /\ \A i, j \in firsts : vs[i] = vs[j] => i = j
      /\ (\A i, j \in DOMAIN vs : vs[i] = vs[j] => i = j) => firsts = DOMAIN vs
  BY <1>4, FirstsAre
<1> HIDE DEF firsts
<1>6. kept \in Seq(T) /\ ToSet(kept) = ToSet(vs)
  <2>1. vs \in Seq(T) /\ firsts \in SUBSET DOMAIN vs
    BY <1>4, <1>5
  <2>2. kept \in Seq(T) /\ ToSet(kept) = {vs[i] : i \in firsts}
    BY <2>1, KeptElements
  <2> QED
    BY <1>5, <2>2
<1>7. /\ firsts = DOMAIN vs => kept = vs
      /\ Len(kept) = Len(vs) => firsts = DOMAIN vs
      /\ \A a, b \in DOMAIN kept : kept[a] = kept[b] => a = b
  BY <1>4, <1>5, KeptWhole
<1>8. seqs \in Seq(Seq(Nat))
  <2>1. DOMAIN items = 1 .. Len(items) /\ Len(items) \in Nat
    BY <1>1
  <2>2. \A i \in DOMAIN items : parts[i].findings \in Seq(Nat)
    BY DEF ArePartsOf
  <2>3. \A i \in DOMAIN items : <<i>> \in Seq(Nat)
    BY <2>1
  <2>4. \A i \in DOMAIN parts : seqs[i] \in Seq(Nat)
    BY <1>4, <2>2, <2>3
  <2>5. seqs = [i \in 1 .. Len(items) |-> seqs[i]]
    BY <1>4, <2>1
  <2> HIDE DEF seqs
  <2> QED
    BY <1>4, <2>1, <2>4, <2>5
<1>9. FlattenSeq(seqs) \in Seq(Nat)
  <2> HIDE DEF seqs
  <2> QED
    BY <1>8, ElementsOfAll
<1>10. FlattenSeq(seqs) = << >> <=> firsts = DOMAIN vs /\ vs = items
  <2>1. FlattenSeq(seqs) = << >> <=> \A i \in DOMAIN seqs : seqs[i] = << >>
    <3> HIDE DEF seqs
    <3> QED
      BY <1>8, FlatNone
  <2>2. \A i \in DOMAIN items : seqs[i] = << >> <=> i \in firsts /\ parts[i].findings = << >>
    <3>1. \A i \in DOMAIN items : <<i>> # << >>
      OBVIOUS
    <3> QED
      BY <1>4, <3>1
  <2>3. DOMAIN seqs = DOMAIN items
    BY <1>4
  <2> HIDE DEF seqs, items
  <2> QED
    BY <1>4, <1>5, <2>1, <2>2, <2>3
<1>11. kept = items <=> firsts = DOMAIN vs /\ vs = items
  <2> HIDE DEF kept, items
  <2> QED
    BY <1>4, <1>7
<1>12. w \in ListOf(T) /\ w.items = kept
  <2> HIDE DEF kept
  <2> QED
    BY <1>6 DEF ListOf
<1>13. w = v <=> kept = items
  BY <1>1, <1>12
<1> HIDE DEF c, w, seqs, kept
<1>14. c.value = w /\ c.findings = FlattenSeq(seqs) /\ c = [value |-> c.value, findings |-> c.findings]
  BY <1>3
<1>15. IsCleanOf(c, v, ListOf(T))
  BY <1>9, <1>10, <1>11, <1>12, <1>13, <1>14 DEF IsCleanOf
<1>16. vs = items /\ (\A a, b \in DOMAIN items : items[a] = items[b] => a = b) => c.findings = << >>
  BY <1>5, <1>10, <1>14
<1>17. ToSet(c.value.items) = ToSet(vs)
  BY <1>6, <1>12, <1>14
<1>18. \A a, b \in DOMAIN c.value.items : c.value.items[a] = c.value.items[b] => a = b
  BY <1>7, <1>12, <1>14
<1> QED
  BY <1>15, <1>16, <1>17, <1>18 DEF c, vs
-----------------------------------------------------------------------------
\* The removal is done once and for all, and keeps what the value says.
IsDeduplicated(v, T) ==
    /\ IsCleanOf(Deduplicated[v], v, T)
    /\ Deduplicated[Deduplicated[v].value] = Copied(Deduplicated[v].value)
    /\ Content[Deduplicated[v].value] = Content[v]

\* A pair without findings is a copy.
LEMMA CleanIsCopy ==
    ASSUME NEW c, NEW v, NEW T, IsCleanOf(c, v, T), c.findings = << >>
    PROVE  c = Copied(v)
<1>1. c = [value |-> c.value, findings |-> c.findings] /\ c.value = v
  BY DEF IsCleanOf
<1> QED
  BY <1>1 DEF Copied

\* What the removal and the reading of a list come to.
LEMMA OfList ==
    ASSUME DuplicatesAssumption, NEW T, T \subseteq Value, NEW v \in ListOf(T), v \in Value
    PROVE  /\ Deduplicated[v] = CleanedList(v, [i \in DOMAIN v.items |-> Deduplicated[v.items[i]]])
           /\ Content[v] = [kind |-> "list", entries |-> {Content[x] : x \in ToSet(v.items)}]
<1>1. v.kind = "list" /\ v.kind # "scalar"
  BY DEF ListOf
<1>2. Deduplicated[v] = Cleaning(Deduplicated, v) /\ Content[v] = Reading(Content, v)
  BY DeduplicatedIs, ContentIs
<1>3. ToSet([i \in DOMAIN v.items |-> Content[v.items[i]]]) = {Content[x] : x \in ToSet(v.items)}
  BY DEF ToSet
<1>4. Content[v] = [kind |-> "list", entries |-> ToSet([i \in DOMAIN v.items |-> Content[v.items[i]]])]
  BY <1>1, <1>2 DEF Reading
<1>5. Deduplicated[v] = CleanedList(v, [i \in DOMAIN v.items |-> Deduplicated[v.items[i]]])
  BY <1>1, <1>2 DEF Cleaning
<1> QED
  BY <1>3, <1>4, <1>5

\* What the removal and the reading of an object come to.
LEMMA OfObject ==
    ASSUME DuplicatesAssumption, NEW T, T \subseteq Value, NEW v \in ObjectOf(T), v \in Value
    PROVE  /\ Deduplicated[v] = CleanedObject(v, [i \in DOMAIN v.items |-> Deduplicated[v.items[i]]])
           /\ Content[v] = [kind |-> "object", keys |-> v.keys,
                            entries |-> [i \in DOMAIN v.items |-> Content[v.items[i]]]]
<1>1. v.kind = "object" /\ v.kind # "scalar" /\ v.kind # "list"
  BY DEF ObjectOf
<1>2. Deduplicated[v] = Cleaning(Deduplicated, v) /\ Content[v] = Reading(Content, v)
  BY DeduplicatedIs, ContentIs
<1>3. Content[v] = [kind |-> "object", keys |-> v.keys,
                    entries |-> [i \in DOMAIN v.items |-> Content[v.items[i]]]]
  BY <1>1, <1>2 DEF Reading
<1>4. Deduplicated[v] = CleanedObject(v, [i \in DOMAIN v.items |-> Deduplicated[v.items[i]]])
  BY <1>1, <1>2 DEF Cleaning
<1> QED
  BY <1>3, <1>4

\* The deduplicated entries are parts.
LEMMA EntriesAreParts ==
    ASSUME NEW T, NEW items \in Seq(T), \A u \in T : IsDeduplicated(u, T)
    PROVE  ArePartsOf([i \in DOMAIN items |-> Deduplicated[items[i]]], items, T)
<1> DEFINE parts == [i \in DOMAIN items |-> Deduplicated[items[i]]]
<1>1. \A i \in DOMAIN items : items[i] \in T
  OBVIOUS
<1>2. \A i \in DOMAIN items : IsCleanOf(parts[i], items[i], T)
  BY <1>1 DEF IsDeduplicated
<1>3. parts = [i \in DOMAIN items |-> parts[i]]
  OBVIOUS
<1> HIDE DEF parts
<1>4. ArePartsOf(parts, items, T)
  BY <1>2, <1>3 DEF ArePartsOf, IsCleanOf
<1> QED
  BY <1>4 DEF parts

\* A list of such values is one.
LEMMA ListIsDeduplicated ==
    ASSUME DuplicatesAssumption, NEW T, T \subseteq Value, ListOf(T) \subseteq Value,
           \A u \in T : IsDeduplicated(u, T), NEW v \in ListOf(T)
    PROVE  IsDeduplicated(v, ListOf(T))
<1> DEFINE parts == [i \in DOMAIN v.items |-> Deduplicated[v.items[i]]]
           c == CleanedList(v, parts)
           w == c.value
           copies == [i \in DOMAIN w.items |-> Copied(w.items[i])]
<1>1. v.items \in Seq(T)
  BY DEF ListOf
<1>2. Deduplicated[v] = c
  BY OfList
<1>3. ArePartsOf(parts, v.items, T)
  BY <1>1, EntriesAreParts
<1>4. \A i \in DOMAIN v.items : v.items[i] \in T /\ parts[i] = Deduplicated[v.items[i]]
  BY <1>1
<1>5. DOMAIN Values(parts) = DOMAIN v.items /\ \A i \in DOMAIN v.items : Values(parts)[i] = parts[i].value
  <2> HIDE DEF parts
  <2> QED
    BY <1>1, <1>3, ValuesAre
<1> HIDE DEF parts
<1>6. /\ IsCleanOf(c, v, ListOf(T)) /\ ToSet(w.items) = ToSet(Values(parts))
      /\ \A a, b \in DOMAIN w.items : w.items[a] = w.items[b] => a = b
  BY <1>3, ListIsClean
<1> HIDE DEF c
<1>7. w \in ListOf(T)
  BY <1>6 DEF IsCleanOf
<1> HIDE DEF w
<1>8. w.items \in Seq(T) /\ w \in Value
  BY <1>7 DEF ListOf
<1>9. ToSet(w.items) = {Deduplicated[x].value : x \in ToSet(v.items)}
  <2>1. ToSet(Values(parts)) = {Values(parts)[i] : i \in DOMAIN v.items}
    BY <1>5 DEF ToSet
  <2>2. {Values(parts)[i] : i \in DOMAIN v.items} = {Deduplicated[v.items[i]].value : i \in DOMAIN v.items}
    BY <1>4, <1>5
  <2>3. {Deduplicated[v.items[i]].value : i \in DOMAIN v.items} = {Deduplicated[x].value : x \in ToSet(v.items)}
    BY DEF ToSet
  <2> QED
    BY <1>6, <2>1, <2>2, <2>3
<1>10. ToSet(v.items) \subseteq T
  BY <1>4 DEF ToSet
<1>11. Deduplicated[w] = Copied(w)
  <2>1. \A x \in ToSet(w.items) : Deduplicated[x] = Copied(x)
    BY <1>9, <1>10 DEF IsDeduplicated
  <2>2. \A i \in DOMAIN w.items : Deduplicated[w.items[i]] = Copied(w.items[i])
    BY <2>1 DEF ToSet
  <2>3. Deduplicated[w] = CleanedList(w, copies)
    <3>1. [i \in DOMAIN w.items |-> Deduplicated[w.items[i]]] = copies
      BY <2>2
    <3> HIDE DEF copies
    <3> QED
      BY <1>7, <1>8, <3>1, OfList
  <2>4. ArePartsOf(copies, w.items, T) /\ Values(copies) = w.items
    BY <1>8, CopiesAreParts
  <2> HIDE DEF copies
  <2>5. IsCleanOf(CleanedList(w, copies), w, ListOf(T)) /\ CleanedList(w, copies).findings = << >>
    BY <1>6, <1>7, <2>4, ListIsClean
  <2> QED
    BY <2>3, <2>5, CleanIsCopy
<1>12. Content[w] = Content[v]
  <2>1. \A x \in ToSet(v.items) : Content[Deduplicated[x].value] = Content[x]
    BY <1>10 DEF IsDeduplicated
  <2>2. {Content[y] : y \in ToSet(w.items)} = {Content[Deduplicated[x].value] : x \in ToSet(v.items)}
    BY <1>9
  <2>3. {Content[Deduplicated[x].value] : x \in ToSet(v.items)} = {Content[x] : x \in ToSet(v.items)}
    BY <2>1
  <2>4. {Content[y] : y \in ToSet(w.items)} = {Content[x] : x \in ToSet(v.items)}
    BY <2>2, <2>3
  <2> QED
    BY <1>7, <1>8, <2>4, OfList
<1> QED
  BY <1>2, <1>6, <1>11, <1>12 DEF IsDeduplicated, w

\* An object of such values is one.
LEMMA ObjectIsDeduplicated ==
    ASSUME DuplicatesAssumption, NEW T, T \subseteq Value, ObjectOf(T) \subseteq Value,
           \A u \in T : IsDeduplicated(u, T), NEW v \in ObjectOf(T)
    PROVE  IsDeduplicated(v, ObjectOf(T))
<1> DEFINE parts == [i \in DOMAIN v.items |-> Deduplicated[v.items[i]]]
           c == CleanedObject(v, parts)
           w == c.value
           copies == [i \in DOMAIN w.items |-> Copied(w.items[i])]
<1>1. v.items \in Seq(T)
  BY DEF ObjectOf
<1>2. Deduplicated[v] = c
  BY OfObject
<1>3. ArePartsOf(parts, v.items, T)
  BY <1>1, EntriesAreParts
<1>4. \A i \in DOMAIN v.items : v.items[i] \in T /\ parts[i] = Deduplicated[v.items[i]]
  BY <1>1
<1>5. DOMAIN Values(parts) = DOMAIN v.items /\ \A i \in DOMAIN v.items : Values(parts)[i] = parts[i].value
  <2> HIDE DEF parts
  <2> QED
    BY <1>1, <1>3, ValuesAre
<1> HIDE DEF parts
<1>6. IsCleanOf(c, v, ObjectOf(T)) /\ w.items = Values(parts) /\ w.keys = v.keys
  BY <1>3, ObjectIsClean
<1> HIDE DEF c
<1>7. w \in ObjectOf(T)
  BY <1>6 DEF IsCleanOf
<1> HIDE DEF w
<1>8. w.items \in Seq(T) /\ w \in Value
  BY <1>7 DEF ObjectOf
<1>9. DOMAIN w.items = DOMAIN v.items /\ \A i \in DOMAIN v.items : w.items[i] = Deduplicated[v.items[i]].value
  BY <1>4, <1>5, <1>6
<1>11. Deduplicated[w] = Copied(w)
  <2>2. \A i \in DOMAIN w.items : Deduplicated[w.items[i]] = Copied(w.items[i])
    BY <1>4, <1>9 DEF IsDeduplicated
  <2>3. Deduplicated[w] = CleanedObject(w, copies)
    <3>1. [i \in DOMAIN w.items |-> Deduplicated[w.items[i]]] = copies
      BY <2>2
    <3> HIDE DEF copies
    <3> QED
      BY <1>7, <1>8, <3>1, OfObject
  <2>4. ArePartsOf(copies, w.items, T) /\ Values(copies) = w.items
    BY <1>8, CopiesAreParts
  <2> HIDE DEF copies
  <2>5. IsCleanOf(CleanedObject(w, copies), w, ObjectOf(T)) /\ CleanedObject(w, copies).findings = << >>
    BY <1>7, <2>4, ObjectIsClean
  <2> QED
    BY <2>3, <2>5, CleanIsCopy
<1>12. Content[w] = Content[v]
  <2>1. \A i \in DOMAIN v.items : Content[w.items[i]] = Content[v.items[i]]
    BY <1>4, <1>9 DEF IsDeduplicated
  <2>2. [i \in DOMAIN w.items |-> Content[w.items[i]]] = [i \in DOMAIN v.items |-> Content[v.items[i]]]
    BY <1>9, <2>1
  <2>3. v \in Value /\ w.keys = v.keys
    BY <1>6
  <2>4. Content[w] = [kind |-> "object", keys |-> w.keys, entries |-> [i \in DOMAIN w.items |-> Content[w.items[i]]]]
    BY <1>7, <1>8, OfObject
  <2>5. Content[v] = [kind |-> "object", keys |-> v.keys, entries |-> [i \in DOMAIN v.items |-> Content[v.items[i]]]]
    BY <2>3, OfObject
  <2> QED
    BY <2>2, <2>3, <2>4, <2>5
<1> QED
  BY <1>2, <1>6, <1>11, <1>12 DEF IsDeduplicated, w
\* Every value of every level is one, and so are the lists and objects of the
\* levels below: the removal of duplicates, for every policy.
LEMMA AllAreDeduplicated ==
    ASSUME DuplicatesAssumption
    PROVE  \A v \in Value : IsDeduplicated(v, Value)
<1> DEFINE Good(n) == \A v \in Nested[n] : IsDeduplicated(v, Nested[n])
           B == {n \in Nat : n <= Depth /\ ~Good(n)}
<1>1. Depth \in Nat
  BY DEF DuplicatesAssumption
<1>2. Good(0)
  <2> SUFFICES ASSUME NEW v \in Nested[0]
               PROVE  IsDeduplicated(v, Nested[0])
    OBVIOUS
  <2>1. v.kind = "scalar" /\ v \in Value
    <3>1. v \in [kind : {"scalar"}, of : Scalar]
      BY NestedIs
    <3>2. 0 \in 0 .. Depth
      BY <1>1
    <3> QED
      BY <3>1, <3>2, NestedGrows
  <2>2. Deduplicated[v] = Copied(v)
    BY <2>1, DeduplicatedIs DEF Cleaning
  <2>3. << >> \in Seq(Nat)
    OBVIOUS
  <2> DEFINE c == Copied(v)
  <2>4. c.value = v /\ c.findings = << >> /\ c = [value |-> v, findings |-> << >>]
    BY DEF Copied
  <2> HIDE DEF c
  <2>5. IsCleanOf(c, v, Nested[0])
    BY <2>3, <2>4 DEF IsCleanOf
  <2> QED
    BY <2>2, <2>4, <2>5 DEF IsDeduplicated, c
<1>3. B = {}
  <2> SUFFICES ASSUME B # {} PROVE FALSE
    OBVIOUS
  <2>1. PICK n \in B : \A m \in B : n <= m
    <3>1. B \subseteq Nat
      OBVIOUS
    <3> HIDE DEF B
    <3> QED
      BY <3>1, LeastOf
  <2>2. n \in Nat /\ n <= Depth /\ ~Good(n)
    BY <2>1
  <2>3. n # 0
    <3> HIDE DEF Good
    <3> QED
      BY <1>2, <2>2
  <2>4. n - 1 \in Nat /\ n - 1 < Depth /\ n - 1 <= Depth /\ n - 1 + 1 = n /\ ~(n <= n - 1) /\ n \in 0 .. Depth
    BY <1>1, <2>2, <2>3
  <2> DEFINE T == Nested[n - 1]
  <2>5. \A u \in T : IsDeduplicated(u, T)
    <3>1. n - 1 \notin B
      <4> HIDE DEF B
      <4> QED
        BY <2>1, <2>4
    <3>2. Good(n - 1)
      <4> HIDE DEF Good
      <4> QED
        BY <2>4, <3>1
    <3> QED
      BY <3>2
  <2>6. Nested[n] = T \cup ListOf(T) \cup ObjectOf(T)
    BY <2>4, NestedIs DEF Above
  <2>7. Nested[n] \subseteq Value
    BY <2>4, NestedGrows
  <2> HIDE DEF T
  <2>8. T \subseteq Value /\ ListOf(T) \subseteq Value /\ ObjectOf(T) \subseteq Value
    BY <2>6, <2>7
  <2>9. ASSUME NEW v \in Nested[n]
        PROVE  IsDeduplicated(v, Nested[n])
    <3>1. IsDeduplicated(v, T) \/ IsDeduplicated(v, ListOf(T)) \/ IsDeduplicated(v, ObjectOf(T))
      <4>1. CASE v \in T
        BY <2>5, <4>1
      <4>2. CASE v \in ListOf(T)
        BY <2>5, <2>8, <4>2, ListIsDeduplicated
      <4>3. CASE v \in ObjectOf(T)
        BY <2>5, <2>8, <4>3, ObjectIsDeduplicated
      <4> QED
        BY <2>6, <4>1, <4>2, <4>3
    <3> QED
      BY <2>6, <3>1 DEF IsDeduplicated, IsCleanOf
  <2> QED
    BY <2>2, <2>9
<1>4. Good(Depth)
  <2> HIDE DEF Good
  <2> QED
    BY <1>1, <1>3
<1> QED
  BY <1>4 DEF Value
-----------------------------------------------------------------------------
\* The sections of a policy: only those that are documented are cleaned.
SectionsOf(d) ==
    [i \in DOMAIN d.items |->
       IF d.keys[i] \in Supported THEN Deduplicated[d.items[i]] ELSE Copied(d.items[i])]

LEMMA ReviewIs ==
    ASSUME NEW d
    PROVE  DuplicateReview(d) = [duplicates |-> Len(CleanedObject(d, SectionsOf(d)).findings),
                                 changed |-> CleanedObject(d, SectionsOf(d)).value # d,
                                 candidate |-> CleanedObject(d, SectionsOf(d)).value]
  BY DEF DuplicateReview, SectionsOf

LEMMA SectionsAreParts ==
    ASSUME DuplicatesAssumption, NEW d \in ObjectOf(Value)
    PROVE  /\ ArePartsOf(SectionsOf(d), d.items, Value) /\ d.items \in Seq(Value)
           /\ Values(SectionsOf(d)) =
                 [i \in DOMAIN d.items |->
                    IF d.keys[i] \in Supported THEN Deduplicated[d.items[i]].value ELSE d.items[i]]
<1> DEFINE parts == SectionsOf(d)
<1>1. d.items \in Seq(Value) /\ \A i \in DOMAIN d.items : d.items[i] \in Value
  BY DEF ObjectOf
<1>2. \A i \in DOMAIN d.items :
         parts[i] = IF d.keys[i] \in Supported THEN Deduplicated[d.items[i]] ELSE Copied(d.items[i])
  BY DEF SectionsOf
<1>3. parts = [i \in DOMAIN d.items |-> parts[i]]
  BY DEF SectionsOf
<1> HIDE DEF parts
<1>4. ASSUME NEW i \in DOMAIN d.items
      PROVE  IsCleanOf(parts[i], d.items[i], Value)
  <2>1. CASE d.keys[i] \in Supported
    BY <1>1, <1>2, <2>1, AllAreDeduplicated DEF IsDeduplicated
  <2>2. CASE d.keys[i] \notin Supported
    <3> DEFINE c == Copied(d.items[i])
    <3>1. parts[i] = c
      BY <1>2, <2>2
    <3>2. c.value = d.items[i] /\ c.findings = << >> /\ c = [value |-> d.items[i], findings |-> << >>]
      BY DEF Copied
    <3>3. << >> \in Seq(Nat)
      OBVIOUS
    <3> HIDE DEF c
    <3> QED
      BY <1>1, <3>1, <3>2, <3>3 DEF IsCleanOf
  <2> QED
    BY <2>1, <2>2
<1>5. ArePartsOf(parts, d.items, Value)
  BY <1>3, <1>4 DEF ArePartsOf, IsCleanOf
<1>6. Values(parts) = [i \in DOMAIN d.items |->
                         IF d.keys[i] \in Supported THEN Deduplicated[d.items[i]].value ELSE d.items[i]]
  <2>1. Values(parts) = [i \in DOMAIN d.items |-> parts[i].value]
    BY <1>5 DEF Values, ArePartsOf
  <2>2. \A i \in DOMAIN d.items :
           parts[i].value = IF d.keys[i] \in Supported THEN Deduplicated[d.items[i]].value ELSE d.items[i]
    <3>1. \A x : Copied(x).value = x
      BY DEF Copied
    <3> QED
      BY <1>2, <3>1
  <2> QED
    BY <2>1, <2>2
<1> QED
  BY <1>1, <1>5, <1>6 DEF parts

\* The review of a policy.
LEMMA ReviewIsClean ==
    ASSUME DuplicatesAssumption, NEW d \in ObjectOf(Value), NEW r, r = DuplicateReview(d)
    PROVE  /\ DuplicateReview(r.candidate).duplicates = 0
           /\ r.changed = (r.duplicates > 0)
           /\ r.candidate.keys = d.keys /\ DOMAIN r.candidate.items = DOMAIN d.items
           /\ \A i \in DOMAIN d.items :
                 /\ Content[r.candidate.items[i]] = Content[d.items[i]]
                 /\ d.keys[i] \notin Supported => r.candidate.items[i] = d.items[i]
<1> DEFINE parts == SectionsOf(d)
           c == CleanedObject(d, parts)
           w == c.value
           new == CleanedObject(w, SectionsOf(w))
<1>1. r.candidate = w /\ r.duplicates = Len(c.findings) /\ r.changed = (w # d)
  <2>1. r = [duplicates |-> Len(c.findings), changed |-> w # d, candidate |-> w]
    BY ReviewIs
  <2> HIDE DEF c, w
  <2> QED
    BY <2>1
<1>2. IsCleanOf(c, d, ObjectOf(Value)) /\ w.keys = d.keys /\ w.items = Values(parts)
  <2>1. ArePartsOf(parts, d.items, Value)
    BY SectionsAreParts
  <2> HIDE DEF parts
  <2> QED
    BY <2>1, ObjectIsClean
<1>3. \A i \in DOMAIN d.items : d.items[i] \in Value /\ IsDeduplicated(d.items[i], Value)
  BY AllAreDeduplicated, SectionsAreParts
<1>4. w.items = [i \in DOMAIN d.items |->
                   IF d.keys[i] \in Supported THEN Deduplicated[d.items[i]].value ELSE d.items[i]]
  BY <1>2, SectionsAreParts
<1> HIDE DEF c, parts
<1>5. w \in ObjectOf(Value) /\ c.findings \in Seq(Nat) /\ (c.findings = << >> <=> w = d)
  BY <1>2 DEF IsCleanOf
<1> HIDE DEF w
<1>6. r.changed = (r.duplicates > 0)
  <2>1. Len(c.findings) \in Nat /\ (Len(c.findings) = 0 <=> c.findings = << >>)
    <3> DEFINE found == c.findings
    <3>1. found \in Seq(Nat)
      BY <1>5
    <3> HIDE DEF found
    <3>2. Len(found) \in Nat /\ (Len(found) = 0 <=> found = << >>)
      BY <3>1
    <3> QED
      BY <3>2 DEF found
  <2>2. Len(c.findings) > 0 <=> w # d
    BY <1>5, <2>1
  <2> QED
    BY <1>1, <2>2
<1>7. DOMAIN w.items = DOMAIN d.items
  BY <1>4
<1>8. \A i \in DOMAIN d.items :
         /\ Content[w.items[i]] = Content[d.items[i]]
         /\ d.keys[i] \notin Supported => w.items[i] = d.items[i]
  BY <1>3, <1>4 DEF IsDeduplicated
<1>9. DuplicateReview(w).duplicates = 0
  <2>1. \A i \in DOMAIN w.items :
           d.keys[i] \in Supported => Deduplicated[w.items[i]].value = w.items[i]
    <3>1. \A x : Copied(x).value = x
      BY DEF Copied
    <3> QED
      BY <1>3, <1>4, <1>7, <3>1 DEF IsDeduplicated
  <2>2. /\ ArePartsOf(SectionsOf(w), w.items, Value)
        /\ Values(SectionsOf(w)) =
              [i \in DOMAIN w.items |->
                 IF w.keys[i] \in Supported THEN Deduplicated[w.items[i]].value ELSE w.items[i]]
    BY <1>5, SectionsAreParts
  <2>3. Values(SectionsOf(w)) = w.items
    <3>1. w.items = [i \in DOMAIN w.items |-> w.items[i]]
      BY <1>4, <1>7
    <3>2. \A i \in DOMAIN w.items :
             w.items[i] = IF w.keys[i] \in Supported THEN Deduplicated[w.items[i]].value ELSE w.items[i]
      BY <1>2, <2>1 DEF w
    <3> QED
      BY <2>2, <3>1, <3>2
  <2>4. new.findings = << >>
    BY <1>5, <2>2, <2>3, ObjectIsClean
  <2>5. DuplicateReview(w).duplicates = Len(new.findings)
    <3> HIDE DEF new
    <3>1. DuplicateReview(w) = [duplicates |-> Len(new.findings), changed |-> new.value # w,
                                candidate |-> new.value]
      BY ReviewIs DEF new
    <3> QED
      BY <3>1
  <2> QED
    BY <2>4, <2>5
<1>10. w.keys = d.keys
  BY <1>2 DEF w
<1> QED
  BY <1>1, <1>6, <1>7, <1>8, <1>9, <1>10

-----------------------------------------------------------------------------
\* A review is the review of the document at hand.
DuplicatesIInv ==
    /\ document \in Documents
    /\ review # NoReview => review = DuplicateReview(document)

\* Every reachable state: nothing but the one review happens.
THEOREM DuplicatesInductive == DuplicatesSpec => []DuplicatesIInv
<1>1. DuplicatesInit => DuplicatesIInv
  BY DEF DuplicatesInit, DuplicatesIInv
<1>2. DuplicatesIInv /\ [ReadDuplicates]_duplicateVars => DuplicatesIInv'
  BY DEF DuplicatesIInv, ReadDuplicates, duplicateVars
<1> QED
  BY <1>1, <1>2, PTL DEF DuplicatesSpec

\* A candidate has nothing left to remove, and differs when it was counted.
LEMMA CandidateIsCleaned == DuplicatesAssumption /\ DuplicatesIInv => CandidateIsClean
<1> SUFFICES ASSUME DuplicatesAssumption, DuplicatesIInv, review # NoReview
             PROVE  /\ DuplicateReview(review.candidate).duplicates = 0
                    /\ review.changed = (review.duplicates > 0)
  BY DEF CandidateIsClean
<1>1. document \in ObjectOf(Value) /\ review = DuplicateReview(document)
  BY DEF DuplicatesIInv, DuplicatesAssumption
<1> QED
  BY <1>1, ReviewIsClean

\* Cleaning loses nothing.
LEMMA CandidateKeepsWhatIsSaid == DuplicatesAssumption /\ DuplicatesIInv => CandidateSaysTheSame
<1> SUFFICES ASSUME DuplicatesAssumption, DuplicatesIInv, review # NoReview
             PROVE  /\ review.candidate.keys = document.keys
                    /\ DOMAIN review.candidate.items = DOMAIN document.items
                    /\ \A i \in DOMAIN document.items :
                          /\ Content[review.candidate.items[i]] = Content[document.items[i]]
                          /\ document.keys[i] \notin Supported =>
                                review.candidate.items[i] = document.items[i]
  BY DEF CandidateSaysTheSame
<1>1. document \in ObjectOf(Value) /\ review = DuplicateReview(document)
  BY DEF DuplicatesIInv, DuplicatesAssumption
<1> QED
  BY <1>1, ReviewIsClean

\* A candidate has nothing left to remove, a review counts duplicates exactly
\* when it changes a policy, and cleaning loses nothing: the candidate has the
\* keys of the source, its sections say what those of the source say, and a
\* section that is not documented is the source's own (review_policy); for
\* every policy, however deep its values are nested.
THEOREM CandidatesAreSound == DuplicatesSpec => []CandidateInv
<1>1. DuplicatesIInv => CandidateInv
  BY DuplicatesAssumption, CandidateIsCleaned, CandidateKeepsWhatIsSaid DEF CandidateInv
<1> QED
  BY <1>1, DuplicatesInductive, PTL
=============================================================================
