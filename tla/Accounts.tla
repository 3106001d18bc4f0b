------------------------------ MODULE Accounts ------------------------------
(***************************************************************************)
(* Local accounts: who may sign in, the sessions of browsers, the second   *)
(* factor, and the administration of both.  A request authenticates, which *)
(* commits and leaves the user and the session as loaded; it loads what    *)
(* else it needs; and it commits.  Of a loaded row only the columns that   *)
(* the request changed are written; sessions are revoked by one UPDATE.    *)
(* A person who has to prove a password or a code can; what is left out is *)
(* throttling, expiry and a wrong password or code, which refuse a request *)
(* and change nothing here.                                                *)
(***************************************************************************)
EXTENDS Naturals, FiniteSets

CONSTANTS
    User, Browser, Role,
    SessionId,      \* bound: the sessions that can be created
    Scenarios,      \* bounds: [ops, requests, account, cookie, who], one in a behaviour
    None

Account == [role : Role, active : BOOLEAN, must_change : BOOLEAN, mfa : BOOLEAN]
Session == [user : User, revoked : BOOLEAN, restricted : BOOLEAN]

\* An installation with which a behaviour begins has no accounts, or an active
\* administrator; a browser that is signed in belongs to one of its accounts.
ScenarioOK(x) ==
    /\ x.requests \in Nat
    /\ DOMAIN x.account \subseteq User /\ \A u \in DOMAIN x.account : x.account[u] \in Account
    /\ DOMAIN x.account # {} =>
          \E u \in DOMAIN x.account : x.account[u].active /\ x.account[u].role = "administrator"
    /\ x.cookie \in [Browser -> SessionId \cup {None}]
    /\ \A c \in Browser : x.cookie[c] # None => x.who[c] \in DOMAIN x.account

ASSUME AccountsAssumption ==
    /\ Role = {"administrator", "viewer"}
    /\ None \notin SessionId \cup User
    /\ \A x \in Scenarios : ScenarioOK(x)

VARIABLES
    scenario, requests,
    request,        \* request[c]: what the request of browser c has loaded
    cookie,         \* cookie[c]: the session of browser c, or None
    challenge,      \* challenge[c]: who has to send a code to sign in at c, or None
    account,        \* the app_users rows
    session,        \* the sessions rows
    credential,     \* credential[u]: the mfa_credentials row
    codes,          \* the users with recovery codes
    required,       \* auth_policy.required_roles
    \* --- history for the properties
    miscounted,     \* an administrator went by a count that was out of date
    crossed         \* the users whose second factor two overlapping requests changed

rows == <<account, session, credential, codes, required>>
history == <<miscounted, crossed>>
vars == <<scenario, requests, request, cookie, challenge, rows, history>>

Idle == [op |-> "idle"]
TypeOK ==
    /\ scenario \in Scenarios /\ requests \in 0 .. scenario.requests
    /\ DOMAIN request = Browser
    /\ cookie \in [Browser -> DOMAIN session \cup {None}]
    /\ challenge \in [Browser -> DOMAIN account \cup {None}]
    /\ DOMAIN account \subseteq User /\ \A u \in DOMAIN account : account[u] \in Account
    /\ DOMAIN session \subseteq SessionId
    /\ \A s \in DOMAIN session : session[s] \in Session /\ session[s].user \in DOMAIN account
    /\ credential \in [User -> {"none", "started", "enrolled"}]
    /\ codes \subseteq DOMAIN account
    /\ required \subseteq Role
    /\ miscounted \in BOOLEAN /\ crossed \subseteq User
-----------------------------------------------------------------------------
(* What requests have in common.                                            *)

\* f with the value at x, and f with what g adds to it.
With(f, x, value) == [y \in DOMAIN f \cup {x} |-> IF y = x THEN value ELSE f[y]]
Merged(f, g) == [y \in DOMAIN f \cup DOMAIN g |-> IF y \in DOMAIN f THEN f[y] ELSE g[y]]

Written(loaded, value, row) ==
    [f \in DOMAIN row |-> IF value[f] # loaded[f] THEN value[f] ELSE row[f]]

\* response_for_user: anything but "authenticated".
NeedsOnboarding(a) == a.must_change \/ (a.role \in required /\ ~a.mfa)

ActiveAdministrators ==
    {u \in DOMAIN account : account[u].active /\ account[u].role = "administrator"}

Live(u) == {s \in DOMAIN session : session[s].user = u /\ ~session[s].revoked}

Revoked(gone) ==
    [s \in DOMAIN session |-> IF s \in gone THEN [session[s] EXCEPT !.revoked = TRUE] ELSE session[s]]

Init ==
    /\ scenario \in Scenarios /\ requests = 0
    /\ request = [c \in Browser |-> Idle]
    /\ account = scenario.account
    /\ required \in SUBSET {"administrator"}
    /\ cookie = scenario.cookie /\ challenge = [c \in Browser |-> None]
    /\ session = [s \in {cookie[c] : c \in Browser} \ {None} |->
                    LET u == scenario.who[CHOOSE c \in Browser : cookie[c] = s]
                    IN [user |-> u, revoked |-> FALSE, restricted |-> NeedsOnboarding(account[u])]]
    /\ credential = [u \in User |-> IF u \in DOMAIN account /\ account[u].mfa THEN "enrolled" ELSE "none"]
    /\ codes = {u \in DOMAIN account : account[u].mfa}
    /\ miscounted = FALSE /\ crossed = {}

Asks(c, op, loaded) ==
    /\ request[c] = Idle /\ op \in scenario.ops
    /\ requests < scenario.requests /\ requests' = requests + 1
    /\ request' = [request EXCEPT ![c] = Merged([op |-> op], loaded)]
    /\ UNCHANGED <<scenario, cookie, challenge, rows, history>>

Ends(c, op) ==
    /\ request[c].op = op
    /\ request' = [request EXCEPT ![c] = Idle]
    /\ UNCHANGED <<scenario, requests>>

\* create_session: the row of u as the request has it decides the restriction.
\* Bound: there is an id left.
SignIn(c, u, as, sessions) ==
    LET s == CHOOSE t \in SessionId : t \notin DOMAIN session
    IN /\ DOMAIN session # SessionId
       /\ session' = With(sessions, s, [user |-> u, revoked |-> FALSE,
                                        restricted |-> NeedsOnboarding(as)])
       /\ cookie' = [cookie EXCEPT ![c] = s]

\* current_session, and for an administrator's request current_user too.
Signed(c) ==
    /\ cookie[c] # None
    /\ ~session[cookie[c]].revoked
    /\ account[session[cookie[c]].user].active

Me(c) ==
    [user |-> session[cookie[c]].user, session |-> cookie[c],
     me |-> account[session[cookie[c]].user], restricted |-> session[cookie[c]].restricted]

OwnRequest(c, op) == Signed(c) /\ Asks(c, op, Merged([ready |-> FALSE], Me(c)))

AdminRequest(c, op, asked) ==
    /\ Signed(c) /\ ~Me(c).restricted /\ Me(c).me.role = "administrator"
    /\ Asks(c, op, Merged([ready |-> FALSE], Merged(asked, Me(c))))

\* The transaction in which an administrator's request loads its target.  Its
\* own user is in the session already, and stays as it was.
Loads(c, op, more) ==
    /\ request[c].op = op /\ ~request[c].ready
    /\ request' = [request EXCEPT ![c] = Merged(more, [@ EXCEPT !.ready = TRUE])]
    /\ UNCHANGED <<scenario, requests, cookie, challenge, rows, history>>

Loaded(c, u) == IF u = request[c].user THEN request[c].me ELSE account[u]

\* A request that fails its checks after it authenticated.
Refused(c) ==
    /\ Ends(c, request[c].op)
    /\ UNCHANGED <<cookie, challenge, rows, history>>

\* Mutated: the whole row of the session is written as it was loaded.
RefreshedWhole(c, as) ==
    [session EXCEPT ![request[c].session].restricted = NeedsOnboarding(as),
                    ![request[c].session].revoked = FALSE]
\* Only the restriction of the own session is refreshed.
Refreshed(c, as) ==
    LET q == request[c]
        need == NeedsOnboarding(as)
    IN IF need = q.restricted THEN session
       ELSE [session EXCEPT ![q.session].restricted = need]
-----------------------------------------------------------------------------
(* Signing in and out.                                                      *)

setup_admin(c) ==
    /\ DOMAIN account = {}
    /\ \E u \in User : Asks(c, "setup", [user |-> u])

\* The user name is unique.
FinishSetup(c) ==
    LET u == request[c].user
        row == [role |-> "administrator", active |-> TRUE, must_change |-> FALSE, mfa |-> FALSE]
    IN /\ Ends(c, "setup")
       /\ IF u \in DOMAIN account THEN UNCHANGED <<account, session, cookie>>
          ELSE account' = With(account, u, row) /\ SignIn(c, u, row, session)
       /\ UNCHANGED <<challenge, credential, codes, required, history>>

\* With a second factor: a challenge and no session.
login(c) ==
    \E u \in DOMAIN account :
       account[u].active /\ Asks(c, "login", [user |-> u, me |-> account[u]])

FinishLogin(c) ==
    LET q == request[c]
    IN /\ Ends(c, "login")
       /\ IF q.me.mfa
          THEN challenge' = [challenge EXCEPT ![c] = q.user] /\ UNCHANGED <<session, cookie>>
          ELSE SignIn(c, q.user, q.me, session) /\ UNCHANGED challenge
       /\ UNCHANGED <<account, credential, codes, required, history>>

\* A code needs a credential, confirmed or not, or else a recovery code.
verify_login_mfa(c) ==
    LET u == challenge[c]
    IN /\ u # None
       /\ account[u].active /\ account[u].mfa /\ credential[u] # "none"
       /\ Asks(c, "verify", [user |-> u, me |-> account[u]])

\* A code of the credential is recorded in its row, a recovery code in its own.
FinishVerify(c) ==
    LET q == request[c]
    IN /\ Ends(c, "verify")
       /\ credential[q.user] # "none" \/ q.user \in codes
       /\ SignIn(c, q.user, q.me, session)
       /\ challenge' = [challenge EXCEPT ![c] = None]
       /\ UNCHANGED <<account, credential, codes, required, history>>

\* The credential is gone: its last code cannot be recorded, and neither can that
\* of a recovery code that went with it.
RefuseVerify(c) ==
    /\ request[c].op = "verify" /\ credential[request[c].user] = "none"
    /\ Refused(c)

logout(c) == OwnRequest(c, "logout")
FinishLogout(c) ==
    /\ Ends(c, "logout")
    /\ session' = Revoked({request[c].session})
    /\ cookie' = [cookie EXCEPT ![c] = None]
    /\ UNCHANGED <<challenge, account, credential, codes, required, history>>

me(c) == OwnRequest(c, "me")
FinishMe(c) ==
    /\ Ends(c, "me")
    /\ session' = Refreshed(c, request[c].me)
    /\ UNCHANGED <<cookie, challenge, account, credential, codes, required, history>>

\* The replacement session is restricted by what the request knew of its user.
change_password(c) == OwnRequest(c, "password")
FinishPassword(c) ==
    LET q == request[c]
        value == [q.me EXCEPT !.must_change = FALSE]
    IN /\ Ends(c, "password")
       /\ account' = [account EXCEPT ![q.user] = Written(q.me, value, @)]
       /\ SignIn(c, q.user, value, Revoked(Live(q.user)))
       /\ UNCHANGED <<challenge, credential, codes, required, history>>

revoke_own_session(c) == OwnRequest(c, "revoke")
FinishRevoke(c) ==
    /\ Ends(c, "revoke")
    /\ \E s \in {t \in DOMAIN session : session[t].user = request[c].user} :
          /\ session' = Revoked({s})
          /\ cookie' = IF s = cookie[c] THEN [cookie EXCEPT ![c] = None] ELSE cookie
    /\ UNCHANGED <<challenge, account, credential, codes, required, history>>

revoke_other_sessions(c) == OwnRequest(c, "revoke_others")
FinishRevokeOthers(c) ==
    /\ Ends(c, "revoke_others")
    /\ session' = Revoked(Live(request[c].user) \ {request[c].session})
    /\ UNCHANGED <<cookie, challenge, account, credential, codes, required, history>>
-----------------------------------------------------------------------------
(* The second factor of the own account.                                    *)

\* Two requests that change the second factor of u are under way at once.
Crossing(c, u) ==
    crossed' = IF \E d \in Browser \ {c} :
                     \/ request[d].op \in {"enroll", "confirm", "disable"} /\ request[d].user = u
                     \/ request[d].op = "reset_mfa" /\ request[d].target = u
               THEN crossed \cup {u} ELSE crossed

LoadsCredential(c, op) == Loads(c, op, [credential |-> credential[request[c].user]])

\* INSERT when there was no row, UPDATE when there was one: else an error.
StillThere(c) == (request[c].credential = "none") = (credential[request[c].user] = "none")

enroll_mfa(c) == OwnRequest(c, "enroll")
LoadEnroll(c) == LoadsCredential(c, "enroll")
FinishEnroll(c) ==
    LET u == request[c].user
    IN /\ Ends(c, "enroll") /\ request[c].ready /\ StillThere(c)
       /\ credential' = [credential EXCEPT ![u] = "started"]
       /\ codes' = codes \ {u}
       /\ Crossing(c, u)
       /\ UNCHANGED <<cookie, challenge, account, session, required, miscounted>>

confirm_mfa(c) == OwnRequest(c, "confirm")
LoadConfirm(c) == LoadsCredential(c, "confirm")
FinishConfirm(c) ==
    LET q == request[c]
        value == [q.me EXCEPT !.mfa = TRUE]
    IN /\ Ends(c, "confirm") /\ q.ready /\ q.credential # "none" /\ StillThere(c)
       /\ account' = [account EXCEPT ![q.user] = Written(q.me, value, @)]
       /\ credential' = [credential EXCEPT ![q.user] = "enrolled"]
       /\ codes' = codes \cup {q.user}
       /\ session' = Refreshed(c, value)
       /\ Crossing(c, q.user)
       /\ UNCHANGED <<cookie, challenge, required, miscounted>>

\* No enrolment to confirm, or the row was deleted or inserted in between.
RefuseFactor(c) ==
    /\ request[c].op \in {"enroll", "confirm"} /\ request[c].ready
    /\ (request[c].op = "confirm" /\ request[c].credential = "none") \/ ~StillThere(c)
    /\ Refused(c)

WithoutFactor(a) == [a EXCEPT !.mfa = FALSE]

disable_mfa(c) == OwnRequest(c, "disable")
FinishDisable(c) ==
    LET q == request[c]
        value == WithoutFactor(q.me)
    IN /\ Ends(c, "disable")
       /\ account' = [account EXCEPT ![q.user] = Written(q.me, value, @)]
       /\ credential' = [credential EXCEPT ![q.user] = "none"]
       /\ codes' = codes \ {q.user}
       /\ session' = Refreshed(c, value)
       /\ Crossing(c, q.user)
       /\ UNCHANGED <<cookie, challenge, required, miscounted>>

regenerate_recovery_codes(c) == OwnRequest(c, "codes")
FinishCodes(c) ==
    /\ Ends(c, "codes")
    /\ codes' = IF request[c].me.mfa THEN codes \cup {request[c].user} ELSE codes
    /\ UNCHANGED <<cookie, challenge, account, session, credential, required, history>>
-----------------------------------------------------------------------------
(* Administration of accounts.                                              *)

create_app_user(c) ==
    \E u \in User, r \in Role : AdminRequest(c, "create_user", [target |-> u, role |-> r])
FinishCreateUser(c) ==
    LET q == request[c]
        row == [role |-> q.role, active |-> TRUE, must_change |-> TRUE, mfa |-> FALSE]
    IN /\ Ends(c, "create_user")
       /\ account' = IF q.target \in DOMAIN account THEN account    \* the name is unique
                     ELSE With(account, q.target, row)
       /\ UNCHANGED <<cookie, challenge, session, credential, codes, required, history>>

Targets(c, op) == \E u \in DOMAIN account : AdminRequest(c, op, [target |-> u])

LoadsTarget(c, op) ==
    Loads(c, op, [loaded |-> Loaded(c, request[c].target),
                  count |-> Cardinality(ActiveAdministrators)])

update_app_user(c) ==
    \E u \in DOMAIN account, r \in Role, a \in BOOLEAN :
       AdminRequest(c, "update_user", [target |-> u, role |-> r, active |-> a])
LoadUpdate(c) == LoadsTarget(c, "update_user")

\* Mutated: the last administrator counts as one too many.
LastAdministratorLoosely(q) == q.count < 1
LastAdministrator(q) == q.count <= 1

\* removing_admin, by the row and the count as loaded.
Removing(q) ==
    /\ q.loaded.active /\ q.loaded.role = "administrator"
    /\ ~q.active \/ q.role = "viewer"

SignsOut(q) == q.role # q.loaded.role \/ q.active # q.loaded.active

FinishUpdate(c) ==
    LET q == request[c]
        value == [q.loaded EXCEPT !.role = q.role, !.active = q.active]
        stale == q.loaded # account[q.target] \/ q.count # Cardinality(ActiveAdministrators)
    IN /\ Ends(c, "update_user") /\ q.ready
       /\ ~(Removing(q) /\ LastAdministrator(q))
       /\ account' = [account EXCEPT ![q.target] = Written(q.loaded, value, @)]
       /\ session' = IF SignsOut(q) THEN Revoked(Live(q.target)) ELSE session
       /\ miscounted' = (miscounted \/ (stale /\ q.target \in ActiveAdministrators \ ActiveAdministrators'))
       /\ UNCHANGED <<cookie, challenge, credential, codes, required, crossed>>
RefuseUpdate(c) ==
    LET q == request[c]
    IN /\ q.op = "update_user" /\ q.ready
       /\ Removing(q) /\ LastAdministrator(q)
       /\ Refused(c)

reset_app_user_password(c) == Targets(c, "reset_password")
LoadReset(c) == LoadsTarget(c, "reset_password")
FinishReset(c) ==
    LET q == request[c]
    IN /\ Ends(c, "reset_password") /\ q.ready
       /\ account' = [account EXCEPT ![q.target] =
                         Written(q.loaded, [q.loaded EXCEPT !.must_change = TRUE], @)]
       /\ session' = Revoked(Live(q.target))
       /\ UNCHANGED <<cookie, challenge, credential, codes, required, history>>

reset_app_user_mfa(c) == Targets(c, "reset_mfa")
LoadResetFactor(c) == LoadsTarget(c, "reset_mfa")
FinishResetFactor(c) ==
    LET q == request[c]
    IN /\ Ends(c, "reset_mfa") /\ q.ready
       /\ account' = [account EXCEPT ![q.target] =
                         Written(q.loaded, WithoutFactor(q.loaded), @)]
       /\ credential' = [credential EXCEPT ![q.target] = "none"]
       /\ codes' = codes \ {q.target}
       /\ session' = Revoked(Live(q.target))
       /\ Crossing(c, q.target)
       /\ UNCHANGED <<cookie, challenge, required, miscounted>>

revoke_app_user_sessions(c) == Targets(c, "revoke_user")
FinishRevokeUser(c) ==
    /\ Ends(c, "revoke_user")
    /\ session' = Revoked(Live(request[c].target))
    /\ UNCHANGED <<cookie, challenge, account, credential, codes, required, history>>

revoke_app_session(c) == AdminRequest(c, "revoke_session", <<>>)
FinishRevokeSession(c) ==
    /\ Ends(c, "revoke_session")
    /\ \E s \in DOMAIN session :
          /\ session' = Revoked({s})
          /\ cookie' = IF s = request[c].session THEN [cookie EXCEPT ![c] = None] ELSE cookie
    /\ UNCHANGED <<challenge, account, credential, codes, required, history>>
-----------------------------------------------------------------------------
(* The roles that need a second factor.                                     *)

set_auth_policy(c) ==
    \E roles \in SUBSET Role : AdminRequest(c, "policy", [roles |-> roles])
LoadPolicy(c) ==
    Loads(c, "policy", [required |-> required,
                        accounts |-> [u \in DOMAIN account |-> Loaded(c, u)]])

\* Mutated: a temporary password is not looked at.
RestrictsByFactor(a, roles) == a.role \in roles /\ ~a.mfa
\* Its own words for what response_for_user decides.
Restricts(a, roles) == a.must_change \/ (a.role \in roles /\ ~a.mfa)

FinishPolicy(c) ==
    LET q == request[c]
        due(u) == u \in DOMAIN q.accounts /\ q.accounts[u].active
    IN /\ Ends(c, "policy") /\ q.ready
       /\ required' = IF q.roles # q.required THEN q.roles ELSE required
       /\ session' = [s \in DOMAIN session |->
                        LET row == session[s]
                        IN IF due(row.user) /\ ~row.revoked
                           THEN [row EXCEPT !.restricted = Restricts(q.accounts[row.user], q.roles)]
                           ELSE row]
       /\ UNCHANGED <<cookie, challenge, account, credential, codes, history>>
-----------------------------------------------------------------------------
SigningIn(c) ==
    \/ setup_admin(c) \/ FinishSetup(c) \/ login(c) \/ FinishLogin(c)
    \/ verify_login_mfa(c) \/ FinishVerify(c) \/ RefuseVerify(c)
    \/ logout(c) \/ FinishLogout(c) \/ me(c) \/ FinishMe(c) \/ change_password(c) \/ FinishPassword(c)
    \/ revoke_own_session(c) \/ FinishRevoke(c)
    \/ revoke_other_sessions(c) \/ FinishRevokeOthers(c)

SecondFactor(c) ==
    \/ enroll_mfa(c) \/ LoadEnroll(c) \/ FinishEnroll(c)
    \/ confirm_mfa(c) \/ LoadConfirm(c) \/ FinishConfirm(c) \/ RefuseFactor(c)
    \/ disable_mfa(c) \/ FinishDisable(c)
    \/ regenerate_recovery_codes(c) \/ FinishCodes(c)

Administration(c) ==
    \/ create_app_user(c) \/ FinishCreateUser(c)
    \/ update_app_user(c) \/ LoadUpdate(c) \/ FinishUpdate(c) \/ RefuseUpdate(c)
    \/ reset_app_user_password(c) \/ LoadReset(c) \/ FinishReset(c)
    \/ reset_app_user_mfa(c) \/ LoadResetFactor(c) \/ FinishResetFactor(c)
    \/ revoke_app_user_sessions(c) \/ FinishRevokeUser(c)
    \/ revoke_app_session(c) \/ FinishRevokeSession(c)
    \/ set_auth_policy(c) \/ LoadPolicy(c) \/ FinishPolicy(c)

Next == \E c \in Browser : SigningIn(c) \/ SecondFactor(c) \/ Administration(c)

Spec == Init /\ [][Next]_vars
-----------------------------------------------------------------------------
\* An installation that has accounts keeps an active administrator.  The check
\* counts and then commits, so two removals at once can each count the other
\* (api.py:882): this is the one exception.
AdministratorRemains ==
    DOMAIN account # {} => ActiveAdministrators # {} \/ miscounted

\* An account that asks for a code at sign-in has a secret to check codes with,
\* unless two requests changed its second factor at once (api.py:725).
EnabledHasCredential ==
    \A u \in DOMAIN account \ crossed : account[u].mfa => credential[u] # "none"

\* Nobody is locked out: the installation keeps an administrator, the account
\* what it needs to sign in.
AccountInv == TypeOK /\ AdministratorRemains /\ EnabledHasCredential

\* No request brings a revoked session back, whatever it had loaded before the
\* session was revoked (auth.py:109).
RevocationIsFinal ==
    [][\A s \in DOMAIN session : session[s].revoked => session'[s].revoked]_vars

\* A new policy restricts every live session as the next /auth/me would, when
\* nothing changed since the request loaded the accounts (api.py:1055).
PolicyReachesSessions ==
    [][\A c \in Browser :
          LET q == request[c]
          IN /\ q.op = "policy" /\ q.ready /\ request'[c] = Idle
             /\ q.accounts = account /\ q.required = required
             => \A u \in DOMAIN account, s \in SessionId :
                   account[u].active /\ s \in Live(u)
                      => session'[s].restricted = NeedsOnboarding(account[u])']_vars
=============================================================================
