--------------------------- MODULE TailscaleClient --------------------------
(***************************************************************************)
(* backend/app/tailscale.py: the client that one run of a source has, with *)
(* the token it caches, and the calls that one method makes at the same    *)
(* time (dns, log_streaming) or that a worker gathers.  What an answer     *)
(* contains is left out, and so is a client with a static api_token, which *)
(* asks for no token and caches none.  Time is in steps of 30 seconds, the *)
(* timeout of a request and the shortest time for which a token is cached. *)
(***************************************************************************)
EXTENDS Naturals, FiniteSets, FiniteSetsExt

CONSTANTS
    Call,       \* the calls of one gather
    Lifetime,   \* the values of expires_in that the server gives
    Attempts,   \* 4
    LastStep,   \* bound: the last step of time
    Absent

\* A token that lives for less than a minute could be cached beyond its end.
ASSUME ClientAssumption ==
    /\ Lifetime \subseteq Nat \ {0, 1} /\ Attempts \in Nat \ {0} /\ LastStep \in Nat
    /\ Absent \notin Nat

VARIABLES
    step,      \* the time
    token,     \* _oauth_token, by the time it ends at the server
    until,     \* _oauth_expires
    call,      \* call[c]: where c is
    gathered,  \* what the gather came to
    closed,
    revoked,   \* the server has refused the credentials
    stale      \* a first attempt used a token that had ended

clientVars == <<step, token, until, call, gathered, closed, revoked, stale>>

Network == 0     \* no answer
Unwrapped == 1   \* an exception that is not a TailscaleError
Permanent == {401, 402, 403, 404, 409, 500}
HasFailed(c) == call[c].at = "failed"
Starting == [at |-> "start"]

\* Where a call is, with what it holds there.
Whereabouts ==
    [at : {"start", "answered"}]
    \cup [at : {"fetch"}, since : Nat, expires_in : Lifetime, attempt : {0}]
    \cup [at : {"send", "sleep"}, token : Nat, attempt : Nat \ {0}]
    \cup [at : {"failed"}, status : Nat, attempt : Nat]

ClientTypeOK ==
    /\ step \in 0 .. LastStep /\ closed \in BOOLEAN /\ revoked \in BOOLEAN /\ stale \in BOOLEAN
    /\ token \in Nat \cup {Absent} /\ until \in Nat
    /\ call \in [Call -> Whereabouts]
    /\ gathered \in {"open", "returned", "raised"}

ClientInit ==
    /\ step = 0 /\ token = Absent /\ until = 0 /\ call = [c \in Call |-> Starting]
    /\ gathered = "open" /\ closed = FALSE /\ revoked = FALSE /\ stale = FALSE

Ends(c, result) == call' = [call EXCEPT ![c] = result]
Fails(c, status) == Ends(c, [at |-> "failed", status |-> status, attempt |-> call[c].attempt])
Sending(t, n) == [at |-> "send", token |-> t, attempt |-> n]
-----------------------------------------------------------------------------
(* _token.                                                                  *)

\* Mutated: the cached token is kept for as long as it lives.
CachedForAll(expires_in) == expires_in
CachedFor(expires_in) == IF expires_in > 3 THEN expires_in - 2 ELSE 1

UseCached(c) ==
    /\ call[c].at = "start" /\ token # Absent /\ until > step
    /\ Ends(c, Sending(token, 1))
    /\ UNCHANGED <<step, token, until, gathered, closed, revoked, stale>>

\* Every call that finds no token asks for one; the server starts to count now.
AskToken(c) ==
    /\ call[c].at = "start" /\ (token = Absent \/ until <= step) /\ ~closed
    /\ \E l \in Lifetime :
          Ends(c, [at |-> "fetch", since |-> step, expires_in |-> l, attempt |-> 0])
    /\ UNCHANGED <<step, token, until, gathered, closed, revoked, stale>>

TokenArrives(c) ==
    /\ call[c].at = "fetch" /\ ~closed
    /\ token' = call[c].since + call[c].expires_in
    /\ until' = step + CachedFor(call[c].expires_in)
    /\ Ends(c, Sending(token', 1))
    /\ UNCHANGED <<step, gathered, closed, revoked, stale>>

\* Not retried; what is not an answer of the server is not wrapped either.
TokenFails(c) ==
    /\ call[c].at = "fetch"
    /\ \/ Fails(c, Unwrapped) /\ UNCHANGED revoked
       \/ ~closed /\ Fails(c, 401) /\ revoked' = TRUE
    /\ UNCHANGED <<step, token, until, gathered, closed, stale>>
-----------------------------------------------------------------------------
(* get: the token was taken before the loop, whatever the loop takes.       *)

Alive(c) == step < call[c].token

Answered(c) ==
    /\ call[c].at = "send" /\ ~closed
    /\ stale' = (stale \/ (call[c].attempt = 1 /\ ~Alive(c)))
    /\ \/ Alive(c) /\ ~revoked /\ Ends(c, [at |-> "answered"])
       \/ Alive(c) /\ ~revoked /\ \E s \in {Unwrapped} \cup (Permanent \ {401}) : Fails(c, s)
       \/ (~Alive(c) \/ revoked) /\ Fails(c, 401)
    /\ UNCHANGED <<step, token, until, gathered, closed, revoked>>

\* No answer; then 429, 502, 503 or 504, with a Retry-After that int() may not read.
AskAgain(c) ==
    /\ call[c].at = "send" /\ ~closed
    /\ \/ call[c].attempt = Attempts /\ Fails(c, Network)
       \/ Ends(c, [call[c] EXCEPT !.at = "sleep"])
       \/ Fails(c, Unwrapped)
    /\ UNCHANGED <<step, token, until, gathered, closed, revoked, stale>>

Wake(c) ==
    /\ call[c].at = "sleep"
    /\ IF call[c].attempt = Attempts THEN Fails(c, 503)
       ELSE Ends(c, Sending(call[c].token, call[c].attempt + 1))
    /\ UNCHANGED <<step, token, until, gathered, closed, revoked, stale>>

\* A request on a client that is closed.
Refused(c) ==
    /\ closed /\ call[c].at \in {"start", "send"}
    /\ call[c].at = "start" => token = Absent \/ until <= step
    /\ Ends(c, [at |-> "failed", status |-> Unwrapped, attempt |-> 0])
    /\ UNCHANGED <<step, token, until, gathered, closed, revoked, stale>>
-----------------------------------------------------------------------------
(* gather: the first failure is raised, and the other calls are not stopped. *)

Raise ==
    /\ gathered = "open"
    /\ (\E c \in Call : HasFailed(c)) /\ gathered' = "raised"
    /\ UNCHANGED <<step, token, until, call, closed, revoked, stale>>

Return ==
    /\ gathered = "open" /\ \A c \in Call : call[c].at = "answered"
    /\ gathered' = "returned"
    /\ UNCHANGED <<step, token, until, call, closed, revoked, stale>>

\* The run is over, one way or the other.
Close ==
    /\ gathered # "open" /\ ~closed /\ closed' = TRUE
    /\ UNCHANGED <<step, token, until, call, gathered, revoked, stale>>

Revoke ==
    /\ ~revoked /\ revoked' = TRUE
    /\ UNCHANGED <<step, token, until, call, gathered, closed, stale>>

\* A token arrives within the timeout; the server checks a request's token as it comes in.
Pass ==
    /\ step < LastStep /\ step' = step + 1
    /\ \A c \in Call :
          call[c].at # "send" /\ (call[c].at = "fetch" => call[c].since = step)
    /\ UNCHANGED <<token, until, call, gathered, closed, revoked, stale>>

ClientNext ==
    \/ \E c \in Call :
          \/ UseCached(c) \/ AskToken(c) \/ TokenArrives(c) \/ TokenFails(c)
          \/ Answered(c) \/ AskAgain(c) \/ Wake(c) \/ Refused(c)
    \/ Raise \/ Return \/ Close \/ Revoke \/ Pass

ClientSpec == ClientInit /\ [][ClientNext]_clientVars
-----------------------------------------------------------------------------
\* capability_status, of the errors that are answers.
capability_status(status) ==
    CASE status \in {401, 403} -> "permission_denied" [] status = 404 -> "unsupported"
      [] status \in {402, 409} -> "feature_disabled" [] OTHER -> "upstream_error"

(* The first attempt of a call never uses a token that has ended, however   *)
(* the calls share the cached one.                                          *)
FirstUseIsAlive == ~stale

(* A source is shown as denied only where the server refuses it: a token    *)
(* that ends while a call waits to ask again is the one exception.          *)
DeniedIsRefused ==
    \A c \in Call :
       HasFailed(c) /\ capability_status(call[c].status) = "permission_denied"
          => revoked \/ call[c].status = 403 \/ call[c].attempt > 1

(* A gather that returned has every answer: none was lost to the close, and *)
(* none failed meanwhile.                                                   *)
ReturnedIsWhole == gathered = "returned" => \A c \in Call : call[c].at = "answered"

ClientInv == ClientTypeOK /\ FirstUseIsAlive /\ DeniedIsRefused /\ ReturnedIsWhole
=============================================================================
