------------------------- MODULE PostureEvaluation -------------------------
(***************************************************************************)
(* Device posture against the current policy: conditions over attributes,  *)
(* postures as conjunctions of conditions, rules as disjunctions of        *)
(* postures, and the summary a device page shows.  A value is a record     *)
(* [type, val]; a condition is [key, op, expected]; an attribute is [value, *)
(* expiry], with expiry 0 when it has none.                                *)
(***************************************************************************)
EXTENDS Integers, Sequences, SequencesExt

CONSTANTS
    Now,            \* the instant of the evaluation
    VersionKeys,    \* node:osVersion and node:tsVersion
    AddressKey,     \* ip:publicAddress
    PostureInputs,  \* [postures, default, rules, attributes, evidence, device]
    NoPayload       \* nothing is evaluated yet

VARIABLES subject, payload  \* a device with all that is known of it; its posture

Given == {"postures", "default", "rules", "attributes", "evidence", "device"}
PostureAssumption ==
    /\ Now \in Int
    /\ \A in \in PostureInputs :
          /\ in = [f \in Given |-> in[f]]
          /\ \A k \in DOMAIN in.attributes : in.attributes[k].expiry \in Int
ASSUME PostureAssumption

postureVars == <<subject, payload>>

\* Python compares booleans and numbers by value.
Number(v) == IF v.type = "bool" THEN (IF v.val THEN 1 ELSE 0) ELSE v.val
Numeric(v) == v.type \in {"number", "bool"}
SameValue(a, b) ==
    \/ Numeric(a) /\ Numeric(b) /\ Number(a) = Number(b)
    \/ a.type = b.type /\ ~Numeric(a) /\ a.val = b.val

\* Versions are sequences of numbers, compared part by part.
VersionBelow(a, b) ==
    \E i \in 1 .. Len(b) :
       /\ \A j \in 1 .. i - 1 : j \in DOMAIN a /\ a[j] = b[j]
       /\ i > Len(a) \/ a[i] < b[i]

Compared(op, below, same) ==
    CASE op = "<" -> below
      [] op = "<=" -> below \/ same
      [] op = ">" -> ~below /\ ~same
      [] op = ">=" -> ~below

Verdict(passed) == IF passed THEN "pass" ELSE "fail"

\* The first listed network that matches or cannot be read decides.
AddressVerdict(actual, networks) ==
    LET hit == {i \in DOMAIN networks :
                  networks[i].type # "network" \/ actual.val \in networks[i].val}
        first == CHOOSE i \in hit : \A j \in hit : i <= j
    IN CASE actual.type # "address" -> "unsupported_condition"
         [] actual.type = "address" /\ hit = {} -> "fail"
         [] OTHER -> IF networks[first].type = "network" THEN "pass" ELSE "unsupported_condition"

Opposite(status) ==
    CASE status = "pass" -> "fail" [] status = "fail" -> "pass" [] OTHER -> status

Among(c, actual) ==
    CASE c.expected.type # "list" -> "unsupported_condition"
      [] c.expected.type = "list" /\ c.key = AddressKey -> AddressVerdict(actual, c.expected.val)
      [] OTHER -> Verdict(\E i \in DOMAIN c.expected.val : SameValue(actual, c.expected.val[i]))

Ordered(c, actual) ==
    CASE c.key \in VersionKeys ->
            Verdict(Compared(c.op, VersionBelow(actual.val, c.expected.val), actual.val = c.expected.val))
      [] c.key \notin VersionKeys /\ actual.type = "number" /\ c.expected.type = "number" ->
            Verdict(Compared(c.op, actual.val < c.expected.val, actual.val = c.expected.val))
      [] OTHER -> "unsupported_condition"

\* An attribute that is set, against a condition that was read.
Judged(c, actual) ==
    CASE c.expected.type = "unreadable" -> "unsupported_condition"
      [] c.expected.type # "unreadable" /\ c.op = "IN" -> Among(c, actual)
      [] c.expected.type # "unreadable" /\ c.op = "NOT IN" -> Opposite(Among(c, actual))
      [] c.expected.type # "unreadable" /\ c.op = "==" -> Verdict(SameValue(actual, c.expected))
      [] c.expected.type # "unreadable" /\ c.op = "!=" -> Verdict(~SameValue(actual, c.expected))
      [] OTHER -> Ordered(c, actual)

\* Mutated: an attribute that is absent is judged without evidence.
ConditionEagerly(c, usable, available) ==
    CASE c.op = "unreadable" -> "unsupported_condition"
      [] c.op = "IS SET" -> Verdict(c.key \in DOMAIN usable)
      [] c.op = "NOT SET" -> Verdict(c.key \notin DOMAIN usable)
      [] c.op \notin {"unreadable", "IS SET", "NOT SET"} /\ ~available -> "incomplete_data"
      [] OTHER -> IF c.key \in DOMAIN usable THEN Judged(c, usable[c.key].value) ELSE "fail"

\* evaluate_posture_condition.
Condition(c, usable, available) ==
    CASE c.op = "unreadable" -> "unsupported_condition"
      [] c.op # "unreadable" /\ ~available -> "incomplete_data"
      [] available /\ c.op = "IS SET" -> Verdict(c.key \in DOMAIN usable)
      [] available /\ c.op = "NOT SET" -> Verdict(c.key \notin DOMAIN usable)
      [] OTHER -> IF c.key \in DOMAIN usable THEN Judged(c, usable[c.key].value) ELSE "fail"

Expires(a) == a.expiry # 0

\* Expired attributes are as good as absent.
Usable(attributes) ==
    [k \in {a \in DOMAIN attributes : Expires(attributes[a]) => attributes[a].expiry > Now}
       |-> attributes[k]]

\* evaluate_device_postures, one posture: a list of conditions, or no list.
Posture(p, attributes, available, applicable) ==
    LET each == [i \in DOMAIN p.conditions |-> Condition(p.conditions[i], Usable(attributes), available)]
        statuses == ToSet(each)
    IN [assertions |-> each,
        status |->
          CASE ~applicable -> "not_applicable"
            [] applicable /\ ~available -> "incomplete_data"
            [] applicable /\ available /\ (~p.list \/ "unsupported_condition" \in statuses) ->
                 "unsupported_condition"
            [] OTHER -> Verdict(statuses \subseteq {"pass"})]

\* required_postures_for_rule: anything but a list counts as not given.
Required(rule, default) ==
    IF rule.posture.list THEN rule.posture.names
    ELSE IF default.list THEN default.names ELSE <<>>

\* _posture_applicable.
Applicable(device) == ~device.router /\ ~device.external

\* _posture_overall; evidence is the status of the posture state, or "none".
Overall(statuses, evidence) ==
    CASE evidence \notin {"available", "stale"} -> "incomplete_data"
      [] evidence \in {"available", "stale"} /\ statuses = {} -> "not_applicable"
      [] evidence \in {"available", "stale"} /\ "fail" \in statuses -> "fail"
      [] evidence \in {"available", "stale"} /\ "fail" \notin statuses
            /\ statuses \cap {"incomplete_data", "unsupported_condition"} # {} -> "incomplete_data"
      [] OTHER -> IF statuses = {"not_applicable"} THEN "not_applicable" ELSE "pass"

\* What a rule with required postures is worth to the device.
Impact(statuses, applicable) ==
    CASE ~applicable -> "not_applicable"
      [] applicable /\ "pass" \in statuses -> "pass"
      [] OTHER -> IF statuses \cap {"incomplete_data", "unsupported_condition"} # {}
                  THEN "incomplete_data" ELSE "fail"

\* What the device page says of an attribute: next to what was evaluated.
ShownExpired(a) == Expires(a) /\ a.expiry <= Now

\* _posture_payload for in = [postures, default, rules, attributes, evidence, device].
PosturePayload(in) ==
    LET available == in.evidence = "available"
        applicable == Applicable(in.device)
        result == [n \in DOMAIN in.postures |->
                     Posture(in.postures[n], in.attributes, available, applicable)]
        statusOf(n) == IF n \in DOMAIN result THEN result[n].status ELSE "unsupported_condition"
        named(i) == ToSet(Required(in.rules[i], in.default))
    IN [evaluations |-> result,
        overall |-> Overall({result[n].status : n \in DOMAIN result}, in.evidence),
        impacts |-> [i \in {r \in DOMAIN in.rules : named(r) # {}} |->
                       Impact({statusOf(n) : n \in named(i)}, applicable)],
        expired |-> {k \in DOMAIN in.attributes : ShownExpired(in.attributes[k])}]
-----------------------------------------------------------------------------
PostureInit == subject \in PostureInputs /\ payload = NoPayload

ReadPosture ==
    /\ payload = NoPayload
    /\ payload' = PosturePayload(subject)
    /\ UNCHANGED subject

PostureSpec == PostureInit /\ [][ReadPosture]_postureVars
-----------------------------------------------------------------------------
(* Correctness of a payload.                                                *)

\* Nothing passes and nothing fails on evidence that is not fresh
\* (docs/POLICY_ENGINE.md:16).
StaleEvidenceJudgesNothing ==
    payload # NoPayload /\ subject.evidence # "available" =>
       /\ payload.overall \notin {"pass", "fail"}
       /\ \A i \in DOMAIN payload.impacts : payload.impacts[i] \notin {"pass", "fail"}
       /\ \A n \in DOMAIN payload.evaluations :
             ToSet(payload.evaluations[n].assertions) \cap {"pass", "fail"} = {}

\* An attribute shown as expired counts for no condition: without it the device
\* is evaluated the same (policy.py:180 and api.py:378).
ExpiredCountsForNothing ==
    payload # NoPayload =>
       LET kept == DOMAIN subject.attributes \ payload.expired
           without == [subject EXCEPT !.attributes = [k \in kept |-> subject.attributes[k]]]
       IN PosturePayload(without).evaluations = payload.evaluations

\* A rule fails a device when every posture it requires fails, and passes when
\* one passes (docs/POLICY_ENGINE.md:16).
AnyPostureAdmits ==
    payload # NoPayload =>
       \A i \in DOMAIN payload.impacts :
          LET names == ToSet(Required(subject.rules[i], subject.default))
              says(n, status) == /\ n \in DOMAIN payload.evaluations
                                 /\ payload.evaluations[n].status = status
          IN /\ (payload.impacts[i] = "pass") = (\E n \in names : says(n, "pass"))
             /\ (payload.impacts[i] = "fail") = (\A n \in names : says(n, "fail"))

\* Posture is judged on evidence alone, and any of the required ones admits.
PostureInv == StaleEvidenceJudgesNothing /\ ExpiredCountsForNothing /\ AnyPostureAdmits
=============================================================================
