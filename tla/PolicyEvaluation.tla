-------------------------- MODULE PolicyEvaluation --------------------------
(***************************************************************************)
(* The readers of the current policy: the relationships and the reviews of *)
(* a policy against the inventory.  All of them are pure: an input is      *)
(* chosen, and evaluated once.                                             *)
(***************************************************************************)
EXTENDS PolicySelectors

CONSTANTS
    Name,       \* what may be written as the name of a selector
    Policies,   \* [groups, hosts, grants, acls, ssh, tagOwners, autoApprovers]
    NoResult    \* nothing is evaluated yet

Kinds == {"all", "tag", "autogroup", "name", "group"}
Selector == [kind : Kinds, name : Name]
Destination == [sel : Selector, port : STRING]
PostureList == [list : BOOLEAN, names : Seq(STRING)]
Rule == [src : Seq(Selector), dst : Seq(Destination), ip : SUBSET STRING, proto : BOOLEAN,
         posture : PostureList]

\* No group contains itself: the code calls itself for the members of a group
\* and would not return.
GroupsEnd(groups) ==
    \E depth \in [DOMAIN groups -> 0 .. Cardinality(DOMAIN groups)] :
       \A g \in DOMAIN groups : \A s \in ToSet(groups[g]) :
          s.kind = "group" /\ s.name \in DOMAIN groups => depth[s.name] < depth[g]

\* A login, a tag, a group or a host may have any name, but none that ends in
\* a wildcard port.
PolicyAssumption ==
    /\ IsFiniteSet(Device) /\ FindingLimit \in Nat /\ Large \in Nat
    /\ "with :*" \in Name /\ \A d \in Device : Owner[d] # "with :*" /\ "with :*" \notin Tags[d]
    /\ \A p \in Policies :
          /\ IsFiniteSet(DOMAIN p.groups) /\ GroupsEnd(p.groups)
          /\ \A g \in DOMAIN p.groups : p.groups[g] \in Seq(Selector)
          /\ "with :*" \notin DOMAIN p.groups \cup DOMAIN p.hosts
          /\ p.grants \in Seq(Rule) /\ p.acls \in Seq(Rule)
          /\ \A f \in {"ssh", "tagOwners", "autoApprovers"} : p[f] \in Seq(ToSet(p[f]))
ASSUME PolicyAssumption

VARIABLES input, result
policyVars == <<input, result>>

PolicyInit == input \in Policies /\ result = NoResult

ReadPolicy ==
    /\ result = NoResult
    /\ result' = [relations |-> Relations(input), review |-> SecurityReview(input)]
    /\ UNCHANGED input

PolicySpec == PolicyInit /\ [][ReadPolicy]_policyVars
-----------------------------------------------------------------------------
\* What a selector stands for, said without the order of evaluation.
Stands(sel, policy, d) ==
    \/ sel.kind = "all"
    \/ sel.kind = "tag" /\ sel.name \in Tags[d]
    \/ sel.kind = "autogroup" /\ (sel.name = "member" \/ (sel.name = "tagged" /\ Tags[d] # {}))
    \/ sel.kind = "name" /\ Owner[d] = sel.name
    \/ /\ sel.kind = "name" /\ \A e \in Device : Owner[e] # sel.name
       /\ sel.name \in DOMAIN policy.hosts /\ policy.hosts[sel.name] = d

\* The selectors that a selector reaches through the members of groups.
Reached(sel, policy) ==
    LET all == Selectors(sel, policy)
        closed == {C \in SUBSET all : \A s \in C :
                     IsGroup(s, policy) => ToSet(policy.groups[s.name]) \subseteq C}
    IN {s \in all : \A C \in closed : sel \in C => s \in C}

Meaning(sel, policy) == {d \in Device : \E s \in Reached(sel, policy) : Stands(s, policy, d)}

RulePairs(i) ==
    {<<r.source, r.destination>> : r \in {q \in result.relations :
        q.rule_index = i /\ q.source # q.destination}}

Section(i, policy) == IF i <= Len(policy.grants) THEN "grants" ELSE "acls"

\* What evaluate_policy permits lies within the meaning of the selectors of the
\* rule, and is all of it when it says fully evaluated (policy.py:660).
PermitsWhatTheRuleMeans ==
    result # NoResult =>
       \A i \in DOMAIN Rules(input) :
          LET p == input
              rule == Rules(p)[i]
              rows == {r \in result.relations : r.rule_index = i}
              means(sels) == UNION {Meaning(sels[k], p) : k \in DOMAIN sels}
              to == [t \in DOMAIN rule.dst |-> rule.dst[t].sel]
              full == \E w \in rows : w.status = "fully_evaluated"
          IN /\ \A r \in rows : r.source \in means(rule.src) /\ r.destination \in means(to)
             /\ (full /\ Len(rule.src) = 1 /\ Len(rule.dst) = 1)
                   => {<<w.source, w.destination>> : w \in rows} = means(rule.src) \X means(to)

\* Only the relationships split a port of digits off a grant (policy.py:402), and
\* only the review a wildcard port off an ACL (policy.py:721 and 314).
Ported(rule, section) ==
    section = "grants" /\ \E t \in DOMAIN rule.dst : rule.dst[t].port \notin {"none", "*"}
Starred(rule, section) == section = "acls" /\ \E t \in DOMAIN rule.dst : rule.dst[t].port = "*"

\* The relationships and the exposure review expand the same rule to the same
\* pairs, but for those two kinds of ports.
RelationsMatchReview ==
    result # NoResult =>
       \A i \in DOMAIN Rules(input) :
          LET rule == Rules(input)[i]
              section == Section(i, input)
          IN ~Ported(rule, section) /\ ~Starred(rule, section)
                => RulePairs(i) = Pairs(Sides(rule, section, input))

\* An unrestricted rule that permits a large number of pairs is in the review,
\* or the review says that it is cut (policy.py:362 and 491), but for a grant
\* with a port.
ExposureIsReported ==
    result # NoResult =>
       \A i \in DOMAIN Rules(input) :
          LET p == input
              section == Section(i, p)
              index == IF section = "grants" THEN i ELSE i - Len(p.grants)
          IN /\ Unrestricted(Rules(p)[i], section) /\ ~Ported(Rules(p)[i], section)
             /\ Cardinality(RulePairs(i)) >= Large
             => \/ result.review.truncated
                \/ \E f \in result.review.findings :
                      f.section = section /\ f.index = index /\ f.kind \in {"global", "lateral"}

\* The review misses nothing that the relationships show.
ReviewInv == RelationsMatchReview /\ ExposureIsReported
=============================================================================
