-------------------------- MODULE PolicySelectors --------------------------
(***************************************************************************)
(* The access rules of a policy against the inventory: the expansion of    *)
(* selectors, the relationships the rules permit and the exposure review.  *)
(* A selector is [kind, name], a destination is [sel, port] with port      *)
(* "none", "*" or a number.                                                *)
(***************************************************************************)
EXTENDS Naturals, Sequences, FiniteSets, SequencesExt, FiniteSetsExt

CONSTANTS
    Device,
    Owner,          \* Owner[d]: the login of the owner, if it has one
    Tags,           \* Tags[d]
    Infrastructure, \* devices whose primary role is exit node, router or service host
    Large, Larger,  \* 10 and 25 pairs in the code
    FindingLimit    \* 500 in the code

Found(ids) == [ids |-> ids, status |-> "fully_evaluated"]
Failed(ids, status) == [ids |-> ids, status |-> status]

\* A login or a display name that owns no device is looked up as a host.
Named(name, policy) ==
    LET owned == {d \in Device : Owner[d] = name}
    IN CASE owned # {} -> Found(owned)
         [] owned = {} /\ name \in DOMAIN policy.hosts -> Found({policy.hosts[name]} \cap Device)
         [] OTHER -> Failed({}, "unresolved_selector")

AutoGroup(name) ==
    CASE name = "member" -> Found(Device)
      [] name = "tagged" -> Found({d \in Device : Tags[d] # {}})
      [] OTHER -> Failed({}, "unsupported_construct")

\* Mutated: each member replaces what the ones before it gave.
MembersOverwrite(parts) ==
    IF parts = <<>> THEN Found({}) ELSE parts[Len(parts)]
\* The members of a group up to the first that cannot be expanded.
Members(parts) ==
    LET bad == {i \in DOMAIN parts : parts[i].status # "fully_evaluated"}
        last == IF bad = {} THEN Len(parts) ELSE Min(bad)
    IN [ids |-> UNION {parts[i].ids : i \in 1 .. last},
        status |-> IF bad = {} THEN "fully_evaluated" ELSE parts[last].status]

\* A selector that has no members; a group without a list of them fails.
Matching(s, policy) ==
    CASE s.kind = "all" -> Found(Device)
      [] s.kind = "tag" -> Found({d \in Device : s.name \in Tags[d]})
      [] s.kind = "autogroup" -> AutoGroup(s.name)
      [] s.kind = "name" -> Named(s.name, policy)
      [] OTHER -> Failed({}, "unresolved_selector")

IsGroup(s, policy) == s.kind = "group" /\ s.name \in DOMAIN policy.groups

\* A selector and those that can be met below it.
Selectors(sel, policy) == {sel} \cup UNION {ToSet(policy.groups[g]) : g \in DOMAIN policy.groups}

\* expand_selector.
Expand(sel, policy) ==
    LET expand[s \in Selectors(sel, policy)] ==
          IF IsGroup(s, policy)
          THEN LET members == policy.groups[s.name]
               IN Members([i \in DOMAIN members |-> expand[members[i]]])
          ELSE Matching(s, policy)
    IN expand[sel]
-----------------------------------------------------------------------------
(* The relationships the rules permit.                                      *)

\* A port that is not split off stays part of the name.
Glued(sel) == [kind |-> IF sel.kind = "all" THEN "name" ELSE sel.kind, name |-> "with :*"]

\* Mutated: the port is not split off.
UnsplitDestination(dst) == IF dst.port = "none" THEN dst.sel ELSE Glued(dst.sel)
EvaluatedDestination(dst) == IF dst.port = "*" THEN Glued(dst.sel) ELSE dst.sel

RelationStatus(a, b) == IF a # "fully_evaluated" THEN a ELSE b

Rules(policy) == policy.grants \o policy.acls

\* evaluate_policy: what rule i of grants and ACLs together permits.
RuleRelations(i, policy) ==
    LET rule == Rules(policy)[i]
    IN UNION {LET from == Expand(rule.src[s], policy)
                  to == Expand(EvaluatedDestination(rule.dst[t]), policy)
              IN {[rule_index |-> i, source |-> a, destination |-> b, posture |-> rule.posture.names,
                   status |-> RelationStatus(from.status, to.status)] : a \in from.ids, b \in to.ids}
              : s \in DOMAIN rule.src, t \in DOMAIN rule.dst}

Relations(policy) == UNION {RuleRelations(i, policy) : i \in DOMAIN Rules(policy)}
-----------------------------------------------------------------------------
(* The exposure review.                                                     *)

Broad(sel) ==
    \/ sel.kind = "all"
    \/ sel.kind = "autogroup" /\ sel.name \in {"member", "shared", "tagged"}
Sensitive(sel) == sel.kind = "tag" /\ sel.name = "prod"

Finding(kind, severity, section, i) ==
    [kind |-> kind, severity |-> severity, section |-> section, index |-> i]

If(condition, finding) == IF condition THEN <<finding>> ELSE <<>>

\* A grant without IP permissions is not reviewed further.
Skipped(rule, section) == section = "grants" /\ rule.ip = {}

Unrestricted(rule, section) ==
    IF section = "acls"
    THEN ~rule.proto /\ \E t \in DOMAIN rule.dst : rule.dst[t].port \in {"*", "none"}
    ELSE "*" \in rule.ip

\* _acl_destination_selector; the destination of a grant is taken as it is written.
ReviewedDestination(dst, section) ==
    IF section = "acls" \/ dst.port = "none" THEN dst.sel ELSE Glued(dst.sel)

\* Both sides of a rule as the review expands them.
Sides(rule, section, policy) ==
    LET from == {Expand(rule.src[s], policy) : s \in DOMAIN rule.src}
        to == {Expand(ReviewedDestination(rule.dst[t], section), policy) : t \in DOMAIN rule.dst}
    IN [from |-> UNION {e.ids : e \in from}, to |-> UNION {e.ids : e \in to},
        complete |-> \A e \in from \cup to : e.status = "fully_evaluated"]

Pairs(sides) == {p \in sides.from \X sides.to : p[1] # p[2]}

AtLeast(n, bound) == n >= bound

\* The findings of rule i of a section, in the order they are added.
RuleFindings(rule, section, i, policy) ==
    LET sides == Sides(rule, section, policy)
        to == [t \in DOMAIN rule.dst |-> ReviewedDestination(rule.dst[t], section)]
        open == Unrestricted(rule, section)
        broadFrom == \E s \in DOMAIN rule.src : Broad(rule.src[s])
        broadTo == \E t \in DOMAIN to : Broad(to[t])
        everywhere(sels) == \E k \in DOMAIN sels : sels[k].kind = "all"
        global == open /\ everywhere(rule.src) /\ everywhere(to)
        n == Cardinality(Pairs(sides))
        sensitive == \/ \E t \in DOMAIN rule.dst : Sensitive(rule.dst[t].sel)
                     \/ sides.to \cap Infrastructure # {}
        rated == IF open THEN "high" ELSE "medium"
    IN IF Skipped(rule, section) THEN <<>>
       ELSE If(global, Finding("global", "critical", section, i))
              \o If(~global /\ broadFrom, Finding("broad_source", rated, section, i))
              \o If(~global /\ broadTo, Finding("broad_destination", rated, section, i))
              \o If(~global /\ open /\ AtLeast(n, Large),
                    Finding("lateral", IF n >= Larger THEN "high" ELSE "medium", section, i))
              \o If(broadFrom /\ sensitive /\ rule.posture.names = <<>>,
                    Finding("no_posture", "medium", section, i))

SectionFindings(rules, section, policy) ==
    FlattenSeq([i \in DOMAIN rules |-> RuleFindings(rules[i], section, i, policy)])

SshFindings(rules) ==
    LET anyBroad(sels) == \E k \in DOMAIN sels : Broad(sels[k])
        risky(r) == r.users \cap {"root", "nonroot", "*"}
        one(i, r) == If(r.accept /\ (anyBroad(r.src) \/ anyBroad(r.dst) \/ risky(r) # {}),
                        Finding("ssh", IF "root" \in r.users \/ anyBroad(r.dst) THEN "high" ELSE "medium",
                                "ssh", i))
    IN FlattenSeq([i \in DOMAIN rules |-> one(i, rules[i])])

\* Tag owners and automatic approvers: sequences of lists of selectors.
AuthorityFindings(lists, section) ==
    FlattenSeq([i \in DOMAIN lists |->
                  If(\E k \in DOMAIN lists[i] : Broad(lists[i][k]), Finding("authority", "high", section, i))])

Truncated(all) == Len(all) >= FindingLimit

\* security_review_policy: what is added beyond the limit is dropped, and the
\* rest is put in order of severity for the page.
SecurityReview(policy) ==
    LET all == SectionFindings(policy.grants, "grants", policy)
                 \o SectionFindings(policy.acls, "acls", policy)
                 \o SshFindings(policy.ssh)
                 \o AuthorityFindings(policy.tagOwners, "tagOwners")
                 \o AuthorityFindings(policy.autoApprovers, "autoApprovers")
    IN [findings |-> ToSet(SubSeq(all, 1, Min({Len(all), FindingLimit}))),
        truncated |-> Truncated(all),
        reviewed |-> Len(policy.grants) + Len(policy.acls) + Len(policy.ssh),
        incomplete |-> Cardinality({i \in DOMAIN Rules(policy) :
                          LET rule == Rules(policy)[i]
                              section == IF i <= Len(policy.grants) THEN "grants" ELSE "acls"
                          IN ~Skipped(rule, section) /\ ~Sides(rule, section, policy).complete})]
=============================================================================
