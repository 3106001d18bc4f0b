------------------------- MODULE MCPolicyEvaluation -------------------------
EXTENDS PolicyEvaluation, PostureEvaluation, PolicyDuplicates
CONSTANTS d1, d2, d3, None

MCOwner == (d1 :> "alice") @@ (d2 :> "bob") @@ (d3 :> None)
MCTags == (d1 :> {}) @@ (d2 :> {}) @@ (d3 :> {"prod"})

Sel(kind, name) == [kind |-> kind, name |-> name]
All == Sel("all", "all")
Group(name) == Sel("group", name)
\* carol is a user who owns no device.
Logins == {Sel("name", n) : n \in {"alice", "bob", "carol"}}
MCSelectors ==
    {All, Group("eng"), Group("gone"), Sel("tag", "prod"), Sel("autogroup", "tagged"),
     Sel("autogroup", "shared"), Sel("name", "alice"), Sel("name", "carol"), Sel("name", "printer")}
Groups ==
    {[g \in {"eng", "ops"} |-> IF g = "eng" THEN e ELSE <<Sel("name", "bob")>>] :
        e \in SeqOf(Logins \cup {Group("ops")}, 2)}
MCName == {s.name : s \in MCSelectors \cup Logins} \cup {"ops", "with :*"}
Hosts == {<<>>, "printer" :> d2}
NoPosture == [list |-> FALSE, names |-> <<>>]
OnePosture == [list |-> TRUE, names |-> <<"p">>]
RuleOf(src, dst, ip, proto, posture) ==
    [src |-> src, dst |-> dst, ip |-> ip, proto |-> proto, posture |-> posture]
Policy(groups, hosts, grants, acls) ==
    [groups |-> groups, hosts |-> hosts, grants |-> grants, acls |-> acls,
     ssh |-> <<>>, tagOwners |-> <<>>, autoApprovers |-> <<>>]

Grants ==
    {Policy(g, "printer" :> d2, <<RuleOf(<<s>>, <<[sel |-> t, port |-> "none"]>>, ip, FALSE, NoPosture)>>, <<>>) :
        g \in Groups, s \in MCSelectors, t \in MCSelectors, ip \in {{}, {"443"}, {"*"}}}
Acls ==
    {Policy(g, h, <<>>, <<RuleOf(<<s>>, <<[sel |-> t, port |-> port]>>, {}, proto, OnePosture)>>) :
        g \in {x \in Groups : Len(x["eng"]) = 2 /\ x["eng"][1] = Group("ops")}, h \in Hosts, s \in MCSelectors, t \in MCSelectors,
        port \in {"none", "*", "443"}, proto \in BOOLEAN}
\* The review does not split the port off the destination of a grant.
PortedGrants ==
    {Policy(g, "printer" :> d2, <<RuleOf(<<s>>, <<[sel |-> t, port |-> port]>>, {"*"}, FALSE, NoPosture)>>, <<>>) :
        g \in {x \in Groups : Len(x["eng"]) = 2}, s \in {All, Group("eng")}, t \in MCSelectors,
        port \in {"*", "443"}}
Several ==
    LET open(s, t) == RuleOf(s, t, {"*"}, FALSE, NoPosture)
        to(s) == [sel |-> s, port |-> "none"]
        eng == [g \in {"eng"} |-> <<Sel("name", "carol"), Sel("name", "bob")>>]
    IN {[Policy(eng, <<>>, <<open(<<a, b>>, <<to(All)>>), open(<<b>>, <<to(c), to(a)>>)>>,
                <<RuleOf(<<a>>, <<[sel |-> b, port |-> "*"]>>, {}, FALSE, NoPosture)>>)
           EXCEPT !.ssh = <<[accept |-> ok, src |-> <<a>>, dst |-> <<b>>, users |-> users]>>,
                  !.tagOwners = <<<<a>>, <<b>>>>, !.autoApprovers = <<<<c>>>>] :
           a \in MCSelectors, b \in MCSelectors, c \in {All, Sel("tag", "prod")}, ok \in BOOLEAN,
           users \in {{}, {"root"}, {"nonroot"}}}
MCPolicies == Grants \cup PortedGrants \cup Acls \cup Several

Val(type, val) == [type |-> type, val |-> val]
Nothing == Val("unreadable", 0)
Cond(key, op, expected) == [key |-> key, op |-> op, expected |-> expected]
Conditions ==
    {Cond("managed", "IS SET", Nothing), Cond("managed", "NOT SET", Nothing),
     Cond("managed", "==", Val("bool", TRUE)), Cond("managed", "!=", Val("number", 1)),
     Cond("managed", "IN", Val("list", <<Val("number", 0), Val("bool", TRUE)>>)),
     Cond("managed", "NOT IN", Val("number", 1)), Cond("managed", ">=", Val("number", 1)),
     Cond("score", ">=", Val("number", 2)), Cond("score", "==", Nothing),
     Cond("version", "<", Val("version", <<1, 10>>)),
     Cond("address", "NOT IN", Val("list", <<Val("network", {1}), Val("text", "x")>>)),
     Cond("address", "unreadable", Nothing)}
PostureOf(cs) == [list |-> TRUE, conditions |-> cs]
NotAList == [list |-> FALSE, conditions |-> <<>>]
Attributes ==
    {[k \in have |-> [expiry |-> e, value |->
         CASE k = "managed" -> Val("bool", m) [] k = "score" -> Val("number", 2)
           [] k = "version" -> Val("version", v) [] k = "address" -> Val("address", a)]] :
        have \in {{}, {"managed"}, {"managed", "score", "version", "address"}},
        e \in {0, 1, 2, 3}, m \in BOOLEAN, v \in {<<1, 9, 2>>, <<1, 10>>}, a \in {1, 2}}
Postures(p, q) == [n \in {"p", "q"} |-> IF n = "p" THEN p ELSE q]
RuleWith(posture) == [posture |-> posture]
Rules2 == <<RuleWith([list |-> TRUE, names |-> <<"p", "q">>]), RuleWith([list |-> TRUE, names |-> <<"gone">>]),
            RuleWith(NoPosture), RuleWith([list |-> TRUE, names |-> <<>>])>>
MCPostureInputs ==
    {[postures |-> Postures(p, q), default |-> OnePosture, rules |-> Rules2, attributes |-> a,
      evidence |-> e, device |-> [router |-> r, external |-> FALSE]] :
        p \in {PostureOf(<<c>>) : c \in Conditions},
        q \in {PostureOf(<<Cond("score", "IS SET", Nothing), Cond("managed", "==", Val("bool", TRUE))>>),
               PostureOf(<<>>), NotAList},
        a \in Attributes, e \in {"available", "stale", "unknown"}, r \in BOOLEAN}

Plain(x) == [kind |-> "scalar", of |-> x]
List(s) == [kind |-> "list", items |-> s]
Object(keys, s) == [kind |-> "object", keys |-> keys, items |-> s]
Scalars == {Plain("a"), Plain("b")}
Flat == {List(s) : s \in SeqOf(Scalars, 2)}
Entries == Scalars \cup Flat \cup {Object(<<"src">>, <<l>>) : l \in Flat}
Sections == {List(s) : s \in SeqOf(Entries, 2)} \cup {List(<<List(s), List(t)>>) : s, t \in SeqOf(Scalars \cup Flat, 2)}
MCDocuments ==
    {Object(<<"acls">>, <<s>>) : s \in Sections}
    \cup {Object(<<"acls", "custom">>, <<s, t>>) : s \in Flat, t \in {List(u) : u \in SeqOf(Entries, 2)}}
=============================================================================
