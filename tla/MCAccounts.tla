----------------------------- MODULE MCAccounts -----------------------------
EXTENDS Accounts, TLC
CONSTANTS alice, bob, b1, b2, s1, s2
Row(role, change, mfa) == [role |-> role, active |-> TRUE, must_change |-> change, mfa |-> mfa]
Plain(role) == Row(role, FALSE, FALSE)
Scenario(ops, n, rows_, cookies, users) ==
    [ops |-> ops, requests |-> n, account |-> rows_, cookie |-> cookies, who |-> users]
Signed2 == (b1 :> s1) @@ (b2 :> s2)
Out == (b1 :> None) @@ (b2 :> None)
Same == (b1 :> alice) @@ (b2 :> alice)
Both == (b1 :> alice) @@ (b2 :> bob)
Admins == (alice :> Plain("administrator")) @@ (bob :> Plain("administrator"))
Mixed == (alice :> Plain("administrator")) @@ (bob :> Row("viewer", TRUE, FALSE))
Factor == alice :> Row("administrator", FALSE, TRUE)
MCScenarios ==
    {Scenario({"setup", "login", "me"}, 3, <<>>, Out, Both),
     Scenario({"login", "verify", "disable"}, 5, Factor, Out, Both),
     Scenario({"update_user", "create_user", "login"}, 4, Admins, Signed2, Both),
     Scenario({"enroll", "confirm", "disable", "codes", "me"}, 4, alice :> Plain("administrator"), Signed2, Same),
     Scenario({"enroll", "confirm", "reset_mfa"}, 4, Admins, Signed2, Both),
     Scenario({"logout", "revoke", "revoke_others", "password", "me"}, 3, Factor, Signed2, Same),
     Scenario({"revoke_user", "revoke_session", "reset_password", "password"}, 3, Mixed, Signed2, Both),
     Scenario({"policy", "me", "confirm", "password"}, 3, Mixed, Signed2, Both),
     Scenario({"policy", "update_user"}, 3, Admins, Signed2, Both)}
=============================================================================
