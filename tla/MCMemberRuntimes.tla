-------------------------- MODULE MCMemberRuntimes --------------------------
(* One member, up to four requests *)
EXTENDS MemberRuntimes, TLC

CONSTANTS q1, q2, q3, q4

W(a, b, c, d, st, f, dr) ==
    [kind |-> (q1 :> a) @@ (q2 :> b) @@ (q3 :> c) @@ (q4 :> d), stored |-> st, faults |-> f, drops |-> dr]

MCReqs == {q1, q2, q3, q4}

MCScenarios ==
    { W("ensure", "stop", "ensure", "remove", TRUE, {"vanish"}, FALSE),
      W("ensure", "add", "stop", "ensure", FALSE, {"warmup"}, FALSE),
      W("ensure", "add", "remove", "ensure", FALSE, {"db"}, FALSE),
      W("ensure", "add", "remove", "stop", FALSE, {}, TRUE),
      W("ensure", "add", "ensure", "ensure", FALSE, {"db", "vanish"}, FALSE),
      W("ensure", "remove", "remove", "ensure", TRUE, {"load", "db"}, FALSE),
      W("ensure", "remove", "remove", "ensure", TRUE, {}, TRUE),
      W("ensure", "ensure", "remove", "stop", TRUE, {"warmup", "vanish"}, FALSE),
      W("ensure", "ensure", "ensure", "stop", TRUE, {"vanish"}, TRUE),
      W("ensure", "idle", "ensure", "ensure", TRUE, {"vanish", "warmup"}, FALSE),
      W("ensure", "idle", "ensure", "remove", TRUE, {"db"}, FALSE) }
=============================================================================
