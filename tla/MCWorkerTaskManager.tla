------------------------- MODULE MCWorkerTaskManager -------------------------
(* Two conversations, up to four calls *)
EXTENDS WorkerTaskManager, TLC

CONSTANTS q1, q2, q3, q4, a, b

C(kind, conv, num) == [kind |-> kind, conv |-> conv, num |-> num]
W(w, x, y, z, lim, memory, fails, drops, leases) ==
    [call |-> (q1 :> w) @@ (q2 :> x) @@ (q3 :> y) @@ (q4 :> z), limit |-> lim, memory |-> memory,
     fails |-> fails, drops |-> drops, leased |-> leases]

MCReqs == {q1, q2, q3, q4}
MCConvs == {a, b}

MCScenarios ==
    { W(C("build", a, 0), C("build", a, 1), C("kill", a, 0), C("killwait", a, 0), 2, {"normal"}, FALSE, TRUE, {}),
      W(C("build", a, 1), C("build", b, 0), C("build", b, 1), C("scan", a, 0), 1, {"normal", "high"}, TRUE, FALSE, {a}),
      W(C("build", a, 0), C("build", b, 0), C("configure", a, 1), C("build", a, 1), 2, {"normal", "pressed"}, FALSE, TRUE, {}),
      W(C("build", a, 0), C("build", b, 0), C("clear", a, 0), C("killwait", b, 0), 1, {"normal"}, TRUE, TRUE, {}) }
=============================================================================
