---------------------------- MODULE MCDecisions ----------------------------
(* Two brains, up to four requests *)
EXTENDS Decisions, TLC

CONSTANTS b1, b2, r1, r2, r3, r4

MCBrains == {b1, b2}
MCRequests == {r1, r2, r3, r4}

W(w, x, y, z) ==
    [kind |-> (r1 :> w) @@ (r2 :> x) @@ (r3 :> y) @@ (r4 :> z), consent |-> {}, stored |-> {},
     where |-> (b1 :> {"local"}) @@ (b2 :> {"local"}), results |-> {"opinion"}, fallback |-> FALSE,
     faults |-> 0, crashes |-> 0, drops |-> FALSE]

MCScenarios ==
    { \* stops of every kind against a run and its continuation
      [W("start", "pause", "continue", "cancel") EXCEPT !.results = {"opinion", "fatal"}],
      [W("start", "interject", "continue", "continue") EXCEPT !.crashes = 1],
      \* retries, the fallback, failing statements
      [W("start", "continue", "cancel", "unused") EXCEPT !.results = Results, !.fallback = TRUE, !.faults = 1],
      [W("start", "pause", "continue", "unused") EXCEPT !.results = {"opinion", "retryable"}, !.faults = 2],
      \* dropped handlers and a restart
      [W("start", "pause", "continue", "unused") EXCEPT !.drops = TRUE, !.crashes = 1],
      \* consent given and withdrawn between sessions; one brain is external
      [W("start", "refresh", "continue", "continue") EXCEPT !.results = {"opinion", "fatal"}, !.consent = BOOLEAN,
         !.stored = {TRUE}, !.where = (b1 :> Locations) @@ (b2 :> {"external"})] }
=============================================================================
