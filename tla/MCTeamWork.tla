----------------------------- MODULE MCTeamWork -----------------------------
(***************************************************************************)
(* TeamWork with a lead s1, the teammates s2 and s3 and up to five         *)
(* requests.  Each workload is small; together they exercise every source  *)
(* of work, every administrative operation, every fault and clients that   *)
(* go away.                                                                *)
(***************************************************************************)
EXTENDS TeamWork, TLC

CONSTANTS s1, s2, s3, r1, r2, r3, r4, r5

(* w gives kind, addressee and sender of the requests it names *)
Load(w, att, fs, os, ds) ==
    [kind |-> [r \in Reqs |-> IF r \in DOMAIN w THEN w[r][1] ELSE "unused"],
     to |-> [r \in Reqs |-> IF r \in DOMAIN w THEN w[r][2] ELSE s1],
     from |-> [r \in Reqs |-> IF r \in DOMAIN w THEN w[r][3] ELSE s1],
     attaching |-> att, faults |-> fs, ops |-> os, drops |-> ds]

One(k, s)    == r1 :> <<k, s, s2>>
And(k, s, f) == r2 :> <<k, s, f>>
Notes        == (r3 :> <<"idle", s1, s2>>) @@ (r4 :> <<"signal", s1, s2>>)
Leaves       == r5 :> <<"departure", s1, s2>>

(* two user messages to the lead while the database fails once *)
UserMessages == {Load(One("user", s1) @@ And("user", s1, s1), {}, {"db"}, {}, {})}

(* two teammates finish side by side: the last one wakes the lead *)
Teammates == Load(One("recovery", s2) @@ And("recovery", s3, s3) @@ Notes @@ (r5 :> <<"idle", s1, s3>>),
                  {}, {}, {}, {})

(* work of a run meets a left-over message in one batch: a run cancel keeps  *)
(* one of the two                                                           *)
MixedBatch == Load(One("user", s2) @@ And("agent", s1, s2) @@ (r3 :> <<"leftover", s1, s1>>),
                   {}, {}, {"cancel_run"}, {})

MCScenarios ==
    UserMessages \cup
    { Teammates, MixedBatch,
      \* a run cancel against a left-over message, a lost write, a skipped start
      Load(One("user", s1) @@ And("recovery", s1, s1), {}, {}, {"cancel_run"}, {r2, Admin}),
      Load(One("user", s1), {}, {"db"}, {"cancel_run"}, {r1}),
      Load(One("user", s1) @@ And("leftover", s1, s1), {}, {"skip", "port"}, {"cancel_run"}, {}),
      \* a pause, a child cancel and its notice to the lead
      Load(One("user", s2) @@ Notes, {}, {"port"}, {"pause"}, {Admin}),
      Load(One("user", s2) @@ And("notice", s1, s2), {}, {}, {"cancel_child"}, {r2}),
      \* a runtime that is being attached, fails and is repaired, or removed
      Load(One("user", s2), {s2}, {"member"}, {}, {r1}),
      Load(One("recovery", s2), {s2}, {"member"}, {"remove"}, {}),
      \* a removal: in mid-turn, with a row that cannot be written, given up,
      \* before a run cancel, against the idle note
      Load(One("recovery", s2) @@ Leaves, {}, {"db"}, {"remove"}, {Admin, r5}),
      Load(One("user", s2), {}, {"db"}, {"remove"}, {}),
      Load(One("user", s2), {}, {}, {"remove", "cancel_run", "cancel_child"}, {Admin}),
      Load(One("recovery", s2) @@ Notes, {}, {}, {"remove"}, {Admin}),
      \* a refused start, a dropped message, a stop
      Load(One("user", s1) @@ And("shutdown", s2, s1), {}, {"refuse"}, {}, {}),
      Load(One("user", s2) @@ Notes, {}, {}, {}, {r1}),
      Load(One("user", s1), {s2}, {}, {"stop"}, {}) }
=============================================================================
