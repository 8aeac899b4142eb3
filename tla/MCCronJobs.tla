------------------------------ MODULE MCCronJobs ------------------------------
(* Two jobs, two ticks at a time, two requests beside them *)
EXTENDS CronJobs, TLC

CONSTANTS j1, j2, t1, t2, r1, r2, c1

MCJobs == {j1, j2}
MCTicks == {t1, t2}
MCRequests == {r1, r2}
MCConvs == {c1}

On(sched) == [live |-> TRUE, enabled |-> TRUE, sched |-> sched, next |-> ComputeNextRun(sched),
              retry |-> 0, limit |-> MaxRetries]
Off(sched) == [On(sched) EXCEPT !.enabled = FALSE]

R(op, j) == [op |-> op, job |-> j, enabled |-> Keep, sched |-> Keep]
Unused == R("unused", j1)

W(x, y, hx, hy, a, b, fails, stops) ==
    [rows |-> (j1 :> x) @@ (j2 :> y), home |-> (j1 :> hx) @@ (j2 :> hy),
     call |-> (r1 :> a) @@ (r2 :> b), faults |-> fails, restarts |-> stops]

MCScenarios ==
    { (* two jobs and the user share a conversation *)
      W(On("every"), On("at"), c1, c1, Unused, Unused, 0, 1),
      (* a new job, also started by hand; storage failures *)
      W(NoRow, NoRow, c1, c1, [R("add", j1) EXCEPT !.sched = "cron"], R("runnow", j1), 1, 0),
      (* removal beside a resume, storage failures *)
      W(On("every"), NoRow, Fresh, Fresh, R("remove", j1), R("resume", j1), 1, 0),
      W(On("at"), NoRow, Fresh, Fresh, R("remove", j1), R("resume", j1), 2, 1),
      (* an edit of the schedule beside a removal, in new conversations *)
      W(On("cron"), NoRow, Fresh, c1, [R("update", j1) EXCEPT !.sched = "at"], R("remove", j1), 0, 1),
      (* a job renamed while it runs *)
      W(On("at"), NoRow, Fresh, c1, R("update", j1), Unused, 0, 1),
      (* disabling, enabling, a schedule without a next run *)
      W(On("every"), NoRow, c1, c1, [R("update", j1) EXCEPT !.enabled = FALSE],
        [R("update", j1) EXCEPT !.enabled = TRUE], 0, 0),
      W(Off("cron"), NoRow, Fresh, c1, [R("update", j1) EXCEPT !.enabled = TRUE],
        [R("update", j1) EXCEPT !.sched = "manual"], 0, 0) }
===============================================================================
