----------------------- MODULE AgentRunSchedulerProofs -----------------------
(***************************************************************************)
(* Theorems about AgentRunScheduler, for every set of runs, users,         *)
(* policies and environment events.                                        *)
(***************************************************************************)
EXTENDS AgentRunScheduler, FiniteSetTheorems, TLAPS

(* The inductive invariant *)

\* A run that has not been pushed is nowhere in the scheduler and has no permit.
Untouched(r) ==
  /\ r \notin queue /\ r \notin active /\ r \notin cancelling /\ r \notin expiring
  /\ permit[r] = "none"

FreshInv ==
  \A r \in Runs :
    /\ pc[r] \in {"new", "persist"} => row[r] = "absent"
    /\ pc[r] = "push" => row[r] \in {"queued", "deleted"}
    /\ pc[r] \in {"new", "persist", "push"} => Untouched(r) /\ r \notin restoring

\* A run that waits has a pending permit and a row that was never dispatched.
WaitInv ==
  \A r \in Runs : r \in queue \/ r \in cancelling \/ r \in expiring =>
    permit[r] = "pending" /\ row[r] \in {"queued", "deleted"}

\* So has a run between the pick and mark_dispatching; no two loops hold it.
\* Maintenance runs no loop while it still has expired runs to settle.
HeldInv ==
  /\ expiring # {} => disp[Maintenance] = "off"
  /\ \A t \in Tasks :
       /\ disp[t] # "mark" => pick[t] = NoRun
       /\ disp[t] = "mark" =>
            /\ pick[t] \in Runs /\ pick[t] \in active
            /\ permit[pick[t]] = "pending"
            /\ row[pick[t]] \in {"queued", "deleted"}
            /\ \A v \in Tasks : disp[v] = "mark" /\ pick[v] = pick[t] => v = t

Disjoint ==
  \A r \in Runs :
    /\ r \in queue => r \notin active /\ r \notin cancelling /\ r \notin expiring
    /\ r \in active => r \notin cancelling /\ r \notin expiring
    /\ r \in cancelling => r \notin expiring

\* A granted permit is backed by a row that left the status queued.
GrantInv ==
  \A r \in Runs :
    /\ permit[r] = "ok" => row[r] \notin {"absent", "queued"}
    /\ pc[r] \in {"enqueue", "await"} /\ permit[r] = "ok" => row[r] \in {"dispatching", "deleted"}
    /\ pc[r] \in {"claimed", "running"} => row[r] \in {"dispatching", "running", "deleted"}
    /\ pc[r] \in {"claimed", "running", "release", "unrouted"} => permit[r] = "ok"

\* Before recovery has read the table the process holds no run.
Quiet == phase = "down" \/ (phase = "recovering" /\ pc[Recovery] = "idle")
QuietInv ==
  Quiet =>
    /\ restoring = {}
    /\ \A r \in Runs : pc[r] \in {"new", "gone"} /\ Untouched(r)
    /\ \A t \in Tasks : disp[t] # "mark"

RestoreInv ==
  /\ restoring # {} => phase = "recovering"
  /\ \A r \in restoring : pc[r] = "gone" /\ row[r] = "queued" /\ Untouched(r)

StartInv ==
  \A r \in Runs :
    /\ starts[r] <= 1
    /\ pc[r] \in {"new", "persist", "push", "enqueue", "await"} => starts[r] = 0
    /\ row[r] \in {"absent", "queued"} => starts[r] = 0

IInv ==
  /\ TypeOK /\ FreshInv /\ WaitInv /\ HeldInv /\ Disjoint /\ GrantInv
  /\ QuietInv /\ RestoreInv /\ StartInv

-----------------------------------------------------------------------------
USE DEF Workers

\* The inductive invariant holds in the freshly constructed scheduler.
LEMMA InitIInv == Init => IInv
BY RunsAssumption, WorkersAssumption, PolicyAssumption, RestartsAssumption
   DEF Init, IInv, TypeOK, FreshInv, WaitInv, HeldInv, Disjoint, GrantInv, QuietInv, RestoreInv,
       StartInv, Quiet, Untouched, Tasks, Statuses, Permits, RunSteps, WorkerSteps, Unseen, Policy

\* Preflight preserves every part of the inductive invariant.
LEMMA PreflightStep == ASSUME IInv, NEW r \in Runs, Preflight(r) PROVE IInv'
<1> USE RunsAssumption, WorkersAssumption, RestartsAssumption DEF IInv, Tasks, Preflight, Goto, At, Alive, dbVars, timeVars, lockVars, loopVars, handVars, obsVars
<1>1. TypeOK' BY DEF TypeOK, Statuses, Terminal, Permits, RunSteps, WorkerSteps
<1>2. FreshInv' BY DEF TypeOK, FreshInv, Untouched, RestoreInv, QuietInv, Quiet, HeldInv, Disjoint
<1>3. WaitInv' BY DEF TypeOK, WaitInv, FreshInv, RestoreInv, Untouched, HeldInv, Disjoint, GrantInv
<1>4. HeldInv' BY DEF TypeOK, HeldInv, FreshInv, RestoreInv, Untouched, WaitInv, Disjoint, GrantInv, QuietInv, Quiet
<1>5. Disjoint' BY DEF TypeOK, Disjoint, FreshInv, RestoreInv, Untouched, WaitInv, GrantInv
<1>6. GrantInv' BY DEF TypeOK, GrantInv, FreshInv, RestoreInv, Untouched, WaitInv, HeldInv, QuietInv, Quiet, Disjoint
<1>7. QuietInv' BY DEF TypeOK, QuietInv, Quiet, FreshInv, RestoreInv, Untouched
<1>8. RestoreInv' BY DEF TypeOK, RestoreInv, FreshInv, Untouched, QuietInv, Quiet, HeldInv
<1>9. StartInv' BY DEF TypeOK, StartInv, RestoreInv, GrantInv
<1> QED BY <1>1, <1>2, <1>3, <1>4, <1>5, <1>6, <1>7, <1>8, <1>9

\* CreateQueued preserves every part of the inductive invariant.
LEMMA CreateQueuedStep == ASSUME IInv, NEW r \in Runs, CreateQueued(r) PROVE IInv'
<1> USE RunsAssumption, WorkersAssumption, RestartsAssumption DEF IInv, Tasks, CreateQueued, Goto, At, DbFails, Alive, dbVars, timeVars, lockVars, loopVars, handVars, obsVars
<1>1. TypeOK'
  <2>1. CASE row' = [row EXCEPT ![r] = "queued"] /\ Goto(r, "push") BY <2>1 DEF TypeOK, Statuses, Terminal, Permits, RunSteps, WorkerSteps
  <2>2. CASE DbFails /\ UNCHANGED row /\ Goto(r, "done") BY <2>2 DEF TypeOK, Statuses, Terminal, Permits, RunSteps, WorkerSteps
  <2> QED BY <2>1, <2>2
<1>2. FreshInv' BY DEF TypeOK, FreshInv, Untouched, RestoreInv, QuietInv, Quiet, HeldInv, Disjoint
<1>3. WaitInv' BY ZenonT(60) DEF TypeOK, WaitInv, FreshInv, RestoreInv, Untouched, HeldInv, Disjoint, GrantInv
<1>4. HeldInv'
  <2>1. \A q \in Runs : q # r => row'[q] = row[q] /\ permit'[q] = permit[q] BY DEF TypeOK
  <2>2. \A t \in Tasks : disp[t] = "mark" => pick[t] # r BY DEF HeldInv, Disjoint, FreshInv, Untouched, GrantInv, WaitInv, TypeOK
  <2>3. \A t \in Tasks : disp'[t] = "mark" <=> disp[t] = "mark" BY DEF TypeOK, HeldInv
  <2> QED BY <2>1, <2>2, <2>3 DEF HeldInv, TypeOK
<1>5. Disjoint' BY DEF TypeOK, Disjoint, FreshInv, RestoreInv, Untouched, WaitInv, GrantInv
<1>6. GrantInv' BY DEF TypeOK, GrantInv, FreshInv, RestoreInv, Untouched, WaitInv, HeldInv, QuietInv, Quiet, Disjoint
<1>7. QuietInv' BY DEF TypeOK, QuietInv, Quiet, FreshInv, RestoreInv, Untouched
<1>8. RestoreInv' BY DEF TypeOK, RestoreInv, FreshInv, Untouched, QuietInv, Quiet, HeldInv
<1>9. StartInv' BY DEF TypeOK, StartInv, RestoreInv, GrantInv
<1> QED BY <1>1, <1>2, <1>3, <1>4, <1>5, <1>6, <1>7, <1>8, <1>9

\* Push preserves every part of the inductive invariant.
LEMMA PushStep == ASSUME IInv, NEW r \in Runs, Push(r) PROVE IInv'
<1> USE RunsAssumption, WorkersAssumption, RestartsAssumption DEF IInv, Tasks, Push, PushBack, EnterDispatch, At, Alive, dbVars, timeVars, lockVars, loopVars, handVars, obsVars
<1>1. TypeOK' BY DEF TypeOK, Statuses, Terminal, Permits, RunSteps, WorkerSteps
<1>2. FreshInv' BY DEF TypeOK, FreshInv, Untouched, RestoreInv, QuietInv, Quiet, HeldInv, Disjoint
<1>3. WaitInv' BY DEF TypeOK, WaitInv, FreshInv, RestoreInv, Untouched, HeldInv, Disjoint, GrantInv
<1>4. HeldInv' BY DEF TypeOK, HeldInv, FreshInv, RestoreInv, Untouched, WaitInv, Disjoint, GrantInv, QuietInv, Quiet
<1>5. Disjoint' BY DEF TypeOK, Disjoint, FreshInv, RestoreInv, Untouched, WaitInv, GrantInv
<1>6. GrantInv' BY DEF TypeOK, GrantInv, FreshInv, RestoreInv, Untouched, WaitInv, HeldInv, QuietInv, Quiet, Disjoint
<1>7. QuietInv' BY DEF TypeOK, QuietInv, Quiet, FreshInv, RestoreInv, Untouched
<1>8. RestoreInv' BY DEF TypeOK, RestoreInv, FreshInv, Untouched, QuietInv, Quiet, HeldInv
<1>9. StartInv' BY DEF TypeOK, StartInv, RestoreInv, GrantInv
<1> QED BY <1>1, <1>2, <1>3, <1>4, <1>5, <1>6, <1>7, <1>8, <1>9

\* ReadPolicy preserves every part of the inductive invariant.
LEMMA ReadPolicyStep == ASSUME IInv, NEW t \in Tasks, ReadPolicy(t) PROVE IInv'
<1> USE RunsAssumption, WorkersAssumption, RestartsAssumption, PolicyAssumption DEF IInv, Tasks, ReadPolicy, EffectiveLimit, Policy, Alive, dbVars, timeVars, lockVars, loopVars, handVars, obsVars
<1>1. TypeOK' BY SMTT(40) DEF TypeOK, Statuses, Terminal, Permits, RunSteps, WorkerSteps
<1>2. FreshInv' BY DEF TypeOK, FreshInv, Untouched, RestoreInv, QuietInv, Quiet, HeldInv, Disjoint
<1>3. WaitInv' BY DEF TypeOK, WaitInv, FreshInv, RestoreInv, Untouched, HeldInv, Disjoint, GrantInv
<1>4. HeldInv' BY DEF TypeOK, HeldInv, FreshInv, RestoreInv, Untouched, WaitInv, Disjoint, GrantInv, QuietInv, Quiet
<1>5. Disjoint' BY DEF TypeOK, Disjoint, FreshInv, RestoreInv, Untouched, WaitInv, GrantInv
<1>6. GrantInv' BY DEF TypeOK, GrantInv, FreshInv, RestoreInv, Untouched, WaitInv, HeldInv, QuietInv, Quiet, Disjoint
<1>7. QuietInv' BY DEF TypeOK, QuietInv, Quiet, FreshInv, RestoreInv, Untouched
<1>8. RestoreInv' BY DEF TypeOK, RestoreInv, FreshInv, Untouched, QuietInv, Quiet, HeldInv
<1>9. StartInv' BY DEF TypeOK, StartInv, RestoreInv, GrantInv
<1> QED BY <1>1, <1>2, <1>3, <1>4, <1>5, <1>6, <1>7, <1>8, <1>9

\* PickRun preserves every part of the inductive invariant.
LEMMA PickRunStep == ASSUME IInv, NEW t \in Tasks, NEW r \in Runs, PickRun(t, r) PROVE IInv'
<1> USE RunsAssumption, WorkersAssumption, RestartsAssumption DEF IInv, Tasks, PickRun, RemoveFromQueue, IsNext, Unseen, Alive, dbVars, timeVars, lockVars, loopVars, handVars, obsVars
<1>1. TypeOK' BY DEF TypeOK, Statuses, Terminal, Permits, RunSteps, WorkerSteps
<1>2. FreshInv' BY DEF TypeOK, FreshInv, Untouched, RestoreInv, QuietInv, Quiet, HeldInv, Disjoint
<1>3. WaitInv' BY DEF TypeOK, WaitInv, FreshInv, RestoreInv, Untouched, HeldInv, Disjoint, GrantInv
<1>4. HeldInv' BY DEF TypeOK, HeldInv, FreshInv, RestoreInv, Untouched, WaitInv, Disjoint, GrantInv, QuietInv, Quiet
<1>5. Disjoint' BY DEF TypeOK, Disjoint, FreshInv, RestoreInv, Untouched, WaitInv, GrantInv
<1>6. GrantInv' BY DEF TypeOK, GrantInv, FreshInv, RestoreInv, Untouched, WaitInv, HeldInv, QuietInv, Quiet, Disjoint
<1>7. QuietInv' BY DEF TypeOK, QuietInv, Quiet, FreshInv, RestoreInv, Untouched
<1>8. RestoreInv' BY DEF TypeOK, RestoreInv, FreshInv, Untouched, QuietInv, Quiet, HeldInv
<1>9. StartInv' BY DEF TypeOK, StartInv, RestoreInv, GrantInv
<1> QED BY <1>1, <1>2, <1>3, <1>4, <1>5, <1>6, <1>7, <1>8, <1>9

\* PickNone preserves every part of the inductive invariant.
LEMMA PickNoneStep == ASSUME IInv, NEW t \in Tasks, PickNone(t) PROVE IInv'
<1> USE RunsAssumption, WorkersAssumption, RestartsAssumption DEF IInv, Tasks, PickNone, Resume, Unseen, Alive, dbVars, timeVars, lockVars, loopVars, handVars, obsVars
<1>1. TypeOK' BY DEF TypeOK, Statuses, Terminal, Permits, RunSteps, WorkerSteps
<1>2. FreshInv' BY DEF TypeOK, FreshInv, Untouched, RestoreInv, QuietInv, Quiet, HeldInv, Disjoint
<1>3. WaitInv' BY DEF TypeOK, WaitInv, FreshInv, RestoreInv, Untouched, HeldInv, Disjoint, GrantInv
<1>4. HeldInv' BY DEF TypeOK, HeldInv, FreshInv, RestoreInv, Untouched, WaitInv, Disjoint, GrantInv, QuietInv, Quiet
<1>5. Disjoint' BY DEF TypeOK, Disjoint, FreshInv, RestoreInv, Untouched, WaitInv, GrantInv
<1>6. GrantInv' BY DEF TypeOK, GrantInv, FreshInv, RestoreInv, Untouched, WaitInv, HeldInv, QuietInv, Quiet, Disjoint
<1>7. QuietInv' BY DEF TypeOK, QuietInv, Quiet, FreshInv, RestoreInv, Untouched
<1>8. RestoreInv' BY DEF TypeOK, RestoreInv, FreshInv, Untouched, QuietInv, Quiet, HeldInv
<1>9. StartInv' BY DEF TypeOK, StartInv, RestoreInv, GrantInv
<1> QED BY <1>1, <1>2, <1>3, <1>4, <1>5, <1>6, <1>7, <1>8, <1>9

\* MarkDispatching preserves every part of the inductive invariant.
LEMMA MarkDispatchingStep == ASSUME IInv, NEW t \in Tasks, MarkDispatching(t) PROVE IInv'
<1> USE RunsAssumption, WorkersAssumption, RestartsAssumption DEF IInv, Tasks, MarkDispatching, NextIteration, Alive, dbVars, timeVars, lockVars, loopVars, handVars, obsVars
<1>1. TypeOK' BY DEF TypeOK, Statuses, Terminal, Permits, RunSteps, WorkerSteps
<1>2. FreshInv' BY DEF TypeOK, FreshInv, Untouched, RestoreInv, QuietInv, Quiet, HeldInv, Disjoint
<1>3. WaitInv' BY DEF TypeOK, WaitInv, FreshInv, RestoreInv, Untouched, HeldInv, Disjoint, GrantInv
<1>4. HeldInv' BY DEF TypeOK, HeldInv, FreshInv, RestoreInv, Untouched, WaitInv, Disjoint, GrantInv, QuietInv, Quiet
<1>5. Disjoint' BY DEF TypeOK, Disjoint, FreshInv, RestoreInv, Untouched, WaitInv, GrantInv
<1>6. GrantInv' BY DEF TypeOK, GrantInv, FreshInv, RestoreInv, Untouched, WaitInv, HeldInv, QuietInv, Quiet, Disjoint
<1>7. QuietInv' BY DEF TypeOK, QuietInv, Quiet, FreshInv, RestoreInv, Untouched
<1>8. RestoreInv' BY DEF TypeOK, RestoreInv, FreshInv, Untouched, QuietInv, Quiet, HeldInv
<1>9. StartInv' BY DEF TypeOK, StartInv, RestoreInv, GrantInv
<1> QED BY <1>1, <1>2, <1>3, <1>4, <1>5, <1>6, <1>7, <1>8, <1>9

\* AbandonDispatch preserves every part of the inductive invariant.
LEMMA AbandonDispatchStep == ASSUME IInv, NEW t \in Tasks, AbandonDispatch(t) PROVE IInv'
<1> USE RunsAssumption, WorkersAssumption, RestartsAssumption DEF IInv, Tasks, AbandonDispatch, NextIteration, DbFails, Alive, dbVars, timeVars, lockVars, loopVars, handVars, obsVars
<1>1. TypeOK' BY DEF TypeOK, Statuses, Terminal, Permits, RunSteps, WorkerSteps
<1>2. FreshInv' BY DEF TypeOK, FreshInv, Untouched, RestoreInv, QuietInv, Quiet, HeldInv, Disjoint
<1>3. WaitInv' BY DEF TypeOK, WaitInv, FreshInv, RestoreInv, Untouched, HeldInv, Disjoint, GrantInv
<1>4. HeldInv' BY DEF TypeOK, HeldInv, FreshInv, RestoreInv, Untouched, WaitInv, Disjoint, GrantInv, QuietInv, Quiet
<1>5. Disjoint' BY DEF TypeOK, Disjoint, FreshInv, RestoreInv, Untouched, WaitInv, GrantInv
<1>6. GrantInv' BY DEF TypeOK, GrantInv, FreshInv, RestoreInv, Untouched, WaitInv, HeldInv, QuietInv, Quiet, Disjoint
<1>7. QuietInv' BY DEF TypeOK, QuietInv, Quiet, FreshInv, RestoreInv, Untouched
<1>8. RestoreInv' BY DEF TypeOK, RestoreInv, FreshInv, Untouched, QuietInv, Quiet, HeldInv
<1>9. StartInv' BY DEF TypeOK, StartInv, RestoreInv, GrantInv
<1> QED BY <1>1, <1>2, <1>3, <1>4, <1>5, <1>6, <1>7, <1>8, <1>9

\* ClaimTurn preserves every part of the inductive invariant.
LEMMA ClaimTurnStep == ASSUME IInv, NEW r \in Runs, ClaimTurn(r) PROVE IInv'
<1> USE RunsAssumption, WorkersAssumption, RestartsAssumption DEF IInv, Tasks, ClaimTurn, Goto, At, Alive, dbVars, timeVars, lockVars, loopVars, handVars, obsVars
<1>1. TypeOK' BY DEF TypeOK, Statuses, Terminal, Permits, RunSteps, WorkerSteps
<1>2. FreshInv' BY DEF TypeOK, FreshInv, Untouched, RestoreInv, QuietInv, Quiet, HeldInv, Disjoint
<1>3. WaitInv' BY DEF TypeOK, WaitInv, FreshInv, RestoreInv, Untouched, HeldInv, Disjoint, GrantInv
<1>4. HeldInv' BY DEF TypeOK, HeldInv, FreshInv, RestoreInv, Untouched, WaitInv, Disjoint, GrantInv, QuietInv, Quiet
<1>5. Disjoint' BY DEF TypeOK, Disjoint, FreshInv, RestoreInv, Untouched, WaitInv, GrantInv
<1>6. GrantInv' BY DEF TypeOK, GrantInv, FreshInv, RestoreInv, Untouched, WaitInv, HeldInv, QuietInv, Quiet, Disjoint
<1>7. QuietInv' BY DEF TypeOK, QuietInv, Quiet, FreshInv, RestoreInv, Untouched
<1>8. RestoreInv' BY DEF TypeOK, RestoreInv, FreshInv, Untouched, QuietInv, Quiet, HeldInv
<1>9. StartInv' BY DEF TypeOK, StartInv, RestoreInv, GrantInv
<1> QED BY <1>1, <1>2, <1>3, <1>4, <1>5, <1>6, <1>7, <1>8, <1>9

\* PermitRefused preserves every part of the inductive invariant.
LEMMA PermitRefusedStep == ASSUME IInv, NEW r \in Runs, PermitRefused(r) PROVE IInv'
<1> USE RunsAssumption, WorkersAssumption, RestartsAssumption DEF IInv, Tasks, PermitRefused, Goto, At, Alive, dbVars, timeVars, lockVars, loopVars, handVars, obsVars
<1>1. TypeOK' BY DEF TypeOK, Statuses, Terminal, Permits, RunSteps, WorkerSteps
<1>2. FreshInv' BY DEF TypeOK, FreshInv, Untouched, RestoreInv, QuietInv, Quiet, HeldInv, Disjoint
<1>3. WaitInv' BY DEF TypeOK, WaitInv, FreshInv, RestoreInv, Untouched, HeldInv, Disjoint, GrantInv
<1>4. HeldInv' BY DEF TypeOK, HeldInv, FreshInv, RestoreInv, Untouched, WaitInv, Disjoint, GrantInv, QuietInv, Quiet
<1>5. Disjoint' BY DEF TypeOK, Disjoint, FreshInv, RestoreInv, Untouched, WaitInv, GrantInv
<1>6. GrantInv' BY DEF TypeOK, GrantInv, FreshInv, RestoreInv, Untouched, WaitInv, HeldInv, QuietInv, Quiet, Disjoint
<1>7. QuietInv' BY DEF TypeOK, QuietInv, Quiet, FreshInv, RestoreInv, Untouched
<1>8. RestoreInv' BY DEF TypeOK, RestoreInv, FreshInv, Untouched, QuietInv, Quiet, HeldInv
<1>9. StartInv' BY DEF TypeOK, StartInv, RestoreInv, GrantInv
<1> QED BY <1>1, <1>2, <1>3, <1>4, <1>5, <1>6, <1>7, <1>8, <1>9

\* MarkRunning preserves every part of the inductive invariant.
LEMMA MarkRunningStep == ASSUME IInv, NEW r \in Runs, MarkRunning(r) PROVE IInv'
<1> USE RunsAssumption, WorkersAssumption, RestartsAssumption DEF IInv, Tasks, MarkRunning, Goto, At, TryUpdate, DbFails, Alive, dbVars, timeVars, lockVars, loopVars, handVars, obsVars
<1>1. TypeOK'
  <2>1. row' \in [Runs -> Statuses] BY DEF TypeOK, Statuses, Terminal
  <2>2. pc' \in [Tasks -> RunSteps \union WorkerSteps] /\ (\A q \in Runs : pc'[q] \in RunSteps) /\ \A w \in Workers : pc'[w] \in WorkerSteps
    BY DEF TypeOK, RunSteps, WorkerSteps
  <2> QED BY <2>1, <2>2 DEF TypeOK
<1>2. FreshInv' BY DEF TypeOK, FreshInv, Untouched, RestoreInv, QuietInv, Quiet, HeldInv, Disjoint
<1>3. WaitInv' BY DEF TypeOK, WaitInv, FreshInv, RestoreInv, Untouched, HeldInv, Disjoint, GrantInv
<1>4. HeldInv'
  <2>1. \A q \in Runs : q # r => row'[q] = row[q] /\ permit'[q] = permit[q] BY DEF TypeOK
  <2>2. \A t \in Tasks : disp[t] = "mark" => pick[t] # r BY DEF HeldInv, Disjoint, GrantInv, WaitInv, TypeOK
  <2>3. \A t \in Tasks : disp'[t] = "mark" <=> disp[t] = "mark" BY DEF TypeOK, HeldInv
  <2> QED BY <2>1, <2>2, <2>3 DEF HeldInv, TypeOK
<1>5. Disjoint' BY DEF TypeOK, Disjoint, FreshInv, RestoreInv, Untouched, WaitInv, GrantInv
<1>6. GrantInv' BY DEF TypeOK, GrantInv, FreshInv, RestoreInv, Untouched, WaitInv, HeldInv, QuietInv, Quiet, Disjoint
<1>7. QuietInv' BY DEF TypeOK, QuietInv, Quiet, FreshInv, RestoreInv, Untouched
<1>8. RestoreInv' BY DEF TypeOK, RestoreInv, FreshInv, Untouched, QuietInv, Quiet, HeldInv
<1>9. StartInv' BY DEF TypeOK, StartInv, RestoreInv, GrantInv
<1> QED BY <1>1, <1>2, <1>3, <1>4, <1>5, <1>6, <1>7, <1>8, <1>9

\* MarkTerminal preserves every part of the inductive invariant.
LEMMA MarkTerminalStep == ASSUME IInv, NEW r \in Runs, MarkTerminal(r) PROVE IInv'
<1> USE RunsAssumption, WorkersAssumption, RestartsAssumption DEF IInv, Tasks, MarkTerminal, Goto, At, TryUpdate, DbFails, Alive, dbVars, timeVars, lockVars, loopVars, handVars, obsVars
<1>1. TypeOK'
  <2>1. row' \in [Runs -> Statuses] BY ZenonT(60) DEF TypeOK, Statuses, Terminal
  <2>2. pc' \in [Tasks -> RunSteps \union WorkerSteps] /\ (\A q \in Runs : pc'[q] \in RunSteps) /\ \A w \in Workers : pc'[w] \in WorkerSteps
    <3>1. PICK s \in {"release", "unrouted"} : pc' = [pc EXCEPT ![r] = s] OBVIOUS
    <3> QED BY <3>1 DEF TypeOK, RunSteps, WorkerSteps
  <2> QED BY <2>1, <2>2 DEF TypeOK
<1>2. FreshInv' BY DEF TypeOK, FreshInv, Untouched, RestoreInv, QuietInv, Quiet, HeldInv, Disjoint
<1>3. WaitInv' BY SMTT(40) DEF TypeOK, WaitInv, FreshInv, RestoreInv, Untouched, HeldInv, Disjoint, GrantInv
<1>4. HeldInv'
  <2>1. \A q \in Runs : q # r => row'[q] = row[q] /\ permit'[q] = permit[q] BY DEF TypeOK
  <2>2. \A t \in Tasks : disp[t] = "mark" => pick[t] # r BY DEF HeldInv, Disjoint, GrantInv, WaitInv, TypeOK
  <2>3. \A t \in Tasks : disp'[t] = "mark" <=> disp[t] = "mark" BY DEF TypeOK, HeldInv
  <2> QED BY <2>1, <2>2, <2>3 DEF HeldInv, TypeOK
<1>5. Disjoint' BY DEF TypeOK, Disjoint, FreshInv, RestoreInv, Untouched, WaitInv, GrantInv
<1>6. GrantInv' BY DEF TypeOK, GrantInv, FreshInv, RestoreInv, Untouched, WaitInv, HeldInv, QuietInv, Quiet, Disjoint
<1>7. QuietInv' BY DEF TypeOK, QuietInv, Quiet, FreshInv, RestoreInv, Untouched
<1>8. RestoreInv' BY DEF TypeOK, RestoreInv, FreshInv, Untouched, QuietInv, Quiet, HeldInv
<1>9. StartInv' BY DEF TypeOK, StartInv, RestoreInv, GrantInv
<1> QED BY <1>1, <1>2, <1>3, <1>4, <1>5, <1>6, <1>7, <1>8, <1>9

\* ReleaseSlot preserves every part of the inductive invariant.
LEMMA ReleaseSlotStep == ASSUME IInv, NEW r \in Runs, ReleaseSlot(r) PROVE IInv'
<1> USE RunsAssumption, WorkersAssumption, RestartsAssumption DEF IInv, Tasks, ReleaseSlot, EnterDispatch, At, Alive, dbVars, timeVars, lockVars, loopVars, handVars, obsVars
<1>1. TypeOK'
  <2>1. pc' \in [Tasks -> RunSteps \union WorkerSteps] /\ (\A q \in Runs : pc'[q] \in RunSteps) /\ \A w \in Workers : pc'[w] \in WorkerSteps
    <3>1. PICK s \in {"finish", "tip"} : pc' = [pc EXCEPT ![r] = s] OBVIOUS
    <3> QED BY <3>1 DEF TypeOK, RunSteps, WorkerSteps
  <2>2. disp' \in [Tasks -> {"off", "read", "pick", "mark"}] BY ZenonT(60) DEF TypeOK
  <2> QED BY <2>1, <2>2 DEF TypeOK
<1>2. FreshInv' BY DEF TypeOK, FreshInv, Untouched, RestoreInv, QuietInv, Quiet, HeldInv, Disjoint
<1>3. WaitInv' BY DEF TypeOK, WaitInv, FreshInv, RestoreInv, Untouched, HeldInv, Disjoint, GrantInv
<1>4. HeldInv'
  <2>1. \A t \in Tasks : disp[t] = "mark" => pick[t] # r BY DEF HeldInv, GrantInv, TypeOK
  <2>2. \A t \in Tasks : disp'[t] = "mark" <=> disp[t] = "mark" BY DEF TypeOK
  <2>3. expiring # {} => disp'[Maintenance] = "off" BY DEF TypeOK, HeldInv
  <2> QED BY <2>1, <2>2, <2>3 DEF HeldInv, TypeOK
<1>5. Disjoint' BY DEF TypeOK, Disjoint, FreshInv, RestoreInv, Untouched, WaitInv, GrantInv
<1>6. GrantInv' BY DEF TypeOK, GrantInv, FreshInv, RestoreInv, Untouched, WaitInv, HeldInv, QuietInv, Quiet, Disjoint
<1>7. QuietInv' BY DEF TypeOK, QuietInv, Quiet, FreshInv, RestoreInv, Untouched
<1>8. RestoreInv' BY DEF TypeOK, RestoreInv, FreshInv, Untouched, QuietInv, Quiet, HeldInv
<1>9. StartInv' BY DEF TypeOK, StartInv, RestoreInv, GrantInv
<1> QED BY <1>1, <1>2, <1>3, <1>4, <1>5, <1>6, <1>7, <1>8, <1>9

\* PersistTip preserves every part of the inductive invariant.
LEMMA PersistTipStep == ASSUME IInv, NEW r \in Runs, PersistTip(r) PROVE IInv'
<1> USE RunsAssumption, WorkersAssumption, RestartsAssumption DEF IInv, Tasks, PersistTip, Goto, At, Alive, dbVars, timeVars, lockVars, loopVars, handVars, obsVars
<1>1. TypeOK' BY DEF TypeOK, Statuses, Terminal, Permits, RunSteps, WorkerSteps
<1>2. FreshInv' BY DEF TypeOK, FreshInv, Untouched, RestoreInv, QuietInv, Quiet, HeldInv, Disjoint
<1>3. WaitInv' BY DEF TypeOK, WaitInv, FreshInv, RestoreInv, Untouched, HeldInv, Disjoint, GrantInv
<1>4. HeldInv' BY DEF TypeOK, HeldInv, FreshInv, RestoreInv, Untouched, WaitInv, Disjoint, GrantInv, QuietInv, Quiet
<1>5. Disjoint' BY DEF TypeOK, Disjoint, FreshInv, RestoreInv, Untouched, WaitInv, GrantInv
<1>6. GrantInv' BY DEF TypeOK, GrantInv, FreshInv, RestoreInv, Untouched, WaitInv, HeldInv, QuietInv, Quiet, Disjoint
<1>7. QuietInv' BY DEF TypeOK, QuietInv, Quiet, FreshInv, RestoreInv, Untouched
<1>8. RestoreInv' BY DEF TypeOK, RestoreInv, FreshInv, Untouched, QuietInv, Quiet, HeldInv
<1>9. StartInv' BY DEF TypeOK, StartInv, RestoreInv, GrantInv
<1> QED BY <1>1, <1>2, <1>3, <1>4, <1>5, <1>6, <1>7, <1>8, <1>9

\* CancelQueued preserves every part of the inductive invariant.
LEMMA CancelQueuedStep == ASSUME IInv, NEW r \in Runs, CancelQueued(r) PROVE IInv'
<1> USE RunsAssumption, WorkersAssumption, RestartsAssumption DEF IInv, Tasks, CancelQueued, RemoveFromQueue, Alive, dbVars, timeVars, lockVars, loopVars, handVars, obsVars
<1>1. TypeOK' BY DEF TypeOK, Statuses, Terminal, Permits, RunSteps, WorkerSteps
<1>2. FreshInv' BY DEF TypeOK, FreshInv, Untouched, RestoreInv, QuietInv, Quiet, HeldInv, Disjoint
<1>3. WaitInv' BY DEF TypeOK, WaitInv, FreshInv, RestoreInv, Untouched, HeldInv, Disjoint, GrantInv
<1>4. HeldInv' BY DEF TypeOK, HeldInv, FreshInv, RestoreInv, Untouched, WaitInv, Disjoint, GrantInv, QuietInv, Quiet
<1>5. Disjoint' BY DEF TypeOK, Disjoint, FreshInv, RestoreInv, Untouched, WaitInv, GrantInv
<1>6. GrantInv' BY DEF TypeOK, GrantInv, FreshInv, RestoreInv, Untouched, WaitInv, HeldInv, QuietInv, Quiet, Disjoint
<1>7. QuietInv' BY DEF TypeOK, QuietInv, Quiet, FreshInv, RestoreInv, Untouched
<1>8. RestoreInv' BY DEF TypeOK, RestoreInv, FreshInv, Untouched, QuietInv, Quiet, HeldInv
<1>9. StartInv' BY DEF TypeOK, StartInv, RestoreInv, GrantInv
<1> QED BY <1>1, <1>2, <1>3, <1>4, <1>5, <1>6, <1>7, <1>8, <1>9

\* SettleCancel preserves every part of the inductive invariant.
LEMMA SettleCancelStep == ASSUME IInv, NEW r \in Runs, SettleCancel(r) PROVE IInv'
<1> USE RunsAssumption, WorkersAssumption, RestartsAssumption DEF IInv, Tasks, SettleCancel, DbFails, Alive, dbVars, timeVars, lockVars, loopVars, handVars, obsVars
<1>1. TypeOK'
  <2>1. CASE permit' = [permit EXCEPT ![r] = "cancelled"] /\ UNCHANGED row BY <2>1 DEF TypeOK, Statuses, Terminal, Permits, RunSteps, WorkerSteps
  <2>2. CASE permit' = [permit EXCEPT ![r] = "cancelled"] /\ row' = [row EXCEPT ![r] = "cancelled"] BY <2>2 DEF TypeOK, Statuses, Terminal, Permits, RunSteps, WorkerSteps
  <2>3. CASE permit' = [permit EXCEPT ![r] = "dropped"] /\ UNCHANGED row BY <2>3 DEF TypeOK, Statuses, Terminal, Permits, RunSteps, WorkerSteps
  <2> QED BY <2>1, <2>2, <2>3 DEF TypeOK
<1>2. FreshInv' BY DEF TypeOK, FreshInv, Untouched, RestoreInv, QuietInv, Quiet, HeldInv, Disjoint
<1>3. WaitInv' BY DEF TypeOK, WaitInv, FreshInv, RestoreInv, Untouched, HeldInv, Disjoint, GrantInv
<1>4. HeldInv'
  <2>1. \A q \in Runs : q # r => row'[q] = row[q] /\ permit'[q] = permit[q] BY DEF TypeOK
  <2>2. \A t \in Tasks : disp[t] = "mark" => pick[t] # r BY DEF HeldInv, Disjoint, GrantInv, WaitInv, TypeOK
  <2>3. \A t \in Tasks : disp'[t] = "mark" <=> disp[t] = "mark" BY DEF TypeOK, HeldInv
  <2> QED BY <2>1, <2>2, <2>3 DEF HeldInv, TypeOK
<1>5. Disjoint' BY DEF TypeOK, Disjoint, FreshInv, RestoreInv, Untouched, WaitInv, GrantInv
<1>6. GrantInv' BY DEF TypeOK, GrantInv, FreshInv, RestoreInv, Untouched, WaitInv, HeldInv, QuietInv, Quiet, Disjoint
<1>7. QuietInv' BY DEF TypeOK, QuietInv, Quiet, FreshInv, RestoreInv, Untouched
<1>8. RestoreInv' BY DEF TypeOK, RestoreInv, FreshInv, Untouched, QuietInv, Quiet, HeldInv
<1>9. StartInv' BY DEF TypeOK, StartInv, RestoreInv, GrantInv
<1> QED BY <1>1, <1>2, <1>3, <1>4, <1>5, <1>6, <1>7, <1>8, <1>9

\* ExpireQueued preserves every part of the inductive invariant.
LEMMA ExpireQueuedStep == ASSUME IInv, ExpireQueued PROVE IInv'
<1> USE RunsAssumption, WorkersAssumption, RestartsAssumption DEF IInv, Tasks, ExpireQueued, RemoveFromQueue, Overdue, EnterDispatch, Goto, At, Alive, dbVars, timeVars, lockVars, loopVars, handVars, obsVars
<1>1. TypeOK' BY DEF TypeOK, Statuses, Terminal, Permits, RunSteps, WorkerSteps
<1>2. FreshInv' BY DEF TypeOK, FreshInv, Untouched, RestoreInv, QuietInv, Quiet, HeldInv, Disjoint
<1>3. WaitInv' BY DEF TypeOK, WaitInv, FreshInv, RestoreInv, Untouched, HeldInv, Disjoint, GrantInv
<1>4. HeldInv' BY DEF TypeOK, HeldInv, FreshInv, RestoreInv, Untouched, WaitInv, Disjoint, GrantInv, QuietInv, Quiet
<1>5. Disjoint' BY DEF TypeOK, Disjoint, FreshInv, RestoreInv, Untouched, WaitInv, GrantInv
<1>6. GrantInv' BY DEF TypeOK, GrantInv, FreshInv, RestoreInv, Untouched, WaitInv, HeldInv, QuietInv, Quiet, Disjoint
<1>7. QuietInv' BY DEF TypeOK, QuietInv, Quiet, FreshInv, RestoreInv, Untouched
<1>8. RestoreInv' BY DEF TypeOK, RestoreInv, FreshInv, Untouched, QuietInv, Quiet, HeldInv
<1>9. StartInv' BY DEF TypeOK, StartInv, RestoreInv, GrantInv
<1> QED BY <1>1, <1>2, <1>3, <1>4, <1>5, <1>6, <1>7, <1>8, <1>9

\* SettleExpired preserves every part of the inductive invariant.
LEMMA SettleExpiredStep == ASSUME IInv, NEW r \in Runs, SettleExpired(r) PROVE IInv'
<1> USE RunsAssumption, WorkersAssumption, RestartsAssumption DEF IInv, Tasks, SettleExpired, TryUpdate, DbFails, EnterDispatch, Goto, Alive, dbVars, timeVars, lockVars, loopVars, handVars, obsVars
<1>1. TypeOK'
  <2>1. row' \in [Runs -> Statuses] BY DEF TypeOK, Statuses, Terminal
  <2>2. pc' \in [Tasks -> RunSteps \union WorkerSteps] /\ (\A q \in Runs : pc'[q] \in RunSteps) /\ \A w \in Workers : pc'[w] \in WorkerSteps
    BY DEF TypeOK, RunSteps, WorkerSteps
  <2>3. permit' \in [Runs -> Permits] BY DEF TypeOK, Permits
  <2>4. disp' \in [Tasks -> {"off", "read", "pick", "mark"}] /\ seen' \in [Tasks -> [enforce : BOOLEAN, limit : Nat]] /\ pick' \in [Tasks -> Runs \union {NoRun}]
    BY DEF TypeOK
  <2> QED BY <2>1, <2>2, <2>3, <2>4 DEF TypeOK
<1>2. FreshInv' BY DEF TypeOK, FreshInv, Untouched, RestoreInv, QuietInv, Quiet, HeldInv, Disjoint
<1>3. WaitInv' BY DEF TypeOK, WaitInv, FreshInv, RestoreInv, Untouched, HeldInv, Disjoint, GrantInv
<1>4. HeldInv'
  <2>1. \A q \in Runs : q # r => row'[q] = row[q] /\ permit'[q] = permit[q] BY DEF TypeOK
  <2>2. \A t \in Tasks : disp[t] = "mark" => pick[t] # r BY DEF HeldInv, Disjoint, GrantInv, WaitInv, TypeOK
  <2>3. \A t \in Tasks : disp'[t] = "mark" <=> disp[t] = "mark" BY DEF TypeOK, HeldInv
  <2> QED BY <2>1, <2>2, <2>3 DEF HeldInv, TypeOK
<1>5. Disjoint' BY DEF TypeOK, Disjoint, FreshInv, RestoreInv, Untouched, WaitInv, GrantInv
<1>6. GrantInv' BY DEF TypeOK, GrantInv, FreshInv, RestoreInv, Untouched, WaitInv, HeldInv, QuietInv, Quiet, Disjoint
<1>7. QuietInv' BY DEF TypeOK, QuietInv, Quiet, FreshInv, RestoreInv, Untouched
<1>8. RestoreInv' BY DEF TypeOK, RestoreInv, FreshInv, Untouched, QuietInv, Quiet, HeldInv
<1>9. StartInv' BY DEF TypeOK, StartInv, RestoreInv, GrantInv
<1> QED BY <1>1, <1>2, <1>3, <1>4, <1>5, <1>6, <1>7, <1>8, <1>9

\* TimePasses preserves every part of the inductive invariant.
LEMMA TimePassesStep == ASSUME IInv, TimePasses PROVE IInv'
<1> USE RunsAssumption, WorkersAssumption, RestartsAssumption DEF IInv, Tasks, TimePasses, Alive, dbVars, timeVars, lockVars, loopVars, handVars, obsVars
<1>1. TypeOK' BY DEF TypeOK, Statuses, Terminal, Permits, RunSteps, WorkerSteps
<1>2. FreshInv' BY DEF TypeOK, FreshInv, Untouched, RestoreInv, QuietInv, Quiet, HeldInv, Disjoint
<1>3. WaitInv' BY DEF TypeOK, WaitInv, FreshInv, RestoreInv, Untouched, HeldInv, Disjoint, GrantInv
<1>4. HeldInv' BY DEF TypeOK, HeldInv, FreshInv, RestoreInv, Untouched, WaitInv, Disjoint, GrantInv, QuietInv, Quiet
<1>5. Disjoint' BY DEF TypeOK, Disjoint, FreshInv, RestoreInv, Untouched, WaitInv, GrantInv
<1>6. GrantInv' BY DEF TypeOK, GrantInv, FreshInv, RestoreInv, Untouched, WaitInv, HeldInv, QuietInv, Quiet, Disjoint
<1>7. QuietInv' BY DEF TypeOK, QuietInv, Quiet, FreshInv, RestoreInv, Untouched
<1>8. RestoreInv' BY DEF TypeOK, RestoreInv, FreshInv, Untouched, QuietInv, Quiet, HeldInv
<1>9. StartInv' BY DEF TypeOK, StartInv, RestoreInv, GrantInv
<1> QED BY <1>1, <1>2, <1>3, <1>4, <1>5, <1>6, <1>7, <1>8, <1>9

\* UpdatePolicy preserves every part of the inductive invariant.
LEMMA UpdatePolicyStep == ASSUME IInv, NEW a \in Admins, NEW p \in Policies, UpdatePolicy(a, p) PROVE IInv'
<1> USE RunsAssumption, WorkersAssumption, RestartsAssumption DEF IInv, Tasks, UpdatePolicy, Goto, At, Alive, dbVars, timeVars, lockVars, loopVars, handVars, obsVars
<1>1. TypeOK' BY DEF TypeOK, Statuses, Terminal, Permits, RunSteps, WorkerSteps
<1>2. FreshInv' BY DEF TypeOK, FreshInv, Untouched, RestoreInv, QuietInv, Quiet, HeldInv, Disjoint
<1>3. WaitInv' BY DEF TypeOK, WaitInv, FreshInv, RestoreInv, Untouched, HeldInv, Disjoint, GrantInv
<1>4. HeldInv' BY DEF TypeOK, HeldInv, FreshInv, RestoreInv, Untouched, WaitInv, Disjoint, GrantInv, QuietInv, Quiet
<1>5. Disjoint' BY DEF TypeOK, Disjoint, FreshInv, RestoreInv, Untouched, WaitInv, GrantInv
<1>6. GrantInv' BY DEF TypeOK, GrantInv, FreshInv, RestoreInv, Untouched, WaitInv, HeldInv, QuietInv, Quiet, Disjoint
<1>7. QuietInv' BY DEF TypeOK, QuietInv, Quiet, FreshInv, RestoreInv, Untouched
<1>8. RestoreInv' BY DEF TypeOK, RestoreInv, FreshInv, Untouched, QuietInv, Quiet, HeldInv
<1>9. StartInv' BY DEF TypeOK, StartInv, RestoreInv, GrantInv
<1> QED BY <1>1, <1>2, <1>3, <1>4, <1>5, <1>6, <1>7, <1>8, <1>9

\* SavePolicy preserves every part of the inductive invariant.
LEMMA SavePolicyStep == ASSUME IInv, NEW a \in Admins, SavePolicy(a) PROVE IInv'
<1> USE RunsAssumption, WorkersAssumption, RestartsAssumption DEF IInv, Tasks, SavePolicy, EnterDispatch, At, Alive, dbVars, timeVars, lockVars, loopVars, handVars, obsVars
<1>1. TypeOK' BY DEF TypeOK, Statuses, Terminal, Permits, RunSteps, WorkerSteps
<1>2. FreshInv' BY DEF TypeOK, FreshInv, Untouched, RestoreInv, QuietInv, Quiet, HeldInv, Disjoint
<1>3. WaitInv' BY DEF TypeOK, WaitInv, FreshInv, RestoreInv, Untouched, HeldInv, Disjoint, GrantInv
<1>4. HeldInv' BY DEF TypeOK, HeldInv, FreshInv, RestoreInv, Untouched, WaitInv, Disjoint, GrantInv, QuietInv, Quiet
<1>5. Disjoint' BY DEF TypeOK, Disjoint, FreshInv, RestoreInv, Untouched, WaitInv, GrantInv
<1>6. GrantInv' BY DEF TypeOK, GrantInv, FreshInv, RestoreInv, Untouched, WaitInv, HeldInv, QuietInv, Quiet, Disjoint
<1>7. QuietInv' BY DEF TypeOK, QuietInv, Quiet, FreshInv, RestoreInv, Untouched
<1>8. RestoreInv' BY DEF TypeOK, RestoreInv, FreshInv, Untouched, QuietInv, Quiet, HeldInv
<1>9. StartInv' BY DEF TypeOK, StartInv, RestoreInv, GrantInv
<1> QED BY <1>1, <1>2, <1>3, <1>4, <1>5, <1>6, <1>7, <1>8, <1>9

\* Crash preserves every part of the inductive invariant.
LEMMA CrashStep == ASSUME IInv, Crash PROVE IInv'
<1> USE RunsAssumption, WorkersAssumption, RestartsAssumption DEF IInv, Tasks, Crash, Unseen, Alive, dbVars, timeVars, lockVars, loopVars, handVars, obsVars
<1>1. TypeOK' BY DEF TypeOK, Statuses, Terminal, Permits, RunSteps, WorkerSteps
<1>2. FreshInv' BY DEF TypeOK, FreshInv, Untouched, RestoreInv, QuietInv, Quiet, HeldInv, Disjoint
<1>3. WaitInv' BY DEF TypeOK, WaitInv, FreshInv, RestoreInv, Untouched, HeldInv, Disjoint, GrantInv
<1>4. HeldInv' BY DEF TypeOK, HeldInv, FreshInv, RestoreInv, Untouched, WaitInv, Disjoint, GrantInv, QuietInv, Quiet
<1>5. Disjoint' BY DEF TypeOK, Disjoint, FreshInv, RestoreInv, Untouched, WaitInv, GrantInv
<1>6. GrantInv' BY DEF TypeOK, GrantInv, FreshInv, RestoreInv, Untouched, WaitInv, HeldInv, QuietInv, Quiet, Disjoint
<1>7. QuietInv' BY DEF TypeOK, QuietInv, Quiet, FreshInv, RestoreInv, Untouched
<1>8. RestoreInv' BY DEF TypeOK, RestoreInv, FreshInv, Untouched, QuietInv, Quiet, HeldInv
<1>9. StartInv' BY DEF TypeOK, StartInv, RestoreInv, GrantInv
<1> QED BY <1>1, <1>2, <1>3, <1>4, <1>5, <1>6, <1>7, <1>8, <1>9

\* Boot preserves every part of the inductive invariant.
LEMMA BootStep == ASSUME IInv, Boot PROVE IInv'
<1> USE RunsAssumption, WorkersAssumption, RestartsAssumption DEF IInv, Tasks, Boot, Alive, dbVars, timeVars, lockVars, loopVars, handVars, obsVars
<1>1. TypeOK' BY DEF TypeOK, Statuses, Terminal, Permits, RunSteps, WorkerSteps
<1>2. FreshInv' BY DEF TypeOK, FreshInv, Untouched, RestoreInv, QuietInv, Quiet, HeldInv, Disjoint
<1>3. WaitInv' BY DEF TypeOK, WaitInv, FreshInv, RestoreInv, Untouched, HeldInv, Disjoint, GrantInv
<1>4. HeldInv' BY DEF TypeOK, HeldInv, FreshInv, RestoreInv, Untouched, WaitInv, Disjoint, GrantInv, QuietInv, Quiet
<1>5. Disjoint' BY DEF TypeOK, Disjoint, FreshInv, RestoreInv, Untouched, WaitInv, GrantInv
<1>6. GrantInv' BY DEF TypeOK, GrantInv, FreshInv, RestoreInv, Untouched, WaitInv, HeldInv, QuietInv, Quiet, Disjoint
<1>7. QuietInv' BY DEF TypeOK, QuietInv, Quiet, FreshInv, RestoreInv, Untouched
<1>8. RestoreInv' BY DEF TypeOK, RestoreInv, FreshInv, Untouched, QuietInv, Quiet, HeldInv
<1>9. StartInv' BY DEF TypeOK, StartInv, RestoreInv, GrantInv
<1> QED BY <1>1, <1>2, <1>3, <1>4, <1>5, <1>6, <1>7, <1>8, <1>9

\* RecoverAfterRestart preserves every part of the inductive invariant.
LEMMA RecoverAfterRestartStep == ASSUME IInv, RecoverAfterRestart PROVE IInv'
<1> USE RunsAssumption, WorkersAssumption, RestartsAssumption DEF IInv, Tasks, RecoverAfterRestart, Recovering, InStatus, Goto, At, Alive, dbVars, timeVars, lockVars, loopVars, handVars, obsVars
<1>1. TypeOK' BY DEF TypeOK, Statuses, Terminal, Permits, RunSteps, WorkerSteps
<1>2. FreshInv' BY DEF TypeOK, FreshInv, Untouched, RestoreInv, QuietInv, Quiet, HeldInv, Disjoint
<1>3. WaitInv' BY DEF TypeOK, WaitInv, FreshInv, RestoreInv, Untouched, HeldInv, Disjoint, GrantInv
<1>4. HeldInv' BY DEF TypeOK, HeldInv, FreshInv, RestoreInv, Untouched, WaitInv, Disjoint, GrantInv, QuietInv, Quiet
<1>5. Disjoint' BY DEF TypeOK, Disjoint, FreshInv, RestoreInv, Untouched, WaitInv, GrantInv
<1>6. GrantInv' BY DEF TypeOK, GrantInv, FreshInv, RestoreInv, Untouched, WaitInv, HeldInv, QuietInv, Quiet, Disjoint
<1>7. QuietInv' BY DEF TypeOK, QuietInv, Quiet, FreshInv, RestoreInv, Untouched
<1>8. RestoreInv' BY DEF TypeOK, RestoreInv, FreshInv, Untouched, QuietInv, Quiet, HeldInv
<1>9. StartInv' BY DEF TypeOK, StartInv, RestoreInv, GrantInv
<1> QED BY <1>1, <1>2, <1>3, <1>4, <1>5, <1>6, <1>7, <1>8, <1>9

\* Restore preserves every part of the inductive invariant.
LEMMA RestoreStep == ASSUME IInv, NEW r \in Runs, Restore(r) PROVE IInv'
<1> USE RunsAssumption, WorkersAssumption, RestartsAssumption DEF IInv, Tasks, Restore, PushBack, At, Oldest, Alive, dbVars, timeVars, lockVars, loopVars, handVars, obsVars
<1>1. TypeOK'
  <2>1. row' \in [Runs -> Statuses] BY DEF TypeOK, Statuses, Terminal
  <2>2. pc' \in [Tasks -> RunSteps \union WorkerSteps] /\ (\A q \in Runs : pc'[q] \in RunSteps) /\ \A w \in Workers : pc'[w] \in WorkerSteps
    BY DEF TypeOK, RunSteps, WorkerSteps
  <2>3. permit' \in [Runs -> Permits] BY DEF TypeOK, Permits
  <2>4. disp' \in [Tasks -> {"off", "read", "pick", "mark"}] /\ seen' \in [Tasks -> [enforce : BOOLEAN, limit : Nat]] /\ pick' \in [Tasks -> Runs \union {NoRun}]
    BY DEF TypeOK
  <2>5. ring' \in Seq(Users) BY DEF TypeOK
  <2> QED BY <2>1, <2>2, <2>3, <2>4, <2>5 DEF TypeOK
<1>2. FreshInv' BY DEF TypeOK, FreshInv, Untouched, RestoreInv, QuietInv, Quiet, HeldInv, Disjoint
<1>3. WaitInv' BY DEF TypeOK, WaitInv, FreshInv, RestoreInv, Untouched, HeldInv, Disjoint, GrantInv
<1>4. HeldInv' BY DEF TypeOK, HeldInv, FreshInv, RestoreInv, Untouched, WaitInv, Disjoint, GrantInv, QuietInv, Quiet
<1>5. Disjoint' BY DEF TypeOK, Disjoint, FreshInv, RestoreInv, Untouched, WaitInv, GrantInv
<1>6. GrantInv' BY DEF TypeOK, GrantInv, FreshInv, RestoreInv, Untouched, WaitInv, HeldInv, QuietInv, Quiet, Disjoint
<1>7. QuietInv' BY DEF TypeOK, QuietInv, Quiet, FreshInv, RestoreInv, Untouched
<1>8. RestoreInv' BY DEF TypeOK, RestoreInv, FreshInv, Untouched, QuietInv, Quiet, HeldInv
<1>9. StartInv' BY DEF TypeOK, StartInv, RestoreInv, GrantInv
<1> QED BY <1>1, <1>2, <1>3, <1>4, <1>5, <1>6, <1>7, <1>8, <1>9

\* SpawnRestored preserves every part of the inductive invariant.
LEMMA SpawnRestoredStep == ASSUME IInv, NEW r \in Runs, SpawnRestored(r) PROVE IInv'
<1> USE RunsAssumption, WorkersAssumption, RestartsAssumption DEF IInv, Tasks, SpawnRestored, At, Alive, dbVars, timeVars, lockVars, loopVars, handVars, obsVars
<1>1. TypeOK' BY DEF TypeOK, Statuses, Terminal, Permits, RunSteps, WorkerSteps
<1>2. FreshInv' BY DEF TypeOK, FreshInv, Untouched, RestoreInv, QuietInv, Quiet, HeldInv, Disjoint
<1>3. WaitInv' BY DEF TypeOK, WaitInv, FreshInv, RestoreInv, Untouched, HeldInv, Disjoint, GrantInv
<1>4. HeldInv' BY DEF TypeOK, HeldInv, FreshInv, RestoreInv, Untouched, WaitInv, Disjoint, GrantInv, QuietInv, Quiet
<1>5. Disjoint' BY DEF TypeOK, Disjoint, FreshInv, RestoreInv, Untouched, WaitInv, GrantInv
<1>6. GrantInv' BY DEF TypeOK, GrantInv, FreshInv, RestoreInv, Untouched, WaitInv, HeldInv, QuietInv, Quiet, Disjoint
<1>7. QuietInv' BY DEF TypeOK, QuietInv, Quiet, FreshInv, RestoreInv, Untouched
<1>8. RestoreInv' BY DEF TypeOK, RestoreInv, FreshInv, Untouched, QuietInv, Quiet, HeldInv
<1>9. StartInv' BY DEF TypeOK, StartInv, RestoreInv, GrantInv
<1> QED BY <1>1, <1>2, <1>3, <1>4, <1>5, <1>6, <1>7, <1>8, <1>9

\* RefuseRestore preserves every part of the inductive invariant.
LEMMA RefuseRestoreStep == ASSUME IInv, NEW r \in Runs, RefuseRestore(r) PROVE IInv'
<1> USE RunsAssumption, WorkersAssumption, RestartsAssumption DEF IInv, Tasks, RefuseRestore, TryUpdate, DbFails, EnterDispatch, At, Oldest, Alive, dbVars, timeVars, lockVars, loopVars, handVars, obsVars
<1>1. TypeOK'
  <2>1. row' \in [Runs -> Statuses] BY DEF TypeOK, Statuses, Terminal
  <2>2. pc' \in [Tasks -> RunSteps \union WorkerSteps] /\ (\A q \in Runs : pc'[q] \in RunSteps) /\ \A w \in Workers : pc'[w] \in WorkerSteps
    BY DEF TypeOK, RunSteps, WorkerSteps
  <2>3. permit' \in [Runs -> Permits] BY DEF TypeOK, Permits
  <2>4. disp' \in [Tasks -> {"off", "read", "pick", "mark"}] /\ seen' \in [Tasks -> [enforce : BOOLEAN, limit : Nat]] /\ pick' \in [Tasks -> Runs \union {NoRun}]
    BY DEF TypeOK
  <2> QED BY <2>1, <2>2, <2>3, <2>4 DEF TypeOK
<1>2. FreshInv' BY DEF TypeOK, FreshInv, Untouched, RestoreInv, QuietInv, Quiet, HeldInv, Disjoint
<1>3. WaitInv' BY DEF TypeOK, WaitInv, FreshInv, RestoreInv, Untouched, HeldInv, Disjoint, GrantInv
<1>4. HeldInv' BY DEF TypeOK, HeldInv, FreshInv, RestoreInv, Untouched, WaitInv, Disjoint, GrantInv, QuietInv, Quiet
<1>5. Disjoint' BY DEF TypeOK, Disjoint, FreshInv, RestoreInv, Untouched, WaitInv, GrantInv
<1>6. GrantInv' BY DEF TypeOK, GrantInv, FreshInv, RestoreInv, Untouched, WaitInv, HeldInv, QuietInv, Quiet, Disjoint
<1>7. QuietInv' BY DEF TypeOK, QuietInv, Quiet, FreshInv, RestoreInv, Untouched
<1>8. RestoreInv' BY DEF TypeOK, RestoreInv, FreshInv, Untouched, QuietInv, Quiet, HeldInv
<1>9. StartInv' BY DEF TypeOK, StartInv, RestoreInv, GrantInv
<1> QED BY <1>1, <1>2, <1>3, <1>4, <1>5, <1>6, <1>7, <1>8, <1>9

\* Serve preserves every part of the inductive invariant.
LEMMA ServeStep == ASSUME IInv, Serve PROVE IInv'
<1> USE RunsAssumption, WorkersAssumption, RestartsAssumption DEF IInv, Tasks, Serve, Goto, At, Alive, dbVars, timeVars, lockVars, loopVars, handVars, obsVars
<1>1. TypeOK' BY DEF TypeOK, Statuses, Terminal, Permits, RunSteps, WorkerSteps
<1>2. FreshInv' BY DEF TypeOK, FreshInv, Untouched, RestoreInv, QuietInv, Quiet, HeldInv, Disjoint
<1>3. WaitInv' BY DEF TypeOK, WaitInv, FreshInv, RestoreInv, Untouched, HeldInv, Disjoint, GrantInv
<1>4. HeldInv' BY DEF TypeOK, HeldInv, FreshInv, RestoreInv, Untouched, WaitInv, Disjoint, GrantInv, QuietInv, Quiet
<1>5. Disjoint' BY DEF TypeOK, Disjoint, FreshInv, RestoreInv, Untouched, WaitInv, GrantInv
<1>6. GrantInv' BY DEF TypeOK, GrantInv, FreshInv, RestoreInv, Untouched, WaitInv, HeldInv, QuietInv, Quiet, Disjoint
<1>7. QuietInv' BY DEF TypeOK, QuietInv, Quiet, FreshInv, RestoreInv, Untouched
<1>8. RestoreInv' BY DEF TypeOK, RestoreInv, FreshInv, Untouched, QuietInv, Quiet, HeldInv
<1>9. StartInv' BY DEF TypeOK, StartInv, RestoreInv, GrantInv
<1> QED BY <1>1, <1>2, <1>3, <1>4, <1>5, <1>6, <1>7, <1>8, <1>9

\* DeleteRow preserves every part of the inductive invariant.
LEMMA DeleteRowStep == ASSUME IInv, NEW r \in Runs, DeleteRow(r) PROVE IInv'
<1> USE RunsAssumption, WorkersAssumption, RestartsAssumption DEF IInv, Tasks, DeleteRow, Alive, dbVars, timeVars, lockVars, loopVars, handVars, obsVars
<1>1. TypeOK' BY DEF TypeOK, Statuses, Terminal, Permits, RunSteps, WorkerSteps
<1>2. FreshInv' BY DEF TypeOK, FreshInv, Untouched, RestoreInv, QuietInv, Quiet, HeldInv, Disjoint
<1>3. WaitInv' BY DEF TypeOK, WaitInv, FreshInv, RestoreInv, Untouched, HeldInv, Disjoint, GrantInv
<1>4. HeldInv' BY DEF TypeOK, HeldInv, FreshInv, RestoreInv, Untouched, WaitInv, Disjoint, GrantInv, QuietInv, Quiet
<1>5. Disjoint' BY DEF TypeOK, Disjoint, FreshInv, RestoreInv, Untouched, WaitInv, GrantInv
<1>6. GrantInv' BY DEF TypeOK, GrantInv, FreshInv, RestoreInv, Untouched, WaitInv, HeldInv, QuietInv, Quiet, Disjoint
<1>7. QuietInv' BY DEF TypeOK, QuietInv, Quiet, FreshInv, RestoreInv, Untouched
<1>8. RestoreInv' BY DEF TypeOK, RestoreInv, FreshInv, Untouched, QuietInv, Quiet, HeldInv
<1>9. StartInv' BY DEF TypeOK, StartInv, RestoreInv, GrantInv
<1> QED BY <1>1, <1>2, <1>3, <1>4, <1>5, <1>6, <1>7, <1>8, <1>9

\* DropHandler preserves every part of the inductive invariant.
LEMMA DropHandlerStep == ASSUME IInv, NEW t \in Runs \union Admins, DropHandler(t) PROVE IInv'
<1> USE RunsAssumption, WorkersAssumption, RestartsAssumption DEF IInv, Tasks, DropHandler, InHandler, At, Unseen, Alive, dbVars, timeVars, lockVars, loopVars, handVars, obsVars
<1>1. TypeOK'
  <2>1. row' \in [Runs -> Statuses] BY ZenonT(60) DEF TypeOK, Statuses, Terminal
  <2>2. pc' \in [Tasks -> RunSteps \union WorkerSteps] /\ (\A q \in Runs : pc'[q] \in RunSteps) /\ \A w \in Workers : pc'[w] \in WorkerSteps
    BY DEF TypeOK, RunSteps, WorkerSteps
  <2>3. permit' \in [Runs -> Permits] BY DEF TypeOK, Permits
  <2>4. disp' \in [Tasks -> {"off", "read", "pick", "mark"}] /\ seen' \in [Tasks -> [enforce : BOOLEAN, limit : Nat]] /\ pick' \in [Tasks -> Runs \union {NoRun}]
    BY DEF TypeOK
  <2> QED BY <2>1, <2>2, <2>3, <2>4 DEF TypeOK
<1>2. FreshInv' BY DEF TypeOK, FreshInv, Untouched, RestoreInv, QuietInv, Quiet, HeldInv, Disjoint
<1>3. WaitInv' BY DEF TypeOK, WaitInv, FreshInv, RestoreInv, Untouched, HeldInv, Disjoint, GrantInv
<1>4. HeldInv'
  <2>1. \A v \in Tasks : v # t => disp'[v] = disp[v] /\ pick'[v] = pick[v] BY DEF TypeOK
  <2>2. disp'[t] = "off" /\ pick'[t] = NoRun BY DEF TypeOK
  <2>3. \A v \in Tasks : v # t /\ disp[v] = "mark" =>
          /\ permit'[pick[v]] = permit[pick[v]]
          /\ row'[pick[v]] = row[pick[v]]
    BY DEF TypeOK, HeldInv, FreshInv, Untouched
  <2>4. t # Maintenance OBVIOUS
  <2>5. expiring' # {} => disp'[Maintenance] = "off" BY <2>1, <2>4 DEF HeldInv
  <2>6. ASSUME NEW v \in Tasks, disp'[v] = "mark"
        PROVE  /\ pick'[v] \in Runs /\ pick'[v] \in active'
               /\ permit'[pick'[v]] = "pending"
               /\ row'[pick'[v]] \in {"queued", "deleted"}
               /\ \A w \in Tasks : disp'[w] = "mark" /\ pick'[w] = pick'[v] => w = v
    <3>1. v # t BY <2>2, <2>6
    <3> QED BY <2>1, <2>2, <2>3, <2>6, <3>1, SMTT(40) DEF HeldInv
  <2>7. \A v \in Tasks : disp'[v] # "mark" => pick'[v] = NoRun BY <2>1, <2>2 DEF HeldInv
  <2> QED BY <2>5, <2>6, <2>7 DEF HeldInv
<1>5. Disjoint' BY DEF TypeOK, Disjoint, FreshInv, RestoreInv, Untouched, WaitInv, GrantInv
<1>6. GrantInv' BY DEF TypeOK, GrantInv, FreshInv, RestoreInv, Untouched, WaitInv, HeldInv, QuietInv, Quiet, Disjoint
<1>7. QuietInv' BY DEF TypeOK, QuietInv, Quiet, FreshInv, RestoreInv, Untouched
<1>8. RestoreInv' BY DEF TypeOK, RestoreInv, FreshInv, Untouched, QuietInv, Quiet, HeldInv
<1>9. StartInv' BY DEF TypeOK, StartInv, RestoreInv, GrantInv
<1> QED BY <1>1, <1>2, <1>3, <1>4, <1>5, <1>6, <1>7, <1>8, <1>9

\* DropCancel preserves every part of the inductive invariant.
LEMMA DropCancelStep == ASSUME IInv, NEW r \in Runs, DropCancel(r) PROVE IInv'
<1> USE RunsAssumption, WorkersAssumption, RestartsAssumption DEF IInv, Tasks, DropCancel, Alive, dbVars, timeVars, lockVars, loopVars, handVars, obsVars
<1>1. TypeOK'
  <2>1. row' \in [Runs -> Statuses] BY ZenonT(60) DEF TypeOK, Statuses, Terminal
  <2>2. permit' \in [Runs -> Permits] BY DEF TypeOK, Permits
  <2> QED BY <2>1, <2>2 DEF TypeOK
<1>2. FreshInv' BY DEF TypeOK, FreshInv, Untouched, RestoreInv, QuietInv, Quiet, HeldInv, Disjoint
<1>3. WaitInv' BY DEF TypeOK, WaitInv, FreshInv, RestoreInv, Untouched, HeldInv, Disjoint, GrantInv
<1>4. HeldInv'
  <2>1. \A q \in Runs : q # r => row'[q] = row[q] /\ permit'[q] = permit[q] BY DEF TypeOK
  <2>2. \A t \in Tasks : disp[t] = "mark" => pick[t] # r BY DEF HeldInv, Disjoint, GrantInv, WaitInv, TypeOK
  <2>3. \A t \in Tasks : disp'[t] = "mark" <=> disp[t] = "mark" BY DEF TypeOK, HeldInv
  <2> QED BY <2>1, <2>2, <2>3 DEF HeldInv, TypeOK
<1>5. Disjoint' BY DEF TypeOK, Disjoint, FreshInv, RestoreInv, Untouched, WaitInv, GrantInv
<1>6. GrantInv' BY DEF TypeOK, GrantInv, FreshInv, RestoreInv, Untouched, WaitInv, HeldInv, QuietInv, Quiet, Disjoint
<1>7. QuietInv' BY DEF TypeOK, QuietInv, Quiet, FreshInv, RestoreInv, Untouched
<1>8. RestoreInv' BY DEF TypeOK, RestoreInv, FreshInv, Untouched, QuietInv, Quiet, HeldInv
<1>9. StartInv' BY DEF TypeOK, StartInv, RestoreInv, GrantInv
<1> QED BY <1>1, <1>2, <1>3, <1>4, <1>5, <1>6, <1>7, <1>8, <1>9

-----------------------------------------------------------------------------
(* Every step preserves the inductive invariant *)

\* Every scheduler step, crash and restart included, preserves the invariant.
LEMMA NextIInv == IInv /\ [Next]_vars => IInv'
<1> SUFFICES ASSUME IInv, [Next]_vars PROVE IInv'
  OBVIOUS
<1>1. ASSUME NEW r \in Runs, Submit(r) PROVE IInv'
  BY <1>1, PreflightStep, CreateQueuedStep, PushStep DEF Submit
<1>2. ASSUME NEW r \in Runs, Execute(r) PROVE IInv'
  BY <1>2, ClaimTurnStep, PermitRefusedStep, MarkRunningStep, MarkTerminalStep, ReleaseSlotStep, PersistTipStep
     DEF Execute
<1>3. ASSUME NEW r \in Runs, CancelQueued(r) \/ SettleCancel(r) PROVE IInv'
  BY <1>3, CancelQueuedStep, SettleCancelStep
<1>4. ASSUME NEW t \in Tasks, Dispatch(t) PROVE IInv'
  BY <1>4, ReadPolicyStep, PickRunStep, PickNoneStep, MarkDispatchingStep, AbandonDispatchStep
     DEF Dispatch
<1>5. ASSUME Expire \/ TimePasses PROVE IInv'
  BY <1>5, ExpireQueuedStep, SettleExpiredStep, TimePassesStep DEF Expire
<1>6. ASSUME NEW a \in Admins, SavePolicy(a) \/ \E p \in Policies : UpdatePolicy(a, p) PROVE IInv'
  BY <1>6, SavePolicyStep, UpdatePolicyStep
<1>7. ASSUME Boot \/ Recover PROVE IInv'
  BY <1>7, BootStep, RecoverAfterRestartStep, ServeStep, RestoreStep, SpawnRestoredStep,
     RefuseRestoreStep DEF Recover
<1>8. ASSUME Environment PROVE IInv'
  BY <1>8, CrashStep, DropHandlerStep, DeleteRowStep, DropCancelStep DEF Environment
<1>9. CASE UNCHANGED vars
  BY <1>9 DEF vars, dbVars, timeVars, lockVars, loopVars, handVars, obsVars, IInv, TypeOK, FreshInv,
     WaitInv, HeldInv, Disjoint, GrantInv, QuietInv, Quiet, RestoreInv, StartInv, Untouched
<1> QED
  BY <1>1, <1>2, <1>3, <1>4, <1>5, <1>6, <1>7, <1>8, <1>9 DEF Next

\* The inductive invariant holds in every reachable state.
LEMMA SpecIInv == Spec => []IInv
BY InitIInv, NextIInv, PTL DEF Spec

\* The variables keep their types, with every event the environment produces.
THEOREM TypeCorrect == Spec => []TypeOK
BY SpecIInv, PTL DEF IInv

\* The turn of a run begins at most once, across crashes and restarts, with
\* failing writes, deleted rows and dropped handlers.
THEOREM StartsOnce == Spec => []AtMostOnce
<1>1. IInv => AtMostOnce BY DEF IInv, StartInv, AtMostOnce
<1> QED BY <1>1, SpecIInv, PTL

\* A run is in the deque, in a slot, or in the hands of one cancel or expiry.
THEOREM OneHomeAlways == Spec => []OneHome
<1>1. IInv => OneHome BY DEF IInv, TypeOK, Disjoint, HeldInv, OneHome
<1> QED BY <1>1, SpecIInv, PTL

-----------------------------------------------------------------------------
(* What a step does to a row *)

RowMoves(r) ==
  \/ row'[r] = row[r]
  \/ row[r] = "absent" /\ row'[r] = "queued"
  \/ row[r] = "queued" /\ row'[r] \in {"dispatching", "cancelled", "timed_out", "failed"}
  \/ row[r] \in {"dispatching", "running"} /\ row'[r] \in {"running", "completed", "failed", "timed_out"}
  \/ row[r] # "absent" /\ row'[r] = "deleted"

\* Every step moves each row along one of these transitions, or not at all.
LEMMA RowStep == IInv /\ [Next]_vars => \A q \in Runs : RowMoves(q)
<1> SUFFICES ASSUME IInv, [Next]_vars, NEW q \in Runs PROVE RowMoves(q)
  OBVIOUS
<1> USE DEF RowMoves, dbVars
<1>1. ASSUME NEW r \in Runs, Submit(r) PROVE RowMoves(q)
  BY <1>1 DEF Submit, Preflight, CreateQueued, Push, At, IInv, FreshInv, TypeOK
<1>2. ASSUME NEW r \in Runs, Execute(r) PROVE RowMoves(q)
  <2>1. CASE MarkRunning(r)
    BY <2>1 DEF MarkRunning, At, TryUpdate, IInv, TypeOK, GrantInv
  <2>2. CASE MarkTerminal(r)
    BY <2>2 DEF MarkTerminal, At, TryUpdate, IInv, TypeOK, GrantInv
  <2> QED
    BY <1>2, <2>1, <2>2 DEF Execute, ClaimTurn, PermitRefused, ReleaseSlot, PersistTip
<1>3. ASSUME NEW r \in Runs, CancelQueued(r) \/ SettleCancel(r) PROVE RowMoves(q)
  BY <1>3 DEF CancelQueued, SettleCancel, IInv, TypeOK
<1>4. ASSUME NEW t \in Tasks, Dispatch(t) PROVE RowMoves(q)
  BY <1>4 DEF Dispatch, ReadPolicy, PickRun, PickNone, MarkDispatching, AbandonDispatch, IInv, TypeOK
<1>5. ASSUME Expire \/ TimePasses PROVE RowMoves(q)
  BY <1>5 DEF Expire, ExpireQueued, SettleExpired, TimePasses, TryUpdate, IInv, TypeOK, WaitInv
<1>6. ASSUME NEW a \in Admins, SavePolicy(a) \/ \E p \in Policies : UpdatePolicy(a, p) PROVE RowMoves(q)
  BY <1>6 DEF SavePolicy, UpdatePolicy
<1>7. ASSUME Boot \/ Recover PROVE RowMoves(q)
  BY <1>7 DEF Boot, Recover, RecoverAfterRestart, Recovering, InStatus, Serve, Restore, SpawnRestored, RefuseRestore, Oldest,
     TryUpdate, IInv, TypeOK, RestoreInv
<1>8. ASSUME Environment PROVE RowMoves(q)
  <2>1. ASSUME NEW t \in Runs \union Admins, DropHandler(t) PROVE RowMoves(q)
    BY <2>1, WorkersAssumption DEF DropHandler, InHandler, IInv, TypeOK, FreshInv, Tasks, WorkerSteps
  <2> QED
    BY <1>8, <2>1 DEF Environment, Crash, DeleteRow, DropCancel, IInv, TypeOK
<1>9. CASE UNCHANGED vars
  BY <1>9 DEF vars
<1> QED
  BY <1>1, <1>2, <1>3, <1>4, <1>5, <1>6, <1>7, <1>8, <1>9 DEF Next

\* A terminal status is final although the UPDATEs of mark_running and
\* mark_terminal carry no guard.
THEOREM TerminalStaysTerminal == Spec => TerminalIsFinal
<1>1. IInv /\ [Next]_vars => [\A r \in Runs : row[r] \in Terminal => row'[r] \in {row[r], "deleted"}]_vars
  BY RowStep DEF RowMoves, Terminal
<1> QED BY <1>1, SpecIInv, PTL DEF Spec, TerminalIsFinal

-----------------------------------------------------------------------------
(* Slots: no leak *)

\* The step of an owner of a slot, or the loop t that holds run q, is kept.
Owner(q) == permit[q] = "ok" /\ pc[q] \in {"enqueue", "await", "claimed", "running", "release", "unrouted"}
HeldBy(q, t) == disp[t] = "mark" /\ pick[t] = q

\* As long as no handler is dropped, a run that is queued or held by a loop has
\* its task.
TaskInv ==
  /\ \A r \in queue : pc[r] \in {"enqueue", "await"}
  /\ \A t \in Tasks : disp[t] = "mark" => pc[pick[t]] \in {"enqueue", "await"}

\* Every step keeps the task of a run that is queued or held by a loop.
LEMMA TaskStep ==
  ASSUME IInv, TaskInv, [Next]_vars, "disconnect" \notin Events PROVE TaskInv'
<1> USE WorkersAssumption DEF dbVars, lockVars, loopVars, handVars, Tasks, At, IInv, TypeOK, TaskInv
<1>1. ASSUME NEW r \in Runs, Submit(r) PROVE TaskInv'
  <2>1. CASE Preflight(r)
    BY <2>1 DEF Preflight, Goto, FreshInv, Untouched, HeldInv
  <2>2. CASE CreateQueued(r)
    <3>1. UNCHANGED <<queue, loopVars>> /\ \E s \in {"push", "done"} : pc' = [pc EXCEPT ![r] = s]
      BY <2>2 DEF CreateQueued, Goto
    <3>2. r \notin queue /\ r \notin active
      BY <2>2 DEF CreateQueued, FreshInv, Untouched
    <3>3. \A t \in Tasks : disp[t] = "mark" => pick[t] \in Runs /\ pick[t] # r
      BY <3>2 DEF HeldInv
    <3> QED BY <3>1, <3>2, <3>3
  <2>3. CASE Push(r)
    BY <2>3 DEF Push, PushBack, EnterDispatch, FreshInv, Untouched, HeldInv
  <2> QED BY <1>1, <2>1, <2>2, <2>3 DEF Submit
<1>2. ASSUME NEW r \in Runs, Execute(r) PROVE TaskInv'
  <2>1. CASE ClaimTurn(r)
    BY <2>1 DEF ClaimTurn, Goto, WaitInv, HeldInv
  <2>2. CASE PermitRefused(r)
    BY <2>2 DEF PermitRefused, Goto, WaitInv, HeldInv
  <2>3. CASE MarkRunning(r)
    BY <2>3 DEF MarkRunning, Goto, WaitInv, HeldInv
  <2>4. CASE MarkTerminal(r)
    <3>1. UNCHANGED <<queue, loopVars>> /\ \E s \in {"release", "unrouted"} : pc' = [pc EXCEPT ![r] = s]
      BY <2>4 DEF MarkTerminal, Goto
    <3>2. permit[r] = "ok"
      BY <2>4 DEF MarkTerminal, GrantInv
    <3>3. r \notin queue /\ \A t \in Tasks : disp[t] = "mark" => pick[t] \in Runs /\ pick[t] # r
      BY <3>2 DEF WaitInv, HeldInv
    <3> QED BY <3>1, <3>3
  <2>5. CASE ReleaseSlot(r)
    <3>1. UNCHANGED <<queue, pick>> /\ \E s \in {"finish", "tip"} : pc' = [pc EXCEPT ![r] = s]
      BY <2>5 DEF ReleaseSlot, EnterDispatch
    <3>2. permit[r] = "ok" /\ disp' = [disp EXCEPT ![r] = "read"]
      BY <2>5 DEF ReleaseSlot, EnterDispatch, GrantInv
    <3>3. r \notin queue /\ \A t \in Tasks : disp[t] = "mark" => pick[t] \in Runs /\ pick[t] # r
      BY <3>2 DEF WaitInv, HeldInv
    <3> QED BY <3>1, <3>2, <3>3
  <2>6. CASE PersistTip(r)
    BY <2>6 DEF PersistTip, Goto, WaitInv, HeldInv
  <2> QED BY <1>2, <2>1, <2>2, <2>3, <2>4, <2>5, <2>6 DEF Execute
<1>3. ASSUME NEW r \in Runs, CancelQueued(r) \/ SettleCancel(r) PROVE TaskInv'
  BY <1>3 DEF CancelQueued, SettleCancel, RemoveFromQueue
<1>4. ASSUME NEW v \in Tasks, Dispatch(v) PROVE TaskInv'
  <2>1. CASE ReadPolicy(v)
    BY <2>1 DEF ReadPolicy
  <2>2. ASSUME NEW r \in Runs, PickRun(v, r) PROVE TaskInv'
    BY <2>2 DEF PickRun, RemoveFromQueue, IsNext
  <2>3. CASE PickNone(v)
    BY <2>3 DEF PickNone, Resume, HeldInv
  <2>4. CASE MarkDispatching(v)
    BY <2>4 DEF MarkDispatching, NextIteration, HeldInv
  <2>5. CASE AbandonDispatch(v)
    BY <2>5 DEF AbandonDispatch, NextIteration, HeldInv
  <2> QED BY <1>4, <2>1, <2>2, <2>3, <2>4, <2>5 DEF Dispatch
<1>5. ASSUME Expire \/ TimePasses PROVE TaskInv'
  <2>1. CASE ExpireQueued
    BY <2>1 DEF ExpireQueued, RemoveFromQueue, EnterDispatch, Goto, HeldInv
  <2>2. ASSUME NEW r \in Runs, SettleExpired(r) PROVE TaskInv'
    BY <2>2 DEF SettleExpired, EnterDispatch, Goto, HeldInv
  <2>3. CASE TimePasses
    BY <2>3 DEF TimePasses
  <2> QED BY <1>5, <2>1, <2>2, <2>3 DEF Expire
<1>6. ASSUME NEW a \in Admins, SavePolicy(a) \/ \E p \in Policies : UpdatePolicy(a, p) PROVE TaskInv'
  <2>1. /\ queue' = queue /\ pick' = pick
        /\ \A r \in Runs : pc'[r] = pc[r]
        /\ \A t \in Tasks : disp'[t] = "mark" => disp[t] = "mark"
    BY <1>6 DEF SavePolicy, UpdatePolicy, EnterDispatch, Goto
  <2>2. \A t \in Tasks : disp[t] = "mark" => pick[t] \in Runs
    BY DEF HeldInv
  <2> QED BY <2>1, <2>2
<1>7. ASSUME Boot \/ Recover PROVE TaskInv'
  <2>1. CASE Boot
    BY <2>1 DEF Boot
  <2>2. CASE RecoverAfterRestart
    BY <2>2 DEF RecoverAfterRestart, Recovering, InStatus, Goto, HeldInv
  <2>3. CASE Serve
    BY <2>3 DEF Serve, Goto, HeldInv
  <2>4. ASSUME NEW r \in Runs, Restore(r) PROVE TaskInv'
    <3>1. /\ queue' = queue \union {r} /\ pick' = pick
          /\ pc' = [pc EXCEPT ![r] = "enqueue", ![Recovery] = "restored"]
          /\ disp' = [disp EXCEPT ![Recovery] = "read"]
      BY <2>4 DEF Restore, PushBack
    <3>2. \A q \in Runs : pc'[q] = IF q = r THEN "enqueue" ELSE pc[q]
      BY <3>1
    <3>3. \A t \in Tasks : disp'[t] = "mark" => disp[t] = "mark" /\ pick[t] \in Runs
      BY <3>1 DEF HeldInv
    <3> QED BY <3>1, <3>2, <3>3
  <2>5. ASSUME NEW r \in Runs, SpawnRestored(r) PROVE TaskInv'
    BY <2>5 DEF SpawnRestored, HeldInv
  <2>6. ASSUME NEW r \in Runs, RefuseRestore(r) PROVE TaskInv'
    BY <2>6 DEF RefuseRestore, EnterDispatch, HeldInv
  <2> QED BY <1>7, <2>1, <2>2, <2>3, <2>4, <2>5, <2>6 DEF Recover
<1>8. ASSUME Environment PROVE TaskInv'
  BY <1>8 DEF Environment, Crash, DropHandler, DeleteRow, DropCancel
<1>9. CASE UNCHANGED vars
  BY <1>9 DEF vars
<1> QED
  BY <1>1, <1>2, <1>3, <1>4, <1>5, <1>6, <1>7, <1>8, <1>9 DEF Next

\* A loop keeps the run it holds until it gives back its slot or grants it.
LEMMA HeldStep ==
  ASSUME IInv, TaskInv, [Next]_vars, "disconnect" \notin Events,
         NEW q \in Runs, q \in active', NEW t \in Tasks, HeldBy(q, t)
  PROVE  HeldBy(q, t)' \/ Owner(q)'
<1> USE WorkersAssumption DEF dbVars, lockVars, loopVars, handVars, Tasks, At, IInv, TypeOK, HeldBy, Owner, HeldInv
<1>1. ASSUME NEW r \in Runs, Submit(r) PROVE HeldBy(q, t)' \/ Owner(q)'
  BY <1>1 DEF Submit, Preflight, CreateQueued, Push, PushBack, Goto, EnterDispatch
<1>2. ASSUME NEW r \in Runs, Execute(r) PROVE HeldBy(q, t)' \/ Owner(q)'
  BY <1>2 DEF Execute, ClaimTurn, PermitRefused, MarkRunning, MarkTerminal, ReleaseSlot, PersistTip, Goto, EnterDispatch
<1>3. ASSUME NEW r \in Runs, CancelQueued(r) \/ SettleCancel(r) PROVE HeldBy(q, t)' \/ Owner(q)'
  BY <1>3 DEF CancelQueued, SettleCancel, RemoveFromQueue
<1>4. ASSUME NEW v \in Tasks, Dispatch(v) PROVE HeldBy(q, t)' \/ Owner(q)'
  BY <1>4 DEF Dispatch, ReadPolicy, PickRun, PickNone, MarkDispatching, AbandonDispatch,
     NextIteration, Resume, RemoveFromQueue, IsNext, TaskInv
<1>5. ASSUME Expire \/ TimePasses PROVE HeldBy(q, t)' \/ Owner(q)'
  BY <1>5 DEF Expire, ExpireQueued, SettleExpired, TimePasses, RemoveFromQueue, EnterDispatch, Goto, Overdue
<1>6. ASSUME NEW a \in Admins, SavePolicy(a) \/ \E p \in Policies : UpdatePolicy(a, p) PROVE HeldBy(q, t)' \/ Owner(q)'
  BY <1>6 DEF SavePolicy, UpdatePolicy, EnterDispatch, Goto
<1>7. ASSUME Boot \/ Recover PROVE HeldBy(q, t)' \/ Owner(q)'
  BY <1>7 DEF Boot, Recover, RecoverAfterRestart, Recovering, InStatus, Serve, Restore, SpawnRestored, RefuseRestore, PushBack,
     EnterDispatch, Goto, Oldest
<1>8. ASSUME Environment PROVE HeldBy(q, t)' \/ Owner(q)'
  BY <1>8 DEF Environment, Crash, DropHandler, DeleteRow, DropCancel
<1>9. CASE UNCHANGED vars
  BY <1>9 DEF vars
<1> QED
  BY <1>1, <1>2, <1>3, <1>4, <1>5, <1>6, <1>7, <1>8, <1>9 DEF Next

\* An execution task owns its slot until it releases it.
LEMMA OwnerStep ==
  ASSUME IInv, [Next]_vars, "disconnect" \notin Events,
         NEW q \in Runs, q \in active, q \in active', Owner(q)
  PROVE  Owner(q)'
<1> USE WorkersAssumption DEF dbVars, lockVars, loopVars, handVars, Tasks, At, IInv, TypeOK, Owner
<1>1. ASSUME NEW r \in Runs, Submit(r) PROVE Owner(q)'
  BY <1>1 DEF Submit, Preflight, CreateQueued, Push, PushBack, Goto, EnterDispatch, FreshInv, Untouched
<1>2. ASSUME NEW r \in Runs, Execute(r) PROVE Owner(q)'
  BY <1>2 DEF Execute, ClaimTurn, PermitRefused, MarkRunning, MarkTerminal, ReleaseSlot, PersistTip, Goto, EnterDispatch, GrantInv
<1>3. ASSUME NEW r \in Runs, CancelQueued(r) \/ SettleCancel(r) PROVE Owner(q)'
  BY <1>3 DEF CancelQueued, SettleCancel, RemoveFromQueue, Disjoint
<1>4. ASSUME NEW v \in Tasks, Dispatch(v) PROVE Owner(q)'
  BY <1>4 DEF Dispatch, ReadPolicy, PickRun, PickNone, MarkDispatching, AbandonDispatch,
     NextIteration, Resume, RemoveFromQueue, IsNext, HeldInv
<1>5. ASSUME Expire \/ TimePasses PROVE Owner(q)'
  BY <1>5 DEF Expire, ExpireQueued, SettleExpired, TimePasses, RemoveFromQueue, EnterDispatch, Goto, Overdue, Disjoint
<1>6. ASSUME NEW a \in Admins, SavePolicy(a) \/ \E p \in Policies : UpdatePolicy(a, p) PROVE Owner(q)'
  BY <1>6 DEF SavePolicy, UpdatePolicy, EnterDispatch, Goto
<1>7. ASSUME Boot \/ Recover PROVE Owner(q)'
  BY <1>7 DEF Boot, Recover, RecoverAfterRestart, Recovering, InStatus, Serve, Restore, SpawnRestored, RefuseRestore, PushBack,
     EnterDispatch, Goto, Oldest, RestoreInv, QuietInv, Quiet, Untouched
<1>8. ASSUME Environment PROVE Owner(q)'
  BY <1>8 DEF Environment, Crash, DropHandler, DeleteRow, DropCancel
<1>9. CASE UNCHANGED vars
  BY <1>9 DEF vars
<1> QED
  BY <1>1, <1>2, <1>3, <1>4, <1>5, <1>6, <1>7, <1>8, <1>9 DEF Next

\* A run that enters active is held by the loop that picked it.
LEMMA EnterStep ==
  ASSUME IInv, [Next]_vars, NEW q \in Runs, q \notin active, q \in active'
  PROVE  \E t \in Tasks : HeldBy(q, t)'
<1> USE WorkersAssumption DEF dbVars, lockVars, loopVars, handVars, Tasks, At, IInv, TypeOK, HeldBy
<1>1. ASSUME NEW r \in Runs, Submit(r) PROVE \E t \in Tasks : HeldBy(q, t)'
  BY <1>1 DEF Submit, Preflight, CreateQueued, Push, PushBack, Goto, EnterDispatch
<1>2. ASSUME NEW r \in Runs, Execute(r) PROVE \E t \in Tasks : HeldBy(q, t)'
  BY <1>2 DEF Execute, ClaimTurn, PermitRefused, MarkRunning, MarkTerminal, ReleaseSlot, PersistTip, Goto, EnterDispatch
<1>3. ASSUME NEW r \in Runs, CancelQueued(r) \/ SettleCancel(r) PROVE \E t \in Tasks : HeldBy(q, t)'
  BY <1>3 DEF CancelQueued, SettleCancel, RemoveFromQueue
<1>4. ASSUME NEW v \in Tasks, Dispatch(v) PROVE \E t \in Tasks : HeldBy(q, t)'
  <2>1. ASSUME NEW r \in Runs, PickRun(v, r) PROVE HeldBy(q, v)'
    BY <2>1 DEF PickRun
  <2> QED
    BY <1>4, <2>1 DEF Dispatch, ReadPolicy, PickNone, MarkDispatching, AbandonDispatch
<1>5. ASSUME Expire \/ TimePasses PROVE \E t \in Tasks : HeldBy(q, t)'
  BY <1>5 DEF Expire, ExpireQueued, SettleExpired, TimePasses, RemoveFromQueue, EnterDispatch, Goto, Overdue
<1>6. ASSUME NEW a \in Admins, SavePolicy(a) \/ \E p \in Policies : UpdatePolicy(a, p) PROVE \E t \in Tasks : HeldBy(q, t)'
  BY <1>6 DEF SavePolicy, UpdatePolicy, EnterDispatch, Goto
<1>7. ASSUME Boot \/ Recover PROVE \E t \in Tasks : HeldBy(q, t)'
  BY <1>7 DEF Boot, Recover, RecoverAfterRestart, Recovering, InStatus, Serve, Restore, SpawnRestored, RefuseRestore, PushBack,
     EnterDispatch, Goto, Oldest
<1>8. ASSUME Environment PROVE \E t \in Tasks : HeldBy(q, t)'
  BY <1>8 DEF Environment, Crash, DropHandler, DeleteRow, DropCancel
<1>9. CASE UNCHANGED vars
  BY <1>9 DEF vars
<1> QED
  BY <1>1, <1>2, <1>3, <1>4, <1>5, <1>6, <1>7, <1>8, <1>9 DEF Next

SlotInv == "disconnect" \notin Events => TaskInv /\ SlotOwned

\* Every step keeps, for each slot, the loop or the task that will release it.
LEMMA SlotStep == IInv /\ SlotInv /\ [Next]_vars => SlotInv'
<1> SUFFICES ASSUME IInv, TaskInv, SlotOwned, [Next]_vars, "disconnect" \notin Events
             PROVE  TaskInv' /\ SlotOwned'
  BY DEF SlotInv
<1>1. TaskInv' BY TaskStep
<1>2. ASSUME NEW q \in Runs, q \in active'
      PROVE  (\E t \in Tasks : HeldBy(q, t)') \/ Owner(q)'
  <2>1. CASE q \notin active BY <1>2, <2>1, EnterStep
  <2>2. CASE \E t \in Tasks : HeldBy(q, t) BY <1>2, <2>2, HeldStep
  <2>3. CASE q \in active /\ Owner(q) BY <1>2, <2>3, OwnerStep
  <2> QED BY <2>1, <2>2, <2>3 DEF SlotOwned, HeldBy, Owner
<1>3. active' \subseteq Runs BY NextIInv DEF IInv, TypeOK
<1>4. SlotOwned' BY <1>2, <1>3 DEF SlotOwned, HeldBy, Owner
<1> QED BY <1>1, <1>4

\* No slot leaks unless the server drops a handler's future: a run stays in
\* active only while a loop or an execution task holds it.
THEOREM SlotsAreOwned == Spec => []SlotOwned
<1>1. Init => SlotInv
  BY DEF Init, SlotInv, SlotOwned, TaskInv
<1>2. SlotInv => SlotOwned
  BY DEF SlotInv, SlotOwned
<1> QED BY <1>1, <1>2, SpecIInv, SlotStep, PTL DEF Spec

-----------------------------------------------------------------------------
(* Capacity in Enforce mode *)

\* What the loops have read is a limit some policy sets.
SeenInv ==
  \A t \in Tasks :
    /\ seen[t].enforce
    /\ \E p \in Policies : seen[t].limit <= p.limit

CapacityInv == AlwaysEnforced => SeenInv /\ OneActivePerUser /\ WithinLargestLimit

\* Only ReadPolicy changes a snapshot to something other than Unseen.
LEMMA SeenStep ==
  ASSUME IInv, SeenInv, AlwaysEnforced, [Next]_vars PROVE SeenInv'
<1> USE DEF loopVars, IInv, TypeOK
<1>0. \E p \in Policies : 0 <= p.limit
  BY PolicyAssumption DEF Policy
<1>1. ASSUME NEW t \in Tasks, ReadPolicy(t) PROVE SeenInv'
  <2>1. PICK m \in Memory : seen' = [seen EXCEPT ![t] = [enforce |-> policy.enforce,
                                                        limit |-> EffectiveLimit(policy, m)]]
    BY <1>1 DEF ReadPolicy
  <2>2. policy \in Policies /\ policy.enforce /\ policy.limit \in Nat
    BY PolicyAssumption DEF AlwaysEnforced, Policy
  <2>3. EffectiveLimit(policy, m) <= policy.limit
    BY <2>2 DEF EffectiveLimit
  <2> QED BY <2>1, <2>2, <2>3 DEF SeenInv
<1>2. ASSUME seen' = seen PROVE SeenInv'
  BY <1>2 DEF SeenInv
<1>3. ASSUME NEW t \in Tasks, seen' = [seen EXCEPT ![t] = Unseen] PROVE SeenInv'
  BY <1>0, <1>3 DEF SeenInv, Unseen
<1>4. ASSUME seen' = [t \in Tasks |-> Unseen] PROVE SeenInv'
  BY <1>0, <1>4 DEF SeenInv, Unseen
<1>5. ASSUME NEW r \in Runs, Submit(r) PROVE SeenInv'
  BY <1>2, <1>5 DEF Submit, Preflight, CreateQueued, Push, Goto, EnterDispatch
<1>6. ASSUME NEW r \in Runs, Execute(r) PROVE SeenInv'
  BY <1>2, <1>6 DEF Execute, ClaimTurn, PermitRefused, MarkRunning, MarkTerminal, ReleaseSlot, PersistTip, Goto,
     EnterDispatch
<1>7. ASSUME NEW t \in Tasks, Dispatch(t) PROVE SeenInv'
  BY <1>1, <1>2, <1>3, <1>7 DEF Dispatch, PickRun, PickNone, MarkDispatching, AbandonDispatch, NextIteration
<1>8. ASSUME Boot \/ Recover PROVE SeenInv'
  BY <1>2, <1>8 DEF Boot, Recover, RecoverAfterRestart, Recovering, InStatus, Serve, Restore, SpawnRestored, RefuseRestore, Goto,
     EnterDispatch
<1>9. ASSUME Environment PROVE SeenInv'
  BY <1>2, <1>3, <1>4, <1>9 DEF Environment, Crash, DropHandler, DeleteRow, DropCancel, Tasks
<1>10. ASSUME Expire \/ TimePasses PROVE SeenInv'
  BY <1>2, <1>10 DEF Expire, ExpireQueued, SettleExpired, TimePasses, Goto, EnterDispatch
<1>11. ASSUME NEW a \in Admins, SavePolicy(a) \/ \E p \in Policies : UpdatePolicy(a, p) PROVE SeenInv'
  BY <1>2, <1>11 DEF SavePolicy, UpdatePolicy, Goto, EnterDispatch
<1>12. ASSUME NEW r \in Runs, CancelQueued(r) \/ SettleCancel(r) PROVE SeenInv'
  BY <1>2, <1>12 DEF CancelQueued, SettleCancel
<1>13. CASE UNCHANGED vars
  BY <1>2, <1>13 DEF vars
<1> QED
  BY <1>5, <1>6, <1>7, <1>8, <1>9, <1>10, <1>11, <1>12, <1>13 DEF Next

\* Only a pick adds to active, and no step changes the owner of a run.
LEMMA ActiveStep ==
  ASSUME IInv, [Next]_vars
  PROVE  /\ owner' = owner
         /\ \/ active' \subseteq active
            \/ \E t \in Tasks, r \in Runs : PickRun(t, r)
<1> USE DEF dbVars, lockVars, RemoveFromQueue
<1>1. ASSUME NEW r \in Runs, Submit(r) PROVE owner' = owner /\ active' \subseteq active
  BY <1>1 DEF Submit, Preflight, CreateQueued, Push
<1>2. ASSUME NEW r \in Runs, Execute(r) PROVE owner' = owner /\ active' \subseteq active
  BY <1>2 DEF Execute, ClaimTurn, PermitRefused, MarkRunning, MarkTerminal, ReleaseSlot, PersistTip
<1>3. ASSUME NEW r \in Runs, CancelQueued(r) \/ SettleCancel(r) PROVE owner' = owner /\ active' \subseteq active
  BY <1>3 DEF CancelQueued, SettleCancel
<1>4. ASSUME NEW t \in Tasks, Dispatch(t)
      PROVE  owner' = owner /\ (active' \subseteq active \/ \E r \in Runs : PickRun(t, r))
  BY <1>4 DEF Dispatch, ReadPolicy, PickRun, PickNone, MarkDispatching, AbandonDispatch
<1>5. ASSUME Expire \/ TimePasses PROVE owner' = owner /\ active' \subseteq active
  BY <1>5 DEF Expire, ExpireQueued, SettleExpired, TimePasses
<1>6. ASSUME NEW a \in Admins, SavePolicy(a) \/ \E p \in Policies : UpdatePolicy(a, p)
      PROVE  owner' = owner /\ active' \subseteq active
  BY <1>6 DEF SavePolicy, UpdatePolicy
<1>7. ASSUME Boot \/ Recover PROVE owner' = owner /\ active' \subseteq active
  BY <1>7 DEF Boot, Recover, RecoverAfterRestart, Recovering, InStatus, Serve, Restore, SpawnRestored, RefuseRestore
<1>8. ASSUME Environment PROVE owner' = owner /\ active' \subseteq active
  BY <1>8 DEF Environment, Crash, DropHandler, DeleteRow, DropCancel
<1>9. CASE UNCHANGED vars
  BY <1>9 DEF vars
<1> QED
  BY <1>1, <1>2, <1>3, <1>4, <1>5, <1>6, <1>7, <1>8, <1>9 DEF Next

\* Every step keeps one slot per user and the largest limit.
LEMMA CapacityStep == IInv /\ CapacityInv /\ [Next]_vars => CapacityInv'
<1> SUFFICES ASSUME IInv, AlwaysEnforced, SeenInv, OneActivePerUser, WithinLargestLimit, [Next]_vars
             PROVE  SeenInv' /\ OneActivePerUser' /\ WithinLargestLimit'
  BY DEF CapacityInv, AlwaysEnforced
<1>1. SeenInv' BY SeenStep
<1>2. IsFiniteSet(active) /\ Cardinality(active) \in Nat
  BY RunsAssumption, FS_Subset, FS_CardinalityType DEF IInv, TypeOK
<1>3. \A p \in Policies : p.limit \in Nat \ {0}
  BY PolicyAssumption DEF Policy
<1>4. CASE active' \subseteq active
  <2>1. OneActivePerUser' BY <1>4, ActiveStep DEF OneActivePerUser
  <2>2. Cardinality(active') \in Nat /\ Cardinality(active') <= Cardinality(active)
    BY <1>2, <1>4, FS_Subset, FS_CardinalityType
  <2>3. WithinLargestLimit' BY <1>2, <1>3, <1>4, <2>2 DEF WithinLargestLimit, AlwaysEnforced
  <2> QED BY <1>1, <2>1, <2>3
<1>5. ASSUME NEW t \in Tasks, NEW r \in Runs, PickRun(t, r)
      PROVE  OneActivePerUser' /\ WithinLargestLimit'
  <2>1. active' = active \union {r} /\ owner' = owner
    BY <1>5 DEF PickRun, dbVars
  <2>2. \A q \in active : owner[q] # owner[r]
    BY <1>5 DEF PickRun, SeenInv, IsNext, Eligible, ActiveOf
  <2>3. OneActivePerUser' BY <2>1, <2>2 DEF OneActivePerUser
  <2>4. Cardinality(active') \in Nat /\ Cardinality(active') <= Cardinality(active) + 1
    <3>1. IsFiniteSet(active \union {r})
          /\ (Cardinality(active \union {r}) = Cardinality(active)
              \/ Cardinality(active \union {r}) = Cardinality(active) + 1)
      BY <1>2, FS_AddElement, Zenon
    <3> QED BY <1>2, <2>1, <3>1
  <2>5. seen[t].limit \in Nat /\ Cardinality(active) < seen[t].limit
    BY <1>5 DEF PickRun, HasCapacity, SeenInv, IInv, TypeOK
  <2>6. PICK p \in Policies : seen[t].limit <= p.limit
    BY DEF SeenInv
  <2>7. Cardinality(active') <= p.limit
    BY <1>2, <1>3, <2>4, <2>5, <2>6
  <2>8. WithinLargestLimit' BY <2>7 DEF WithinLargestLimit
  <2> QED BY <2>3, <2>8
<1> QED BY <1>1, <1>4, <1>5, ActiveStep

\* The accounting of per-user and total slots holds in every reachable state.
LEMMA CapacityAlways == Spec => []CapacityInv
<1>1. Init => CapacityInv
  <2> SUFFICES ASSUME Init, AlwaysEnforced PROVE SeenInv /\ OneActivePerUser /\ WithinLargestLimit
    BY DEF CapacityInv
  <2>1. \E p \in Policies : 0 <= p.limit BY PolicyAssumption DEF Policy
  <2>2. SeenInv BY <2>1 DEF Init, SeenInv, Unseen
  <2> QED BY <2>2 DEF Init, OneActivePerUser, WithinLargestLimit
<1> QED BY <1>1, SpecIInv, CapacityStep, PTL DEF Spec

\* In Enforce mode no user ever has two active runs, whatever number of loops
\* run at the same time.
THEOREM OneActiveRunPerUser == Spec => []OneActivePerUser
<1>1. CapacityInv => OneActivePerUser
  BY DEF CapacityInv, OneActivePerUser
<1> QED BY <1>1, CapacityAlways, PTL

\* A stale snapshot never takes the scheduler beyond the largest limit that an
\* administrator may set.
THEOREM ActiveWithinLargestLimit == Spec => []WithinLargestLimit
<1>1. CapacityInv => WithinLargestLimit
  BY DEF CapacityInv, WithinLargestLimit
<1> QED BY <1>1, CapacityAlways, PTL
=============================================================================
