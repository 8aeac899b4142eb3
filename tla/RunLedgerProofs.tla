--------------------------- MODULE RunLedgerProofs ---------------------------
(***************************************************************************)
(* What the agent_runs table shows of the scheduler, for every set of      *)
(* runs, users, policies and environment events: a queued row is never     *)
(* orphaned, a run reported as timed out is not replayed, no wake-up is    *)
(* lost, and the table implements RunLedger.                               *)
(***************************************************************************)
EXTENDS AgentRunSchedulerProofs

USE DEF Workers

-----------------------------------------------------------------------------
(* Queued rows *)

\* A queued row waits for recovery, is listed by it, or is in the hands of the
\* scheduler; while the backend serves only the last is left.
RowOwned(r) ==
  \/ Quiet
  \/ r \in queue \/ r \in cancelling \/ r \in expiring \/ r \in restoring
  \/ pc[r] = "push"
  \/ \E t \in Tasks : disp[t] = "mark" /\ pick[t] = r

\* Recovery has not begun in a process that is down.
DownInv == phase = "down" => pc[Recovery] = "idle"

OwnedInv ==
  Events \intersect {"db", "disconnect"} = {} => \A r \in Runs : row[r] = "queued" => RowOwned(r)

\* A crash resets the recovery task, and nothing runs until the next boot.
LEMMA DownStep == ASSUME IInv, DownInv, [Next]_vars PROVE DownInv'
<1> USE WorkersAssumption DEF DownInv, IInv, TypeOK, Tasks
<1>1. CASE phase' = phase /\ phase = "down"
  <2>1. pc' = pc
    BY <1>1 DEF Next, vars, Submit, Preflight, CreateQueued, Push, Dispatch, ReadPolicy, PickRun, PickNone, MarkDispatching,
       AbandonDispatch, Execute, ClaimTurn, PermitRefused, MarkRunning, MarkTerminal, ReleaseSlot, PersistTip, CancelQueued,
       SettleCancel, Expire, ExpireQueued, SettleExpired, TimePasses, SavePolicy, UpdatePolicy, Boot, Recover, RecoverAfterRestart,
       Recovering, Restore, SpawnRestored, RefuseRestore, Serve, Environment, Crash, DropHandler, DeleteRow, DropCancel, Alive
  <2> QED BY <1>1, <2>1
<1>2. CASE phase' = phase /\ phase # "down"
  BY <1>2
<1>3. CASE phase' # phase
  <2>1. Crash \/ phase' # "down"
    BY <1>3 DEF Next, vars, Submit, Preflight, CreateQueued, Push, Dispatch, ReadPolicy, PickRun, PickNone, MarkDispatching,
       AbandonDispatch, Execute, ClaimTurn, PermitRefused, MarkRunning, MarkTerminal, ReleaseSlot, PersistTip, CancelQueued,
       SettleCancel, Expire, ExpireQueued, SettleExpired, TimePasses, SavePolicy, UpdatePolicy, Boot, Recover, RecoverAfterRestart,
       Recovering, Restore, SpawnRestored, RefuseRestore, Serve, Environment, DropHandler, DeleteRow, DropCancel
  <2> QED BY <2>1 DEF Crash
<1> QED BY <1>1, <1>2, <1>3

\* Every step keeps the owner of a queued row or hands the row over.
LEMMA OwnedStep ==
  ASSUME IInv, DownInv, OwnedInv, [Next]_vars PROVE OwnedInv'
<1> SUFFICES ASSUME Events \intersect {"db", "disconnect"} = {}, NEW q \in Runs, row'[q] = "queued"
             PROVE  RowOwned(q)'
  BY DEF OwnedInv
<1> USE WorkersAssumption DEF dbVars, lockVars, loopVars, handVars, Tasks, At, IInv, TypeOK, RowOwned, Quiet, DbFails
<1>0. row[q] = "queued" => RowOwned(q)
  BY DEF OwnedInv
<1>k. ASSUME row[q] = "queued",
             Quiet => Quiet',
             /\ q \in queue => q \in queue'
             /\ q \in cancelling => q \in cancelling'
             /\ q \in expiring => q \in expiring'
             /\ q \in restoring => q \in restoring',
             pc[q] = "push" => pc'[q] = "push",
             \A t \in Tasks : disp[t] = "mark" => disp'[t] = "mark" /\ pick'[t] = pick[t]
      PROVE  RowOwned(q)'
  BY <1>0, <1>k
<1> HIDE DEF RowOwned
<1>1. ASSUME NEW r \in Runs, Submit(r) PROVE RowOwned(q)'
  <2>1. CASE Preflight(r)
    BY <1>k, <2>1 DEF Preflight, Goto
  <2>2. CASE CreateQueued(r)
    <3>1. CASE q = r
      BY <2>2, <3>1 DEF CreateQueued, Goto, RowOwned
    <3> QED BY <1>k, <2>2, <3>1 DEF CreateQueued, Goto, QuietInv
  <2>3. CASE Push(r)
    <3>1. CASE q = r
      BY <2>3, <3>1 DEF Push, PushBack, RowOwned
    <3> QED BY <1>k, <2>3, <3>1 DEF Push, PushBack, EnterDispatch, QuietInv
  <2> QED BY <1>1, <2>1, <2>2, <2>3 DEF Submit
<1>2. ASSUME NEW r \in Runs, Execute(r) PROVE RowOwned(q)'
  <2>1. CASE ClaimTurn(r)
    BY <1>k, <2>1 DEF ClaimTurn, Goto
  <2>2. CASE PermitRefused(r)
    BY <1>k, <2>2 DEF PermitRefused, Goto
  <2>3. CASE MarkRunning(r)
    BY <1>k, <2>3 DEF MarkRunning, TryUpdate, Goto, GrantInv
  <2>4. CASE MarkTerminal(r)
    <3>1. /\ row'[q] = row[q]
          /\ pc[q] = "push" => pc'[q] = "push"
          /\ Quiet => Quiet'
          /\ UNCHANGED <<queue, handVars, loopVars>>
      BY <2>4 DEF MarkTerminal, TryUpdate, Goto, GrantInv, QuietInv
    <3> QED BY <1>k, <3>1
  <2>5. CASE ReleaseSlot(r)
    <3>1. /\ row'[q] = row[q]
          /\ pc[q] = "push" => pc'[q] = "push"
          /\ Quiet => Quiet'
          /\ UNCHANGED <<queue, handVars, pick>>
          /\ \A t \in Tasks : disp[t] = "mark" => disp'[t] = "mark"
      BY <2>5 DEF ReleaseSlot, EnterDispatch, QuietInv
    <3> QED BY <1>k, <3>1
  <2>6. CASE PersistTip(r)
    BY <1>k, <2>6 DEF PersistTip, Goto
  <2> QED BY <1>2, <2>1, <2>2, <2>3, <2>4, <2>5, <2>6 DEF Execute
<1>3. ASSUME NEW r \in Runs, CancelQueued(r) \/ SettleCancel(r) PROVE RowOwned(q)'
  <2>1. CASE CancelQueued(r)
    <3>1. CASE q = r
      BY <2>1, <3>1 DEF CancelQueued, RowOwned
    <3> QED BY <1>k, <2>1, <3>1 DEF CancelQueued, RemoveFromQueue
  <2>2. CASE SettleCancel(r)
    BY <1>k, <2>2 DEF SettleCancel
  <2> QED BY <1>3, <2>1, <2>2
<1>4. ASSUME NEW v \in Tasks, Dispatch(v) PROVE RowOwned(q)'
  <2>1. CASE ReadPolicy(v)
    BY <1>k, <2>1 DEF ReadPolicy
  <2>2. ASSUME NEW r \in Runs, PickRun(v, r) PROVE RowOwned(q)'
    <3>1. CASE q = r
      BY <2>2, <3>1 DEF PickRun, RowOwned
    <3> QED BY <1>k, <2>2, <3>1 DEF PickRun, RemoveFromQueue
  <2>3. CASE PickNone(v)
    <3>1. /\ row' = row /\ pick' = pick /\ UNCHANGED <<queue, handVars, phase>>
          /\ pc[q] = "push" => pc'[q] = "push"
          /\ pc[Recovery] = "idle" => pc'[Recovery] = "idle"
          /\ \A t \in Tasks : disp[t] = "mark" => disp'[t] = "mark"
      BY <2>3 DEF PickNone, Resume
    <3> QED BY <1>k, <3>1
  <2>4. CASE MarkDispatching(v) \/ AbandonDispatch(v)
    <3>1. /\ row'[q] = row[q] /\ pick[v] # q /\ disp[v] = "mark"
          /\ UNCHANGED <<queue, handVars, phase, pc>>
          /\ \A t \in Tasks \ {v} : disp'[t] = disp[t] /\ pick'[t] = pick[t]
      BY <2>4 DEF MarkDispatching, AbandonDispatch, NextIteration, HeldInv
    <3> QED BY <1>0, <3>1 DEF RowOwned
  <2> QED BY <1>4, <2>1, <2>2, <2>3, <2>4 DEF Dispatch
<1>5. ASSUME Expire \/ TimePasses PROVE RowOwned(q)'
  <2>1. CASE ExpireQueued
    <3>1. /\ row' = row /\ pick' = pick /\ UNCHANGED <<phase, pc, cancelling, restoring>>
          /\ expiring = {} /\ expiring' = Overdue /\ queue' = queue \ Overdue
          /\ \A t \in Tasks : disp[t] = "mark" => disp'[t] = "mark"
      BY <2>1 DEF ExpireQueued, RemoveFromQueue, EnterDispatch, Goto
    <3> QED BY <1>0, <3>1 DEF RowOwned
  <2>2. ASSUME NEW r \in Runs, SettleExpired(r) PROVE RowOwned(q)'
    <3>1. /\ row'[q] = row[q] /\ q # r /\ pick' = pick /\ UNCHANGED <<queue, phase, cancelling, restoring>>
          /\ pc'[q] = pc[q] /\ pc'[Recovery] = pc[Recovery]
          /\ expiring' = expiring \ {r}
          /\ \A t \in Tasks : disp[t] = "mark" => disp'[t] = "mark"
      BY <2>2 DEF SettleExpired, TryUpdate, EnterDispatch, Goto, WaitInv, HeldInv
    <3> QED BY <1>k, <3>1
  <2>3. CASE TimePasses
    BY <1>k, <2>3 DEF TimePasses
  <2> QED BY <1>5, <2>1, <2>2, <2>3 DEF Expire
<1>6. ASSUME NEW a \in Admins, SavePolicy(a) \/ \E p \in Policies : UpdatePolicy(a, p) PROVE RowOwned(q)'
  <2>1. /\ row' = row /\ pick' = pick /\ UNCHANGED <<queue, handVars, phase>>
        /\ pc'[q] = pc[q] /\ pc'[Recovery] = pc[Recovery]
        /\ \A t \in Tasks : disp[t] = "mark" => disp'[t] = "mark"
    <3>1. CASE SavePolicy(a)
      BY <3>1 DEF SavePolicy, EnterDispatch
    <3>2. ASSUME NEW p \in Policies, UpdatePolicy(a, p)
          PROVE  pc' = [pc EXCEPT ![a] = "save"] /\ UNCHANGED <<row, pick, disp, queue, handVars, phase>>
      BY <3>2 DEF UpdatePolicy, Goto
    <3> QED BY <1>6, <3>1, <3>2
  <2> QED BY <1>k, <2>1
<1>7. ASSUME Boot \/ Recover PROVE RowOwned(q)'
  <2>1. CASE Boot
    BY <2>1 DEF Boot, DownInv, RowOwned
  <2>2. CASE RecoverAfterRestart
    BY <2>2 DEF RecoverAfterRestart, Recovering, InStatus, RowOwned
  <2>3. CASE Serve
    BY <1>k, <2>3 DEF Serve, Goto
  <2>4. ASSUME NEW r \in Runs, Restore(r) PROVE RowOwned(q)'
    <3>1. CASE q = r
      BY <2>4, <3>1 DEF Restore, PushBack, RowOwned
    <3> QED BY <1>k, <2>4, <3>1 DEF Restore, PushBack
  <2>5. ASSUME NEW r \in Runs, SpawnRestored(r) PROVE RowOwned(q)'
    BY <1>k, <2>5 DEF SpawnRestored
  <2>6. ASSUME NEW r \in Runs, RefuseRestore(r) PROVE RowOwned(q)'
    <3>1. /\ row'[q] = row[q] /\ q # r
      BY <2>6 DEF RefuseRestore, TryUpdate, Oldest, RestoreInv
    <3> QED BY <1>k, <2>6, <3>1 DEF RefuseRestore, EnterDispatch
  <2> QED BY <1>7, <2>1, <2>2, <2>3, <2>4, <2>5, <2>6 DEF Recover
<1>8. ASSUME Environment PROVE RowOwned(q)'
  <2>1. CASE Crash
    BY <2>1 DEF Crash, RowOwned
  <2>2. ASSUME NEW r \in Runs, DeleteRow(r) PROVE RowOwned(q)'
    BY <1>k, <2>2 DEF DeleteRow
  <2> QED BY <1>8, <2>1, <2>2 DEF Environment, DropHandler, DropCancel
<1>9. CASE UNCHANGED vars
  BY <1>k, <1>9 DEF vars
<1> QED
  BY <1>1, <1>2, <1>3, <1>4, <1>5, <1>6, <1>7, <1>8, <1>9 DEF Next

\* While the backend serves, every row with status queued has a task that will
\* dispatch, cancel or expire it, across any number of crashes and restarts.
THEOREM QueuedRowsAreOwned == Spec => []QueuedRowOwned
<1>1. Init => DownInv /\ OwnedInv
  BY WorkersAssumption DEF Init, DownInv, OwnedInv, Tasks
<1>2. IInv /\ OwnedInv => QueuedRowOwned
  BY DEF IInv, OwnedInv, RowOwned, Quiet, RestoreInv, QueuedRowOwned
<1> QED BY <1>1, <1>2, SpecIInv, DownStep, OwnedStep, PTL DEF Spec

-----------------------------------------------------------------------------
(* Expiry *)

\* A run whose permit is undecided has not started, and its task waits for the
\* permit or is gone. A run that is or was told of its timeout has, besides, a
\* row that no restart restores and a task with nothing left to claim.
TimedOut(r) == permit[r] = "timeout" \/ tip[r] = "timeout"
PermitInv(r) ==
  /\ permit[r] = "pending" => starts[r] = 0 /\ pc[r] \in {"enqueue", "await", "gone"}
  /\ ~DbFails /\ TimedOut(r) =>
       /\ row[r] \in {"timed_out", "deleted"} /\ starts[r] = 0
       /\ pc[r] \in {"enqueue", "await", "done", "gone"}
       /\ tip[r] = "timeout" => pc[r] \in {"done", "gone"}

\* Only an expiry reports a timeout, to a run that has not started, and nothing
\* that follows lets it start.
LEMMA PermitStep ==
  ASSUME IInv, NEW q \in Runs, PermitInv(q), [Next]_vars PROVE PermitInv(q)'
<1> USE WorkersAssumption DEF dbVars, lockVars, loopVars, handVars, obsVars, Tasks, At, IInv, TypeOK
<1>r. row[q] \in {"timed_out", "deleted"} => row'[q] \in {"timed_out", "deleted"}
  BY RowStep DEF RowMoves
\* the task stays, goes on to wait for its permit, or is gone
<1>k. ASSUME starts'[q] = starts[q], tip'[q] = tip[q],
             permit'[q] = permit[q] \/ permit'[q] \notin {"pending", "timeout"},
             pc'[q] = pc[q] \/ (pc[q] = "enqueue" /\ pc'[q] = "await") \/ pc'[q] = "gone"
      PROVE  PermitInv(q)'
  BY <1>k, <1>r DEF PermitInv, TimedOut, DbFails
\* the run has a decided permit and was never told of a timeout
<1>d. ASSUME permit'[q] \notin {"pending", "timeout"}, DbFails \/ tip'[q] # "timeout"
      PROVE  PermitInv(q)'
  BY <1>d DEF PermitInv, TimedOut, DbFails
<1>p. pc[q] \notin {"enqueue", "await", "done", "gone"} => permit[q] # "pending" /\ (DbFails \/ ~TimedOut(q))
  BY DEF PermitInv
<1>1. ASSUME NEW r \in Runs, Submit(r) PROVE PermitInv(q)'
  <2>1. starts' = starts /\ tip' = tip /\ (q # r => permit'[q] = permit[q] /\ pc'[q] = pc[q])
    BY <1>1 DEF Submit, Preflight, CreateQueued, Push, Goto, EnterDispatch
  <2>2. CASE q # r
    BY <1>k, <2>1, <2>2
  <2>3. CASE q = r
    <3>1. CASE Push(r)
      <4>1. pc[q] = "push" /\ pc'[q] = "enqueue" /\ permit'[q] = "pending" /\ starts[q] = 0
        BY <2>3, <3>1 DEF Push, EnterDispatch, StartInv
      <4>2. DbFails \/ tip[q] # "timeout"
        BY <1>p, <4>1 DEF TimedOut
      <4> QED BY <2>1, <4>1, <4>2 DEF PermitInv, TimedOut, DbFails
    <3>2. CASE Preflight(r) \/ CreateQueued(r)
      <4>1. pc[q] \in {"new", "persist"} /\ permit'[q] = permit[q] /\ permit[q] = "none"
        BY <2>3, <3>2 DEF Preflight, CreateQueued, FreshInv, Untouched
      <4>2. DbFails \/ tip[q] # "timeout"
        BY <1>p, <4>1 DEF TimedOut
      <4> QED BY <1>d, <2>1, <4>1, <4>2
    <3> QED BY <1>1, <3>1, <3>2 DEF Submit
  <2> QED BY <2>2, <2>3
<1>2. ASSUME NEW r \in Runs, Execute(r) PROVE PermitInv(q)'
  <2>1. permit' = permit /\ (q # r => starts'[q] = starts[q] /\ tip'[q] = tip[q] /\ pc'[q] = pc[q])
    <3>1. CASE ClaimTurn(r)
      BY <3>1 DEF ClaimTurn, Goto
    <3>2. CASE PermitRefused(r)
      BY <3>2 DEF PermitRefused, Goto
    <3>3. CASE MarkRunning(r)
      BY <3>3 DEF MarkRunning, Goto
    <3>4. CASE MarkTerminal(r)
      BY <3>4 DEF MarkTerminal, Goto
    <3>5. CASE ReleaseSlot(r)
      BY <3>5 DEF ReleaseSlot, EnterDispatch
    <3>6. CASE PersistTip(r)
      BY <3>6 DEF PersistTip, Goto
    <3> QED BY <1>2, <3>1, <3>2, <3>3, <3>4, <3>5, <3>6 DEF Execute
  <2>2. CASE q # r
    BY <1>k, <2>1, <2>2
  <2>3. CASE q = r
    <3>1. CASE PermitRefused(r)
      <4>1. /\ pc[q] = "await" /\ pc'[q] = "done" /\ starts' = starts /\ permit[q] # "pending"
            /\ tip'[q] = IF permit[q] = "timeout" THEN "timeout" ELSE IF permit[q] = "dropped" THEN "restarted" ELSE tip[q]
        BY <2>3, <3>1 DEF PermitRefused, Goto
      <4>2. DbFails \/ tip[q] # "timeout"
        BY <4>1 DEF PermitInv, TimedOut
      <4> QED BY <1>r, <2>1, <4>1, <4>2 DEF PermitInv, TimedOut, DbFails
    <3>2. CASE PersistTip(r)
      <4>1. pc[q] = "tip" /\ tip'[q] = "restarted"
        BY <2>3, <3>2 DEF PersistTip
      <4>2. permit[q] \notin {"pending", "timeout"} \/ (DbFails /\ permit[q] # "pending")
        BY <1>p, <4>1 DEF TimedOut
      <4> QED BY <2>1, <4>1, <4>2 DEF PermitInv, TimedOut, DbFails
    <3>3. CASE ClaimTurn(r) \/ MarkRunning(r) \/ MarkTerminal(r) \/ ReleaseSlot(r)
      <4>1. permit[q] = "ok" /\ tip' = tip /\ pc[q] \notin {"done", "gone"}
        BY <2>3, <3>3 DEF ClaimTurn, MarkRunning, MarkTerminal, ReleaseSlot, GrantInv
      <4>2. DbFails \/ tip[q] # "timeout"
        BY <4>1 DEF PermitInv, TimedOut
      <4> QED BY <1>d, <2>1, <4>1, <4>2
    <3> QED BY <1>2, <3>1, <3>2, <3>3 DEF Execute
  <2> QED BY <2>2, <2>3
<1>3. ASSUME NEW r \in Runs, CancelQueued(r) \/ SettleCancel(r) PROVE PermitInv(q)'
  BY <1>3, <1>k DEF CancelQueued, SettleCancel
<1>4. ASSUME NEW t \in Tasks, Dispatch(t) PROVE PermitInv(q)'
  <2>1. CASE PickNone(t)
    <3>1. /\ pc[q] # "finish" => pc'[q] = pc[q] \/ (pc[q] = "enqueue" /\ pc'[q] = "await")
          /\ UNCHANGED <<starts, tip, permit>>
      BY <2>1 DEF PickNone, Resume
    <3>2. CASE pc[q] = "finish"
      BY <1>d, <1>p, <3>1, <3>2 DEF TimedOut, PermitInv
    <3> QED BY <1>k, <3>1, <3>2
  <2>2. CASE MarkDispatching(t) \/ AbandonDispatch(t)
    <3>1. UNCHANGED <<starts, tip, pc>> /\ permit'[q] \in {permit[q], "ok", "persistence"}
      BY <2>2 DEF MarkDispatching, AbandonDispatch, NextIteration
    <3> QED BY <1>k, <3>1
  <2> QED BY <1>4, <1>k, <2>1, <2>2 DEF Dispatch, ReadPolicy, PickRun
<1>5. ASSUME Expire \/ TimePasses PROVE PermitInv(q)'
  <2>1. ASSUME NEW r \in Runs, SettleExpired(r) PROVE PermitInv(q)'
    <3>1. UNCHANGED <<starts, tip>> /\ pc'[q] = pc[q] /\ (q # r => permit'[q] = permit[q])
      BY <2>1 DEF SettleExpired, EnterDispatch, Goto
    <3>2. CASE q # r
      BY <1>k, <3>1, <3>2
    <3>3. CASE q = r
      <4>1. permit[q] = "pending" /\ permit'[q] = "timeout" /\ (DbFails \/ row'[q] \in {"timed_out", "deleted"})
        BY <2>1, <3>3 DEF SettleExpired, WaitInv, TryUpdate
      <4>2. starts[q] = 0 /\ pc[q] \in {"enqueue", "await", "gone"} /\ (DbFails \/ tip[q] = "timeout" => pc[q] = "gone" \/ DbFails)
        BY <4>1 DEF PermitInv, TimedOut
      <4> QED BY <3>1, <4>1, <4>2 DEF PermitInv, TimedOut, DbFails
    <3> QED BY <3>2, <3>3
  <2>2. CASE ExpireQueued
    <3>1. UNCHANGED <<starts, tip, permit>> /\ pc'[q] = pc[q]
      BY <2>2 DEF ExpireQueued, EnterDispatch, Goto
    <3> QED BY <1>k, <3>1
  <2> QED BY <1>5, <1>k, <2>1, <2>2 DEF Expire, TimePasses
<1>6. ASSUME NEW a \in Admins, SavePolicy(a) \/ \E p \in Policies : UpdatePolicy(a, p) PROVE PermitInv(q)'
  <2>1. UNCHANGED <<starts, tip, permit>> /\ pc'[q] = pc[q]
    BY <1>6 DEF SavePolicy, UpdatePolicy, EnterDispatch, Goto
  <2> QED BY <1>k, <2>1
<1>7. ASSUME Boot \/ Recover PROVE PermitInv(q)'
  <2>1. ASSUME NEW r \in Runs, Restore(r) PROVE PermitInv(q)'
    <3>1. UNCHANGED <<starts, tip>> /\ (q # r => permit'[q] = permit[q] /\ pc'[q] = pc[q])
      BY <2>1 DEF Restore
    <3>2. CASE q = r
      <4>1. row[q] = "queued" /\ permit'[q] = "pending" /\ pc'[q] = "enqueue" /\ starts[q] = 0
        BY <2>1, <3>2 DEF Restore, Oldest, RestoreInv, StartInv
      <4>2. DbFails \/ tip[q] # "timeout"
        BY <4>1 DEF PermitInv, TimedOut
      <4> QED BY <3>1, <4>1, <4>2 DEF PermitInv, TimedOut, DbFails
    <3> QED BY <1>k, <3>1, <3>2
  <2>2. ASSUME NEW r \in Runs, SpawnRestored(r) PROVE PermitInv(q)'
    <3>1. UNCHANGED <<starts, tip, permit>> /\ (pc'[q] = pc[q] \/ (pc[q] = "enqueue" /\ pc'[q] = "await"))
      BY <2>2 DEF SpawnRestored
    <3> QED BY <1>k, <3>1
  <2>3. CASE RecoverAfterRestart \/ Serve \/ Boot
    <3>1. UNCHANGED <<starts, tip, permit>> /\ pc'[q] = pc[q]
      BY <2>3 DEF Boot, RecoverAfterRestart, Recovering, Serve, Goto
    <3> QED BY <1>k, <3>1
  <2>4. ASSUME NEW r \in Runs, RefuseRestore(r) PROVE PermitInv(q)'
    <3>1. UNCHANGED <<starts, tip, permit>> /\ pc'[q] = pc[q]
      BY <2>4 DEF RefuseRestore, EnterDispatch
    <3> QED BY <1>k, <3>1
  <2> QED BY <1>7, <2>1, <2>2, <2>3, <2>4 DEF Recover
<1>8. ASSUME Environment PROVE PermitInv(q)'
  <2>1. CASE Crash
    <3>1. UNCHANGED <<starts, tip>> /\ permit'[q] = "none" /\ (pc'[q] = pc[q] \/ pc'[q] = "gone")
      BY <2>1 DEF Crash
    <3> QED BY <1>k, <3>1
  <2>2. ASSUME NEW t \in Runs \union Admins, DropHandler(t) PROVE PermitInv(q)'
    <3>1. UNCHANGED <<starts, tip>> /\ permit'[q] \in {permit[q], "dropped"} /\ (pc'[q] = pc[q] \/ pc'[q] = "gone")
      BY <2>2 DEF DropHandler
    <3> QED BY <1>k, <3>1
  <2>3. ASSUME NEW r \in Runs, DeleteRow(r) \/ DropCancel(r) PROVE PermitInv(q)'
    <3>1. UNCHANGED <<starts, tip, pc>> /\ permit'[q] \in {permit[q], "dropped"}
      BY <2>3 DEF DeleteRow, DropCancel
    <3> QED BY <1>k, <3>1
  <2> QED BY <1>8, <2>1, <2>2, <2>3 DEF Environment
<1>9. CASE UNCHANGED vars
  BY <1>9, <1>k DEF vars
<1> QED
  BY <1>1, <1>2, <1>3, <1>4, <1>5, <1>6, <1>7, <1>8, <1>9 DEF Next

\* While writes succeed, a run whose owner was told that it timed out in the
\* queue never starts, after any number of restarts.
THEOREM TimedOutNeverStarts == Spec => []NoReplayAfterTimeout
<1> DEFINE P == \A r \in Runs : PermitInv(r)
<1>1. Init => P
  BY DEF Init, PermitInv, TimedOut
<1>2. IInv /\ P /\ [Next]_vars => P'
  BY PermitStep
<1>3. P => NoReplayAfterTimeout
  BY DEF PermitInv, TimedOut, NoReplayAfterTimeout
<1> HIDE DEF P
<1> QED BY <1>1, <1>2, <1>3, SpecIInv, PTL DEF Spec

-----------------------------------------------------------------------------
(* Wake-ups *)

\* A loop that will still look at the queue with the limit in force: it has yet
\* to read the policy, or has read the one in force.
Current == [enforce |-> policy.enforce, limit |-> policy.limit]
Awake(t) == disp[t] \in {"read", "mark"} \/ (disp[t] = "pick" /\ seen[t] = Current)

\* A run that could be dispatched has such a loop, or a policy update that is
\* about to run one.
WillWake == (\E a \in Admins : pc[a] = "save") \/ \E t \in Tasks : Awake(t)
Dispatchable(u) == HasCapacity(Current) /\ Eligible(u, policy.enforce)
WakeInv ==
  Memory = {"normal"} /\ "disconnect" \notin Events => \A u \in Users : Dispatchable(u) => WillWake

\* Whatever makes a run dispatchable enters the loop, and no loop ends while
\* one is.
LEMMA WakeStep ==
  ASSUME IInv, WakeInv, [Next]_vars PROVE WakeInv'
<1> SUFFICES ASSUME Memory = {"normal"}, "disconnect" \notin Events, NEW u \in Users, Dispatchable(u)'
             PROVE  WillWake'
  BY DEF WakeInv
<1> USE WorkersAssumption DEF dbVars, lockVars, loopVars, handVars, Tasks, At, IInv, TypeOK
<1>0. Dispatchable(u) => WillWake
  BY DEF WakeInv
<1>d. ASSUME UNCHANGED <<policy, active, owner>>, queue' \subseteq queue PROVE Dispatchable(u)
  BY <1>d DEF Dispatchable, Current, HasCapacity, Eligible, QueuedOf, ActiveOf
\* nothing becomes dispatchable, and every loop stays awake
<1>k. ASSUME UNCHANGED <<policy, active, owner>>, queue' \subseteq queue,
             \A a \in Admins : pc[a] = "save" => pc'[a] = "save",
             \A t \in Tasks : /\ disp[t] \in {"read", "mark"} => disp'[t] \in {"read", "mark"}
                              /\ disp[t] = "pick" => disp'[t] = "pick" /\ seen'[t] = seen[t]
      PROVE  WillWake'
  <2>1. Dispatchable(u)
    BY <1>d, <1>k
  <2>2. WillWake
    BY <1>0, <2>1
  <2> QED BY <1>k, <2>2 DEF WillWake, Awake, Current
\* a task is in the loop and has the policy still to read
<1>e. ASSUME NEW t \in Tasks, disp'[t] \in {"read", "mark"} PROVE WillWake'
  BY <1>e DEF WillWake, Awake
<1>1. ASSUME NEW r \in Runs, Submit(r) PROVE WillWake'
  <2>1. CASE Push(r)
    BY <1>e, <2>1 DEF Push, EnterDispatch
  <2>2. CASE Preflight(r) \/ CreateQueued(r)
    <3>1. /\ UNCHANGED <<policy, active, owner, queue, disp, seen>>
          /\ \A a \in Admins : pc'[a] = pc[a]
      BY <2>2 DEF Preflight, CreateQueued, Goto
    <3> QED BY <1>k, <3>1
  <2> QED BY <1>1, <2>1, <2>2 DEF Submit
<1>2. ASSUME NEW r \in Runs, Execute(r) PROVE WillWake'
  <2>1. CASE ReleaseSlot(r)
    BY <1>e, <2>1 DEF ReleaseSlot, EnterDispatch
  <2>2. CASE ClaimTurn(r) \/ PermitRefused(r) \/ MarkRunning(r) \/ MarkTerminal(r) \/ PersistTip(r)
    <3>1. /\ UNCHANGED <<policy, active, owner, queue, disp, seen>>
          /\ \A a \in Admins : pc'[a] = pc[a]
      BY <2>2 DEF ClaimTurn, PermitRefused, MarkRunning, MarkTerminal, PersistTip, Goto
    <3> QED BY <1>k, <3>1
  <2> QED BY <1>2, <2>1, <2>2 DEF Execute
<1>3. ASSUME NEW r \in Runs, CancelQueued(r) \/ SettleCancel(r) PROVE WillWake'
  <2>1. UNCHANGED <<policy, active, owner, disp, seen, pc>> /\ queue' \subseteq queue
    BY <1>3 DEF CancelQueued, SettleCancel, RemoveFromQueue
  <2> QED BY <1>k, <2>1
<1>4. ASSUME NEW t \in Tasks, Dispatch(t) PROVE WillWake'
  <2>1. CASE ReadPolicy(t)
    BY <2>1 DEF ReadPolicy, EffectiveLimit, WillWake, Awake, Current
  <2>2. ASSUME NEW r \in Runs, PickRun(t, r) PROVE WillWake'
    BY <1>e, <2>2 DEF PickRun
  <2>3. CASE PickNone(t)
    <3>1. /\ UNCHANGED <<policy, active, owner, queue>> /\ disp[t] = "pick"
          /\ \A a \in Admins : pc[a] = "save" => pc'[a] = "save"
          /\ \A v \in Tasks : v # t => disp'[v] = disp[v] /\ seen'[v] = seen[v]
      BY <2>3 DEF PickNone, Resume
    <3>2. Dispatchable(u)
      BY <1>d, <3>1
    <3>3. seen[t] # Current
      BY <2>3, <3>2 DEF PickNone, Dispatchable, Current
    <3>4. WillWake
      BY <1>0, <3>2
    <3> QED BY <3>1, <3>3, <3>4 DEF WillWake, Awake, Current
  <2>4. CASE MarkDispatching(t) \/ AbandonDispatch(t)
    BY <1>e, <2>4 DEF MarkDispatching, AbandonDispatch, NextIteration
  <2> QED BY <1>4, <2>1, <2>2, <2>3, <2>4 DEF Dispatch
<1>5. ASSUME Expire \/ TimePasses PROVE WillWake'
  <2>1. CASE ExpireQueued
    <3>1. /\ UNCHANGED <<policy, active, owner, pc, seen>> /\ queue' \subseteq queue
          /\ disp[Maintenance] = "off" /\ \A t \in Tasks : t # Maintenance => disp'[t] = disp[t]
      BY <2>1 DEF ExpireQueued, RemoveFromQueue, EnterDispatch, Goto
    <3> QED BY <1>k, <3>1
  <2>2. ASSUME NEW r \in Runs, SettleExpired(r) PROVE WillWake'
    <3>1. /\ UNCHANGED <<policy, active, owner, queue, seen>>
          /\ disp[Maintenance] = "off" /\ \A t \in Tasks : t # Maintenance => disp'[t] = disp[t] /\ pc'[t] = pc[t]
      BY <2>2 DEF SettleExpired, EnterDispatch, Goto, HeldInv
    <3> QED BY <1>k, <3>1
  <2> QED BY <1>5, <1>k, <2>1, <2>2 DEF Expire, TimePasses
<1>6. ASSUME NEW a \in Admins, SavePolicy(a) \/ \E p \in Policies : UpdatePolicy(a, p) PROVE WillWake'
  BY <1>6 DEF SavePolicy, UpdatePolicy, EnterDispatch, Goto, WillWake, Awake
<1>7. ASSUME Boot \/ Recover PROVE WillWake'
  <2>1. CASE Boot
    BY <2>1 DEF Boot, QuietInv, Quiet, Untouched, Dispatchable, Eligible, QueuedOf
  <2>2. CASE RecoverAfterRestart \/ Serve
    <3>1. UNCHANGED <<policy, active, owner, queue, disp, seen>> /\ \A a \in Admins : pc'[a] = pc[a]
      BY <2>2 DEF RecoverAfterRestart, Recovering, Serve, Goto
    <3> QED BY <1>k, <3>1
  <2>3. ASSUME NEW r \in Runs, Restore(r) \/ RefuseRestore(r) PROVE WillWake'
    BY <1>e, <2>3 DEF Restore, RefuseRestore, EnterDispatch
  <2>4. ASSUME NEW r \in Runs, SpawnRestored(r) PROVE WillWake'
    <3>1. UNCHANGED <<policy, active, owner, queue, disp, seen>> /\ \A a \in Admins : pc'[a] = pc[a]
      BY <2>4 DEF SpawnRestored
    <3> QED BY <1>k, <3>1
  <2> QED BY <1>7, <2>1, <2>2, <2>3, <2>4 DEF Recover
<1>8. ASSUME Environment PROVE WillWake'
  <2>1. CASE Crash
    BY <2>1 DEF Crash, Dispatchable, Eligible, QueuedOf
  <2>2. ASSUME NEW r \in Runs, DeleteRow(r) PROVE WillWake'
    BY <1>k, <2>2 DEF DeleteRow
  <2> QED BY <1>8, <2>1, <2>2 DEF Environment, DropHandler, DropCancel
<1>9. CASE UNCHANGED vars
  BY <1>9, <1>k DEF vars
<1> QED
  BY <1>1, <1>2, <1>3, <1>4, <1>5, <1>6, <1>7, <1>8, <1>9 DEF Next

\* No wake-up is lost: with memory to spare and no dropped handler, when every
\* loop has returned no run is left that the policy would let start.
THEOREM NoWakeUpIsLost == Spec => []NoMissedDispatch
<1>1. Init => WakeInv
  BY DEF Init, WakeInv, Dispatchable, Eligible, QueuedOf
<1>2. WakeInv => NoMissedDispatch
  BY DEF WakeInv, WillWake, Awake, Dispatchable, Current, NoMissedDispatch
<1> QED BY <1>1, <1>2, SpecIInv, WakeStep, PTL DEF Spec

-----------------------------------------------------------------------------
(* The run ledger *)

\* While writes succeed, the rows that say a run holds a slot are those of
\* active runs, except between a crash and the recovery UPDATE; and a task that
\* is about to release its slot has settled its row.
InSlot(r) == row[r] \in {"dispatching", "running"}
LedgerInv(r) ==
  /\ InSlot(r) => Quiet \/ r \in active
  /\ pc[r] \in {"release", "unrouted"} => ~InSlot(r)

\* The row of a run leaves the status queued for dispatching only in the hands
\* of the loop that picked it.
LEMMA GrantedByLoop ==
  ASSUME IInv, [Next]_vars, NEW q \in Runs, row[q] = "queued", row'[q] = "dispatching"
  PROVE  \E t \in Tasks : HeldBy(q, t)
<1> USE DEF dbVars, IInv, TypeOK, HeldBy, At
<1>1. ASSUME NEW r \in Runs, Submit(r) PROVE FALSE
  BY <1>1 DEF Submit, Preflight, CreateQueued, Push
<1>2. ASSUME NEW r \in Runs, Execute(r) PROVE FALSE
  BY <1>2 DEF Execute, ClaimTurn, PermitRefused, MarkRunning, MarkTerminal, ReleaseSlot, PersistTip, TryUpdate
<1>3. ASSUME NEW r \in Runs, CancelQueued(r) \/ SettleCancel(r) PROVE FALSE
  BY <1>3 DEF CancelQueued, SettleCancel
<1>4. ASSUME NEW t \in Tasks, Dispatch(t) PROVE HeldBy(q, t)
  BY <1>4 DEF Dispatch, ReadPolicy, PickRun, PickNone, MarkDispatching, AbandonDispatch
<1>5. ASSUME Expire \/ TimePasses PROVE FALSE
  BY <1>5 DEF Expire, ExpireQueued, SettleExpired, TimePasses, TryUpdate
<1>6. ASSUME NEW a \in Admins, SavePolicy(a) \/ \E p \in Policies : UpdatePolicy(a, p) PROVE FALSE
  BY <1>6 DEF SavePolicy, UpdatePolicy
<1>7. ASSUME Boot \/ Recover PROVE FALSE
  BY <1>7 DEF Boot, Recover, RecoverAfterRestart, Recovering, InStatus, Serve, Restore, SpawnRestored, RefuseRestore, TryUpdate
<1>8. ASSUME Environment PROVE \E t \in Tasks : HeldBy(q, t)
  <2>1. ASSUME NEW t \in Runs \union Admins, DropHandler(t) PROVE HeldBy(q, t)
    BY <2>1 DEF DropHandler
  <2> QED BY <1>8, <2>1 DEF Environment, Crash, DeleteRow, DropCancel, Tasks
<1>9. CASE UNCHANGED vars
  BY <1>9 DEF vars
<1> QED
  BY <1>1, <1>2, <1>3, <1>4, <1>5, <1>6, <1>7, <1>8, <1>9 DEF Next

\* A step writes one row, except for the UPDATE of the recovery.
LEMMA OneRowStep ==
  ASSUME IInv, [Next]_vars
  PROVE  \/ UNCHANGED row
         \/ \E q \in Runs : \A r \in Runs : r # q => row'[r] = row[r]
         \/ RecoverAfterRestart
<1> DEFINE One == UNCHANGED row \/ \E q \in Runs : \A r \in Runs : r # q => row'[r] = row[r]
<1> USE DEF dbVars, IInv, TypeOK
<1>1. ASSUME NEW r \in Runs, Submit(r) PROVE One
  BY <1>1 DEF Submit, Preflight, CreateQueued, Push
<1>2. ASSUME NEW r \in Runs, Execute(r) PROVE One
  BY <1>2 DEF Execute, ClaimTurn, PermitRefused, MarkRunning, MarkTerminal, ReleaseSlot, PersistTip, TryUpdate
<1>3. ASSUME NEW r \in Runs, CancelQueued(r) \/ SettleCancel(r) PROVE One
  BY <1>3 DEF CancelQueued, SettleCancel
<1>4. ASSUME NEW t \in Tasks, Dispatch(t) PROVE One
  <2>1. CASE MarkDispatching(t)
    <3>1. disp[t] = "mark" /\ row' = [row EXCEPT ![pick[t]] = "dispatching"]
      BY <2>1 DEF MarkDispatching
    <3>2. pick[t] \in Runs
      BY <3>1 DEF HeldInv
    <3> QED BY <3>1, <3>2
  <2>2. CASE ~MarkDispatching(t)
    <3>1. row' = row
      BY <1>4, <2>2 DEF Dispatch, ReadPolicy, PickRun, PickNone, AbandonDispatch
    <3> QED BY <3>1
  <2> QED BY <2>1, <2>2
<1>5. ASSUME Expire \/ TimePasses PROVE One
  BY <1>5 DEF Expire, ExpireQueued, SettleExpired, TimePasses, TryUpdate
<1>6. ASSUME NEW a \in Admins, SavePolicy(a) \/ \E p \in Policies : UpdatePolicy(a, p) PROVE One
  BY <1>6 DEF SavePolicy, UpdatePolicy
<1>7. ASSUME Boot \/ Recover PROVE One \/ RecoverAfterRestart
  BY <1>7 DEF Boot, Recover, Serve, Restore, SpawnRestored, RefuseRestore, TryUpdate
<1>8. ASSUME Environment PROVE One
  <2>1. ASSUME NEW t \in Runs \union Admins, DropHandler(t) PROVE One
    <3>1. CASE pc[t] = "persist" /\ row' = [row EXCEPT ![t] = "queued"]
      BY <3>1
    <3>2. CASE disp[t] = "mark" /\ row' = [row EXCEPT ![pick[t]] = "dispatching"]
      BY <3>2 DEF HeldInv, Tasks
    <3> QED BY <2>1, <3>1, <3>2 DEF DropHandler
  <2>2. ASSUME NEW r \in Runs, DeleteRow(r) \/ DropCancel(r) PROVE One
    BY <2>2 DEF DeleteRow, DropCancel
  <2> QED BY <1>8, <2>1, <2>2 DEF Environment, Crash
<1>9. CASE UNCHANGED vars
  BY <1>9 DEF vars
<1> QED
  BY <1>1, <1>2, <1>3, <1>4, <1>5, <1>6, <1>7, <1>8, <1>9 DEF Next

\* A slot is left only with a settled row, by a crash, or before the grant.
LEMMA LedgerStep ==
  ASSUME IInv, DownInv, ~DbFails, NEW q \in Runs, LedgerInv(q), [Next]_vars PROVE LedgerInv(q)'
<1> USE WorkersAssumption DEF dbVars, lockVars, loopVars, handVars, Tasks, At, IInv, TypeOK, InSlot, Quiet
<1>r. InSlot(q)' => InSlot(q) \/ (row[q] = "queued" /\ row'[q] = "dispatching")
  BY RowStep DEF RowMoves
\* a grant finds the run in active
<1>g. row[q] = "queued" /\ row'[q] = "dispatching" => q \in active /\ ~Quiet
  <2>1. SUFFICES ASSUME row[q] = "queued", row'[q] = "dispatching" PROVE q \in active /\ ~Quiet
    OBVIOUS
  <2>2. PICK t \in Tasks : HeldBy(q, t)
    BY <2>1, GrantedByLoop
  <2>3. q \in active
    BY <2>2 DEF HeldBy, HeldInv
  <2>4. ~Quiet
    BY <2>2 DEF HeldBy, QuietInv
  <2> QED BY <2>3, <2>4
<1>k. ASSUME q \in active /\ InSlot(q)' => q \in active',
             Quiet => Quiet',
             pc'[q] \in {"release", "unrouted"} => pc[q] = pc'[q]
      PROVE  LedgerInv(q)'
  BY <1>g, <1>k, <1>r DEF LedgerInv, GrantInv
<1>1. ASSUME NEW r \in Runs, Submit(r) PROVE LedgerInv(q)'
  <2>1. /\ active' = active /\ phase' = phase /\ pc'[Recovery] = pc[Recovery]
        /\ pc'[q] \in {"release", "unrouted"} => pc[q] = pc'[q]
    BY <1>1 DEF Submit, Preflight, CreateQueued, Push, Goto, EnterDispatch
  <2> QED BY <1>k, <2>1
<1>2. ASSUME NEW r \in Runs, Execute(r) PROVE LedgerInv(q)'
  <2>1. CASE ClaimTurn(r) \/ PermitRefused(r) \/ MarkRunning(r) \/ PersistTip(r)
    <3>1. /\ active' = active /\ phase' = phase /\ pc'[Recovery] = pc[Recovery]
          /\ pc'[q] \in {"release", "unrouted"} => pc[q] = pc'[q]
      BY <2>1 DEF ClaimTurn, PermitRefused, MarkRunning, PersistTip, Goto
    <3> QED BY <1>k, <3>1
  <2>2. CASE MarkTerminal(r)
    <3>1. /\ active' = active /\ phase' = phase /\ pc'[Recovery] = pc[Recovery]
          /\ q # r => pc'[q] = pc[q]
      BY <2>2 DEF MarkTerminal, Goto
    <3>2. q = r => row'[q] \in {"completed", "failed", "timed_out", "deleted"}
      BY <2>2 DEF MarkTerminal, TryUpdate, DbFails
    <3>3. CASE q = r
      BY <3>2, <3>3 DEF LedgerInv
    <3> QED BY <1>k, <3>1, <3>3
  <2>3. CASE ReleaseSlot(r)
    <3>1. /\ active' = active \ {r} /\ phase' = phase /\ pc'[Recovery] = pc[Recovery] /\ row' = row
          /\ pc'[q] \in {"release", "unrouted"} => pc[q] = pc'[q]
          /\ pc[r] \in {"release", "unrouted"}
      BY <2>3 DEF ReleaseSlot, EnterDispatch
    <3>2. q = r => ~InSlot(q)'
      BY <3>1 DEF LedgerInv
    <3> QED BY <1>k, <3>1, <3>2
  <2> QED BY <1>2, <2>1, <2>2, <2>3 DEF Execute
<1>3. ASSUME NEW r \in Runs, CancelQueued(r) \/ SettleCancel(r) PROVE LedgerInv(q)'
  BY <1>3, <1>k DEF CancelQueued, SettleCancel
<1>4. ASSUME NEW t \in Tasks, Dispatch(t) PROVE LedgerInv(q)'
  <2>1. CASE AbandonDispatch(t)
    <3>1. /\ active' = active \ {pick[t]} /\ phase' = phase /\ pc' = pc /\ row' = row
          /\ row[pick[t]] # "dispatching" /\ row[pick[t]] # "running"
      BY <2>1 DEF AbandonDispatch, NextIteration, HeldInv
    <3> QED BY <1>k, <3>1
  <2>2. CASE PickNone(t)
    <3>1. /\ active' = active /\ phase' = phase
          /\ pc[Recovery] = "idle" => pc'[Recovery] = "idle"
          /\ pc'[q] \in {"release", "unrouted"} => pc[q] = pc'[q]
      BY <2>2 DEF PickNone, Resume
    <3> QED BY <1>k, <3>1
  <2>3. CASE MarkDispatching(t)
    BY <1>k, <2>3 DEF MarkDispatching, NextIteration
  <2> QED BY <1>4, <1>k, <2>1, <2>2, <2>3 DEF Dispatch, ReadPolicy, PickRun
<1>5. ASSUME Expire \/ TimePasses PROVE LedgerInv(q)'
  <2>1. active' = active /\ phase' = phase /\ pc'[Recovery] = pc[Recovery] /\ pc'[q] = pc[q]
    BY <1>5 DEF Expire, ExpireQueued, SettleExpired, TimePasses, EnterDispatch, Goto
  <2> QED BY <1>k, <2>1
<1>6. ASSUME NEW a \in Admins, SavePolicy(a) \/ \E p \in Policies : UpdatePolicy(a, p) PROVE LedgerInv(q)'
  <2>1. active' = active /\ phase' = phase /\ pc'[Recovery] = pc[Recovery] /\ pc'[q] = pc[q]
    BY <1>6 DEF SavePolicy, UpdatePolicy, EnterDispatch, Goto
  <2> QED BY <1>k, <2>1
<1>7. ASSUME Boot \/ Recover PROVE LedgerInv(q)'
  <2>1. CASE Boot
    BY <1>7, <1>k, <2>1 DEF Boot, DownInv
  <2>2. CASE RecoverAfterRestart
    <3>1. ~InSlot(q)'
      BY <2>2 DEF RecoverAfterRestart, Recovering, InStatus
    <3> QED BY <3>1 DEF LedgerInv
  <2>3. CASE Serve
    BY <1>k, <2>3 DEF Serve, Goto
  <2>4. ASSUME NEW r \in Runs, Restore(r) PROVE LedgerInv(q)'
    BY <1>k, <2>4 DEF Restore
  <2>5. ASSUME NEW r \in Runs, SpawnRestored(r) PROVE LedgerInv(q)'
    BY <1>k, <2>5 DEF SpawnRestored
  <2>6. ASSUME NEW r \in Runs, RefuseRestore(r) PROVE LedgerInv(q)'
    <3>1. /\ active' = active /\ phase' = phase /\ pc[Recovery] # "idle" /\ phase = "recovering" /\ pc'[q] = pc[q]
      BY <2>6 DEF RefuseRestore, EnterDispatch, Oldest, RestoreInv, Untouched
    <3> QED BY <1>k, <3>1
  <2> QED BY <1>7, <2>1, <2>2, <2>3, <2>4, <2>5, <2>6 DEF Recover
<1>8. ASSUME Environment PROVE LedgerInv(q)'
  <2>1. CASE Crash
    <3>1. phase' = "down" /\ pc'[q] \in {"new", "gone"}
      BY <2>1 DEF Crash
    <3> QED BY <3>1 DEF LedgerInv
  <2>2. ASSUME NEW t \in Runs \union Admins, DropHandler(t) PROVE LedgerInv(q)'
    <3>1. active' = active /\ phase' = phase /\ pc'[Recovery] = pc[Recovery] /\ pc'[q] \in {pc[q], "gone"}
      BY <2>2 DEF DropHandler
    <3> QED BY <1>k, <3>1
  <2>3. ASSUME NEW r \in Runs, DeleteRow(r) \/ DropCancel(r) PROVE LedgerInv(q)'
    BY <1>k, <2>3 DEF DeleteRow, DropCancel
  <2> QED BY <1>8, <2>1, <2>2, <2>3 DEF Environment
<1>9. CASE UNCHANGED vars
  BY <1>9, <1>k DEF vars
<1> QED
  BY <1>1, <1>2, <1>3, <1>4, <1>5, <1>6, <1>7, <1>8, <1>9 DEF Next

\* Read off the table, every step is a step of the ledger or leaves it alone.
LEMMA LedgerMoves ==
  ASSUME IInv, CapacityInv, AlwaysEnforced, \A r \in Runs : LedgerInv(r), [Next]_vars
  PROVE  [Ledger!Next]_(Ledger!lvars)
<1> USE DEF LedgerOf, IInv, TypeOK
<1>o. owner' = owner
  BY ActiveStep
<1>1. CASE UNCHANGED row
  BY <1>1, <1>o DEF Ledger!lvars
<1>2. CASE RecoverAfterRestart
  <2>1. \A r \in Runs : LedgerOf(row'[r]) = IF LedgerOf(row[r]) = "granted" THEN "settled" ELSE LedgerOf(row[r])
    BY <1>2 DEF RecoverAfterRestart, Recovering, InStatus
  <2>2. Ledger!Interrupt
    BY <1>o, <2>1 DEF Ledger!Interrupt, Ledger!Move, Ledger!Granted
  <2> QED BY <2>2 DEF Ledger!Next
<1>3. ASSUME NEW q \in Runs, \A r \in Runs : r # q => row'[r] = row[r]
      PROVE  [Ledger!Next]_(Ledger!lvars)
  <2>m. ASSUME NEW S, LedgerOf(row'[q]) = S PROVE Ledger!Move({q}, S)
    BY <1>3, <1>o, <2>m DEF Ledger!Move
  <2>1. CASE LedgerOf(row'[q]) = LedgerOf(row[q])
    BY <1>3, <1>o, <2>1 DEF Ledger!lvars
  <2>2. CASE row[q] = "absent" /\ row'[q] = "queued"
    <3>1. Ledger!Accept(q)
      BY <2>2, <2>m DEF Ledger!Accept
    <3> QED BY <3>1 DEF Ledger!Next
  <2>3. CASE row[q] = "queued" /\ row'[q] = "dispatching"
    <3>1. PICK t \in Tasks : HeldBy(q, t)
      BY <2>3, GrantedByLoop
    <3>2. q \in active /\ ~Quiet
      BY <3>1 DEF HeldBy, HeldInv, QuietInv
    <3>3. Ledger!Granted \subseteq active \ {q}
      BY <2>3, <3>2 DEF Ledger!Granted, LedgerInv, InSlot
    <3>4. \A r \in Ledger!Granted : owner[r] # owner[q]
      BY <3>2, <3>3 DEF CapacityInv, OneActivePerUser
    <3>5. \E l \in {p.limit : p \in Policies} : Cardinality(Ledger!Granted) < l
      <4>1. IsFiniteSet(active) /\ Cardinality(active) \in Nat
        BY RunsAssumption, FS_Subset, FS_CardinalityType
      <4>2. PICK p \in Policies : Cardinality(active) <= p.limit
        BY <3>2 DEF CapacityInv, WithinLargestLimit
      <4>3. IsFiniteSet(active \ {q}) /\ Cardinality(active \ {q}) = Cardinality(active) - 1
        BY <3>2, <4>1, FS_RemoveElement
      <4>4. Cardinality(Ledger!Granted) \in Nat /\ Cardinality(Ledger!Granted) <= Cardinality(active \ {q})
        BY <3>3, <4>3, FS_Subset, FS_CardinalityType
      <4>5. p.limit \in Nat
        BY PolicyAssumption DEF Policy
      <4>6. Cardinality(Ledger!Granted) < p.limit
        BY <4>1, <4>2, <4>3, <4>4, <4>5
      <4> QED BY <4>6, Zenon
    <3>6. LedgerOf(row[q]) = "waiting" /\ Ledger!Move({q}, "granted")
      BY <2>3, <2>m
    <3>7. [r \in Runs |-> LedgerOf(row[r])][q] = "waiting"
      BY <3>6
    <3> HIDE DEF LedgerOf
    <3>8. Ledger!Cardinality(Ledger!Granted) = Cardinality(Ledger!Granted)
      BY DEF Ledger!Cardinality, Cardinality
    <3>9. Ledger!Grant(q)
      BY <3>4, <3>5, <3>6, <3>7, <3>8, Zenon DEF Ledger!Grant
    <3> QED BY <3>9 DEF Ledger!Next
  <2>4. CASE row[q] \in {"queued", "dispatching", "running"} /\ LedgerOf(row'[q]) = "settled"
    <3>1. Ledger!Settle(q)
      BY <2>4, <2>m DEF Ledger!Settle
    <3> QED BY <3>1 DEF Ledger!Next
  <2>5. RowMoves(q)
    BY RowStep
  <2> QED BY <2>1, <2>2, <2>3, <2>4, <2>5 DEF RowMoves, Statuses, Terminal
<1> QED BY <1>1, <1>2, <1>3, OneRowStep

\* In Enforce mode and while writes succeed the agent_runs table implements the
\* run ledger: whatever loops, cancels, expiries, deletes, dropped handlers,
\* crashes and restarts do, a slot is granted to a waiting run of a user that
\* holds none, below a limit, and a settled run stays settled.
THEOREM TableImplementsLedger ==
  ASSUME AlwaysEnforced, ~DbFails PROVE Spec => ImplementsLedger
<1> DEFINE P == \A r \in Runs : LedgerInv(r)
<1>1. Init => P /\ DownInv
  BY WorkersAssumption DEF Init, LedgerInv, InSlot, DownInv, Tasks
<1>2. IInv /\ DownInv /\ P /\ [Next]_vars => P'
  BY LedgerStep
<1>3. IInv /\ CapacityInv /\ P /\ [Next]_vars => [Ledger!Next]_(Ledger!lvars)
  BY LedgerMoves
<1>4. Init => Ledger!Init
  BY DEF Init, Ledger!Init, LedgerOf
<1> HIDE DEF P
<1> QED BY <1>1, <1>2, <1>3, <1>4, SpecIInv, CapacityAlways, DownStep, PTL DEF Spec, ImplementsLedger, Ledger!Spec
=============================================================================
