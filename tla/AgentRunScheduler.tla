-------------------------- MODULE AgentRunScheduler --------------------------
(***************************************************************************)
(* The multi-user agent run scheduler of aionui-conversation               *)
(* (crates/aionui-conversation/src/run_scheduler.rs) together with the     *)
(* agent_runs table it persists to                                         *)
(* (crates/aionui-db/src/repository/sqlite_agent_run.rs) and the part of   *)
(* ConversationService that submits a run, waits for its permit, executes  *)
(* it and recovers it after a restart.                                     *)
(*                                                                         *)
(* The mutex-protected SchedulerState is read and written in one step per  *)
(* critical section; every await on the database, the policy read that     *)
(* precedes a critical section and the oneshot permit are steps of their   *)
(* own, so that calls of several tasks interleave as the executor allows.  *)
(***************************************************************************)
EXTENDS Naturals, Sequences, FiniteSets

CONSTANTS
  Runs,          \* agent run ids (one run = one turn of a conversation)
  Users,         \* user ids
  Policies,      \* policies an administrator may set: [enforce, limit, userQueue, globalQueue]
  Memory,        \* memory states the host may report
  Events,        \* which events the environment may produce, a subset of EventKinds
  MaxRestarts,   \* bound: crashes of the backend
  NoUser,        \* last_dispatched_user before any dispatch
  NoRun,         \* a dispatch loop that holds no run
  Maintenance,   \* the task of start_maintenance
  Admins,        \* the tasks serving an administrator's update of the policy
  Recovery       \* the startup task that restores queued rows

Policy == [enforce : BOOLEAN, limit : Nat \ {0}, userQueue : Nat \ {0}, globalQueue : Nat \ {0}]
MemoryState == {"normal", "constrained", "paused", "rejecting"}
EventKinds == {"db", "delete", "disconnect", "crash", "cancel", "tick", "timeout", "route"}
Workers == {Maintenance, Recovery} \union Admins
Tasks == Runs \union Workers

ASSUME RunsAssumption == IsFiniteSet(Runs) /\ NoRun \notin Runs
ASSUME UsersAssumption == NoUser \notin Users
ASSUME PolicyAssumption == Policies \subseteq Policy /\ Policies # {}
ASSUME MemoryAssumption == Memory \subseteq MemoryState /\ Memory # {}
ASSUME EventsAssumption == Events \subseteq EventKinds
ASSUME RestartsAssumption == MaxRestarts \in Nat
ASSUME WorkersAssumption ==
  /\ Workers \intersect Runs = {}
  /\ Maintenance # Recovery /\ {Maintenance, Recovery} \intersect Admins = {}

VARIABLES
  \* the database, which survives a crash
  row,        \* agent_runs.status
  owner,      \* agent_runs.user_id
  queuedAt,   \* agent_runs.queued_at, 0 before the run is submitted
  tip,        \* the terminal tip persisted in the conversation
  \* time
  clock,      \* number of submissions so far: the values of queued_at
  deadline,   \* now_ms() - queue_timeout_ms, on the scale of clock
  \* the process
  phase,      \* "recovering" | "serving" | "down"
  policy,     \* RuntimePolicy
  queue,      \* SchedulerState.queue: the runs in the deque ...
  ahead,      \* ... and, for each, the runs in front of it
  active,     \* SchedulerState.active
  ring,       \* SchedulerState.user_ring
  last,       \* SchedulerState.last_dispatched_user
  permit,     \* the oneshot channel of a run
  \* the tasks
  pc,         \* where each task is; a task is inside dispatch_available iff disp # "off"
  disp,       \* the task's place in the dispatch loop
  seen,       \* the loop's policy and memory snapshot
  pick,       \* the run the loop took from the queue
  cancelling, \* runs a cancel_queued call has removed and not yet settled
  expiring,   \* runs expire_queued has removed and not yet settled
  restoring,  \* rows list_queued returned that recovery has not handled yet
  \* observation
  starts,     \* how often the turn of a run began
  restarts    \* crashes so far

dbVars == <<row, owner, queuedAt, tip>>
timeVars == <<clock, deadline>>
lockVars == <<queue, ahead, active, ring, last>>
loopVars == <<disp, seen, pick>>
handVars == <<cancelling, expiring, restoring>>
obsVars == <<starts, restarts>>
vars == <<dbVars, timeVars, phase, policy, lockVars, permit, pc, loopVars, handVars, obsVars>>

Terminal == {"completed", "failed", "cancelled", "timed_out"}
Statuses == {"absent", "queued", "dispatching", "running", "deleted"} \union Terminal
Permits == {"none", "pending", "ok", "cancelled", "timeout", "persistence", "dropped"}
RunSteps == {"new", "persist", "push", "enqueue", "await", "claimed", "running", "release", "unrouted",
             "finish", "tip", "done", "gone"}
WorkerSteps == {"idle", "save", "restore", "restored"}
Unseen == [enforce |-> TRUE, limit |-> 0]

TypeOK ==
  /\ row \in [Runs -> Statuses]
  /\ owner \in [Runs -> Users]
  /\ queuedAt \in [Runs -> Nat]
  /\ tip \in [Runs -> {"none", "timeout", "restarted"}]
  /\ clock \in Nat /\ deadline \in Nat
  /\ phase \in {"recovering", "serving", "down"}
  /\ policy \in Policies
  /\ queue \subseteq Runs
  /\ ahead \in [Runs -> SUBSET Runs]
  /\ active \subseteq Runs
  /\ ring \in Seq(Users)
  /\ last \in Users \union {NoUser}
  /\ permit \in [Runs -> Permits]
  /\ pc \in [Tasks -> RunSteps \union WorkerSteps]
  /\ \A r \in Runs : pc[r] \in RunSteps
  /\ \A w \in Workers : pc[w] \in WorkerSteps
  /\ disp \in [Tasks -> {"off", "read", "pick", "mark"}]
  /\ seen \in [Tasks -> [enforce : BOOLEAN, limit : Nat]]
  /\ pick \in [Tasks -> Runs \union {NoRun}]
  /\ cancelling \subseteq Runs /\ expiring \subseteq Runs /\ restoring \subseteq Runs
  /\ starts \in [Runs -> Nat]
  /\ restarts \in 0 .. MaxRestarts

-----------------------------------------------------------------------------
(* Helpers on the state *)

\* (Operators named Mutant... change the definition that follows them the way
\* a plausible bug would; no action uses them.)
MutantLimitUnderflows(p, m) == IF m \in {"normal", "constrained"} THEN p.limit - 2 ELSE 0

\* effective_limit under Enforce; the other modes have no limit.
EffectiveLimit(p, m) ==
  CASE m = "normal" -> p.limit
    [] m = "constrained" -> IF p.limit < 2 THEN p.limit ELSE 2
    [] OTHER -> 0

MutantCapacityOffByOne(s) == ~s.enforce \/ Cardinality(active) <= s.limit
HasCapacity(s) == ~s.enforce \/ Cardinality(active) < s.limit

QueuedOf(u) == {r \in queue : owner[r] = u}
ActiveOf(u) == {r \in active : owner[r] = u}

\* A user the dispatch loop may serve.
Eligible(u, enforce) == QueuedOf(u) # {} /\ (enforce => ActiveOf(u) = {})

Position(u) == CHOOSE i \in 1 .. Len(ring) : ring[i] = u
Start == IF \E i \in 1 .. Len(ring) : ring[i] = last THEN Position(last) ELSE 0
\* How far the round robin walks from the slot after the last dispatched user.
Distance(u) == (Position(u) + Len(ring) - Start - 1) % Len(ring)

\* The run the critical section of dispatch_available takes: the first run in
\* the deque of the first eligible user of the ring.
IsNext(r, enforce) ==
  /\ r \in queue
  /\ Eligible(owner[r], enforce)
  /\ \A u \in Users : Eligible(u, enforce) => Distance(owner[r]) <= Distance(u)
  /\ \A q \in QueuedOf(owner[r]) : q \notin ahead[r]

\* VecDeque::push_back with the registration of the user in the ring.
PushBack(r) ==
  /\ queue' = queue \union {r}
  /\ ahead' = [ahead EXCEPT ![r] = queue]
  /\ ring' = IF \E i \in 1 .. Len(ring) : ring[i] = owner[r] THEN ring ELSE Append(ring, owner[r])

MutantPeeks(S) == UNCHANGED <<queue, ahead>>

\* Removal from the deque keeps the order of the others.
RemoveFromQueue(S) ==
  /\ queue' = queue \ S
  /\ ahead' = [r \in Runs |-> IF r \in S THEN {} ELSE ahead[r] \ S]

\* A database write that the environment may make fail; rows removed by the
\* cascade of a conversation delete match no UPDATE.
DbFails == "db" \in Events
TryUpdate(r, s) ==
  \/ row' = [row EXCEPT ![r] = IF @ = "deleted" THEN @ ELSE s]
  \/ DbFails /\ UNCHANGED row

\* A task enters dispatch_available and resumes at step s when the loop ends.
EnterDispatch(t, s) ==
  /\ disp' = [disp EXCEPT ![t] = "read"]
  /\ pc' = [pc EXCEPT ![t] = s]
  /\ UNCHANGED <<seen, pick>>

Goto(t, s) == pc' = [pc EXCEPT ![t] = s] /\ UNCHANGED loopVars

At(t, s) == disp[t] = "off" /\ pc[t] = s
Alive == phase # "down"

-----------------------------------------------------------------------------
(* Submission: ConversationService::enqueue_scheduled_message and enqueue *)

\* preflight: the queue limits are read under the lock, which is then given up.
Preflight(r) ==
  /\ phase = "serving"
  /\ At(r, "new")
  /\ \E m \in Memory : m # "rejecting"
  /\ policy.enforce => /\ Cardinality(queue) < policy.globalQueue
                       /\ Cardinality(QueuedOf(owner[r])) < policy.userQueue
  /\ clock' = clock + 1
  /\ queuedAt' = [queuedAt EXCEPT ![r] = clock']
  /\ Goto(r, "persist")
  /\ UNCHANGED <<row, owner, tip, deadline, phase, policy, lockVars, permit, handVars, obsVars>>

\* create_queued; a failed insert rejects the submission.
CreateQueued(r) ==
  /\ Alive
  /\ At(r, "persist")
  /\ \/ row' = [row EXCEPT ![r] = "queued"] /\ Goto(r, "push")
     \/ DbFails /\ UNCHANGED row /\ Goto(r, "done")
  /\ UNCHANGED <<owner, queuedAt, tip, timeVars, phase, policy, lockVars, permit, handVars, obsVars>>

Push(r) ==
  /\ Alive
  /\ At(r, "push")
  /\ PushBack(r)
  /\ permit' = [permit EXCEPT ![r] = "pending"]
  /\ EnterDispatch(r, "enqueue")
  /\ UNCHANGED <<dbVars, timeVars, phase, policy, active, last, handVars, obsVars>>

-----------------------------------------------------------------------------
(* dispatch_available *)

\* The policy and the memory state are read before the lock is taken.
ReadPolicy(t) ==
  /\ Alive
  /\ disp[t] = "read"
  /\ \E m \in Memory :
       seen' = [seen EXCEPT ![t] = [enforce |-> policy.enforce, limit |-> EffectiveLimit(policy, m)]]
  /\ disp' = [disp EXCEPT ![t] = "pick"]
  /\ UNCHANGED <<dbVars, timeVars, phase, policy, lockVars, permit, pc, pick, handVars, obsVars>>

\* The critical section takes a run ...
PickRun(t, r) ==
  /\ Alive
  /\ disp[t] = "pick"
  /\ HasCapacity(seen[t])
  /\ IsNext(r, seen[t].enforce)
  /\ RemoveFromQueue({r})
  /\ active' = active \union {r}
  /\ last' = owner[r]
  /\ disp' = [disp EXCEPT ![t] = "mark"]
  /\ pick' = [pick EXCEPT ![t] = r]
  /\ seen' = [seen EXCEPT ![t] = Unseen]
  /\ UNCHANGED <<dbVars, timeVars, phase, policy, ring, permit, pc, handVars, obsVars>>

\* What the caller does when the loop returns: enqueue spawns the execution
\* task, finish ends it, the other callers go on where they were.
Resume(s) == CASE s = "enqueue" -> "await" [] s = "finish" -> "done" [] OTHER -> s

\* ... or finds none to take, and the loop ends.
PickNone(t) ==
  /\ Alive
  /\ disp[t] = "pick"
  /\ ~HasCapacity(seen[t]) \/ \A u \in Users : ~Eligible(u, seen[t].enforce)
  /\ disp' = [disp EXCEPT ![t] = "off"]
  /\ seen' = [seen EXCEPT ![t] = Unseen]
  /\ pc' = [pc EXCEPT ![t] = Resume(@)]
  /\ UNCHANGED <<dbVars, timeVars, phase, policy, lockVars, permit, pick, handVars, obsVars>>

NextIteration(t) ==
  /\ disp' = [disp EXCEPT ![t] = "read"]
  /\ pick' = [pick EXCEPT ![t] = NoRun]
  /\ UNCHANGED <<seen, pc>>

\* mark_dispatching updated the row: the permit is granted.
MarkDispatching(t) ==
  /\ Alive
  /\ disp[t] = "mark"
  /\ row[pick[t]] = "queued"
  /\ row' = [row EXCEPT ![pick[t]] = "dispatching"]
  /\ permit' = [permit EXCEPT ![pick[t]] = "ok"]
  /\ NextIteration(t)
  /\ UNCHANGED <<owner, queuedAt, tip, timeVars, phase, policy, lockVars, handVars, obsVars>>

\* mark_dispatching matched no queued row, or failed: the slot is given back.
AbandonDispatch(t) ==
  /\ Alive
  /\ disp[t] = "mark"
  /\ DbFails \/ row[pick[t]] # "queued"
  /\ active' = active \ {pick[t]}
  /\ permit' = [permit EXCEPT ![pick[t]] = "persistence"]
  /\ NextIteration(t)
  /\ UNCHANGED <<dbVars, timeVars, phase, policy, queue, ahead, ring, last, handVars, obsVars>>

-----------------------------------------------------------------------------
(* Execution: execute_scheduled_message, mark_running and finish *)

\* The permit arrived and try_claim_turn claimed the conversation.
ClaimTurn(r) ==
  /\ Alive
  /\ At(r, "await") /\ permit[r] = "ok"
  /\ starts' = [starts EXCEPT ![r] = @ + 1]
  /\ Goto(r, "claimed")
  /\ UNCHANGED <<dbVars, timeVars, phase, policy, lockVars, permit, handVars, restarts>>

\* The permit was refused, or its sender was dropped: the run is over.
PermitRefused(r) ==
  /\ Alive
  /\ At(r, "await") /\ permit[r] \in {"cancelled", "timeout", "persistence", "dropped"}
  /\ tip' = [tip EXCEPT ![r] = CASE permit[r] = "timeout" -> "timeout"
                                 [] permit[r] = "dropped" -> "restarted"
                                 [] OTHER -> @]
  /\ Goto(r, "done")
  /\ UNCHANGED <<row, owner, queuedAt, timeVars, phase, policy, lockVars, permit, handVars, obsVars>>

\* mark_running has no status guard.
MarkRunning(r) ==
  /\ Alive
  /\ At(r, "claimed")
  /\ TryUpdate(r, "running")
  /\ Goto(r, "running")
  /\ UNCHANGED <<owner, queuedAt, tip, timeVars, phase, policy, lockVars, permit, handVars, obsVars>>

MutantFailedClaimKeepsSlot(r) ==
  /\ Alive
  /\ \/ At(r, "running") /\ TryUpdate(r, "completed") /\ Goto(r, "release")
     \/ At(r, "await") /\ permit[r] = "ok" /\ TryUpdate(r, "failed") /\ Goto(r, "done")
  /\ UNCHANGED <<owner, queuedAt, tip, timeVars, phase, policy, lockVars, permit, handVars, obsVars>>

\* The first half of finish: mark_terminal, without a status guard and with
\* its error only logged. It follows the turn, a refusal of the model route, or
\* a permit whose conversation try_claim_turn refused (busy, being deleted,
\* shutting down).
MarkTerminal(r) ==
  /\ Alive
  /\ \/ /\ At(r, "running")
        /\ \E s \in {"completed", "failed", "timed_out"} : TryUpdate(r, s)
        /\ Goto(r, "release")
     \/ /\ "route" \in Events
        /\ At(r, "running")
        /\ TryUpdate(r, "failed")
        /\ Goto(r, "unrouted")
     \/ /\ At(r, "await") /\ permit[r] = "ok"
        /\ TryUpdate(r, "failed")
        /\ Goto(r, "release")
  /\ UNCHANGED <<owner, queuedAt, tip, timeVars, phase, policy, lockVars, permit, handVars, obsVars>>

\* The second half of finish: the slot is released and the loop runs.
ReleaseSlot(r) ==
  /\ Alive
  /\ \/ At(r, "release") /\ EnterDispatch(r, "finish")
     \/ At(r, "unrouted") /\ EnterDispatch(r, "tip")
  /\ active' = active \ {r}
  /\ UNCHANGED <<dbVars, timeVars, phase, policy, queue, ahead, ring, last, permit, handVars, obsVars>>

\* persist_run_terminal_tip knows no code of the model route and falls through
\* to the tip of a restart.
PersistTip(r) ==
  /\ Alive
  /\ At(r, "tip")
  /\ tip' = [tip EXCEPT ![r] = "restarted"]
  /\ Goto(r, "done")
  /\ UNCHANGED <<row, owner, queuedAt, timeVars, phase, policy, lockVars, permit, handVars, obsVars>>

-----------------------------------------------------------------------------
(* cancel_queued *)

CancelQueued(r) ==
  /\ "cancel" \in Events
  /\ phase = "serving"
  /\ r \in queue
  /\ RemoveFromQueue({r})
  /\ cancelling' = cancelling \union {r}
  /\ UNCHANGED <<dbVars, timeVars, phase, policy, active, ring, last, permit, pc, loopVars,
                 expiring, restoring, obsVars>>

\* The guarded UPDATE, then the permit; on an error the sender is dropped.
SettleCancel(r) ==
  /\ Alive
  /\ r \in cancelling
  /\ \/ /\ row' = [row EXCEPT ![r] = IF @ = "queued" THEN "cancelled" ELSE @]
        /\ permit' = [permit EXCEPT ![r] = "cancelled"]
     \/ /\ DbFails
        /\ UNCHANGED row
        /\ permit' = [permit EXCEPT ![r] = "dropped"]
  /\ cancelling' = cancelling \ {r}
  /\ UNCHANGED <<owner, queuedAt, tip, timeVars, phase, policy, lockVars, pc, loopVars,
                 expiring, restoring, obsVars>>

-----------------------------------------------------------------------------
(* expire_queued, on every maintenance tick *)

Overdue == {r \in queue : queuedAt[r] <= deadline}

ExpireQueued ==
  /\ "tick" \in Events
  /\ Alive
  /\ At(Maintenance, "idle")
  /\ expiring = {}
  /\ expiring' = Overdue
  /\ RemoveFromQueue(Overdue)
  /\ IF Overdue = {} THEN EnterDispatch(Maintenance, "idle") ELSE Goto(Maintenance, "idle")
  /\ UNCHANGED <<dbVars, timeVars, phase, policy, active, ring, last, permit, cancelling, restoring, obsVars>>

MutantExpiryNotPersisted(r) ==
  /\ Alive
  /\ r \in expiring
  /\ permit' = [permit EXCEPT ![r] = "timeout"]
  /\ expiring' = expiring \ {r}
  /\ IF expiring = {r} THEN EnterDispatch(Maintenance, "idle") ELSE Goto(Maintenance, "idle")
  /\ UNCHANGED <<dbVars, timeVars, phase, policy, lockVars, cancelling, restoring, obsVars>>

\* mark_terminal with its error ignored, then the permit; after the last run
\* the loop runs. The overdue runs are settled in any order, of which the
\* order of the deque is one.
SettleExpired(r) ==
  /\ Alive
  /\ r \in expiring
  /\ TryUpdate(r, "timed_out")
  /\ permit' = [permit EXCEPT ![r] = "timeout"]
  /\ expiring' = expiring \ {r}
  /\ IF expiring = {r} THEN EnterDispatch(Maintenance, "idle") ELSE Goto(Maintenance, "idle")
  /\ UNCHANGED <<owner, queuedAt, tip, timeVars, phase, policy, lockVars, cancelling, restoring, obsVars>>

\* Time: the oldest run not yet overdue becomes overdue.
TimePasses ==
  /\ "timeout" \in Events
  /\ deadline < clock
  /\ deadline' = deadline + 1
  /\ UNCHANGED <<dbVars, clock, phase, policy, lockVars, permit, pc, loopVars, handVars, obsVars>>

-----------------------------------------------------------------------------
(* update_policy *)

UpdatePolicy(a, p) ==
  /\ phase = "serving"
  /\ At(a, "idle")
  /\ policy' = p
  /\ Goto(a, "save")
  /\ UNCHANGED <<dbVars, timeVars, phase, lockVars, permit, handVars, obsVars>>

MutantSaveWithoutDispatch(a) ==
  /\ Alive
  /\ At(a, "save")
  /\ Goto(a, "idle")
  /\ UNCHANGED <<dbVars, timeVars, phase, policy, lockVars, permit, handVars, obsVars>>

\* The policy row is saved (or its error logged) before the loop runs.
SavePolicy(a) ==
  /\ Alive
  /\ At(a, "save")
  /\ EnterDispatch(a, "idle")
  /\ UNCHANGED <<dbVars, timeVars, phase, policy, lockVars, permit, handVars, obsVars>>

-----------------------------------------------------------------------------
(* Restart: recover_after_restart and restore_queued_agent_run *)

\* The backend dies: everything that is not in the database is lost.
Crash ==
  /\ "crash" \in Events
  /\ Alive
  /\ restarts < MaxRestarts
  /\ restarts' = restarts + 1
  /\ phase' = "down"
  /\ queue' = {} /\ ahead' = [r \in Runs |-> {}] /\ active' = {}
  /\ ring' = <<>> /\ last' = NoUser
  /\ permit' = [r \in Runs |-> "none"]
  /\ pc' = [t \in Tasks |-> IF t \in Workers THEN "idle" ELSE IF pc[t] = "new" THEN "new" ELSE "gone"]
  /\ disp' = [t \in Tasks |-> "off"]
  /\ seen' = [t \in Tasks |-> Unseen]
  /\ pick' = [t \in Tasks |-> NoRun]
  /\ cancelling' = {} /\ expiring' = {} /\ restoring' = {}
  /\ UNCHANGED <<dbVars, timeVars, policy, starts>>

\* A new process loads the saved policy; maintenance starts before recovery.
Boot ==
  /\ phase = "down"
  /\ phase' = "recovering"
  /\ policy' \in Policies
  /\ UNCHANGED <<dbVars, timeVars, lockVars, permit, pc, loopVars, handVars, obsVars>>

\* The UPDATE of fail_interrupted turns the rows Lost into failed ones, then
\* list_queued reads the rows Waiting.
Recovering(Lost, Waiting) ==
  /\ phase = "recovering"
  /\ At(Recovery, "idle")
  /\ row' = [r \in Runs |-> IF r \in Lost THEN "failed" ELSE row[r]]
  /\ restoring' = Waiting
  /\ Goto(Recovery, "restore")
  /\ UNCHANGED <<owner, queuedAt, tip, timeVars, phase, policy, lockVars, permit, cancelling, expiring, obsVars>>

InStatus(S) == {r \in Runs : row[r] \in S}

MutantRequeuesDispatched ==
  /\ phase = "recovering"
  /\ At(Recovery, "idle")
  /\ row' = [r \in Runs |-> CASE row[r] = "dispatching" -> "queued" [] row[r] = "running" -> "failed" [] OTHER -> row[r]]
  /\ restoring' = InStatus({"queued", "dispatching"})
  /\ Goto(Recovery, "restore")
  /\ UNCHANGED <<owner, queuedAt, tip, timeVars, phase, policy, lockVars, permit, cancelling, expiring, obsVars>>

MutantFailsFinished == Recovering(InStatus(Statuses \ {"absent", "queued", "deleted"}), InStatus({"queued"}))
MutantLeavesInterrupted == Recovering({}, InStatus({"queued"}))

\* recover_after_restart: fail_interrupted, then list_queued. Nothing else can
\* touch a row in between, as no request is served and the deque is empty.
RecoverAfterRestart == Recovering(InStatus({"dispatching", "running"}), InStatus({"queued"}))

\* ORDER BY queued_at
Oldest(r) == r \in restoring /\ \A q \in restoring : queuedAt[r] <= queuedAt[q]

Restore(r) ==
  /\ phase = "recovering"
  /\ At(Recovery, "restore")
  /\ Oldest(r)
  /\ restoring' = restoring \ {r}
  /\ PushBack(r)
  /\ permit' = [permit EXCEPT ![r] = "pending"]
  /\ pc' = [pc EXCEPT ![r] = "enqueue", ![Recovery] = "restored"]
  /\ disp' = [disp EXCEPT ![Recovery] = "read"]
  /\ UNCHANGED <<dbVars, timeVars, phase, policy, active, last, seen, pick, cancelling, expiring, obsVars>>

\* restore returned: the execution task of the row is spawned.
SpawnRestored(r) ==
  /\ phase = "recovering"
  /\ At(Recovery, "restored")
  /\ At(r, "enqueue")
  /\ pc' = [pc EXCEPT ![r] = "await", ![Recovery] = "restore"]
  /\ UNCHANGED <<dbVars, timeVars, phase, policy, lockVars, permit, loopVars, handVars, obsVars>>

MutantRefusalNotPersisted(r) ==
  /\ phase = "recovering"
  /\ At(Recovery, "restore")
  /\ Oldest(r)
  /\ restoring' = restoring \ {r}
  /\ EnterDispatch(Recovery, "restore")
  /\ UNCHANGED <<dbVars, timeVars, phase, policy, lockVars, permit, cancelling, expiring, obsVars>>

\* The conversation is gone or busy, or the request unreadable: finish(Failed).
RefuseRestore(r) ==
  /\ phase = "recovering"
  /\ At(Recovery, "restore")
  /\ Oldest(r)
  /\ TryUpdate(r, "failed")
  /\ restoring' = restoring \ {r}
  /\ active' = active \ {r}
  /\ EnterDispatch(Recovery, "restore")
  /\ UNCHANGED <<owner, queuedAt, tip, timeVars, phase, policy, queue, ahead, ring, last, permit,
                 cancelling, expiring, obsVars>>

Serve ==
  /\ phase = "recovering"
  /\ At(Recovery, "restore")
  /\ restoring = {}
  /\ phase' = "serving"
  /\ Goto(Recovery, "idle")
  /\ UNCHANGED <<dbVars, timeVars, policy, lockVars, permit, handVars, obsVars>>

-----------------------------------------------------------------------------
(* Faults of the environment *)

\* DELETE of the run's conversation cascades to its agent_runs row.
DeleteRow(r) ==
  /\ "delete" \in Events
  /\ phase = "serving"
  /\ row[r] \notin {"absent", "deleted"}
  /\ row' = [row EXCEPT ![r] = "deleted"]
  /\ UNCHANGED <<owner, queuedAt, tip, timeVars, phase, policy, lockVars, permit, pc, loopVars,
                 handVars, obsVars>>

\* Tasks inside the handler of a request that submits a run or sets the policy.
InHandler(t) ==
  \/ t \in Runs /\ pc[t] \in {"persist", "push", "enqueue"}
  \/ t \in Admins /\ ~At(t, "idle")

\* A client that goes away makes the server drop the handler's future at the
\* await it is suspended in. The statement it was waiting for may or may not
\* have been executed; a run it had picked loses its permit sender.
DropHandler(t) ==
  /\ "disconnect" \in Events
  /\ phase = "serving"
  /\ InHandler(t)
  /\ \/ UNCHANGED row
     \/ pc[t] = "persist" /\ row' = [row EXCEPT ![t] = "queued"]
     \/ /\ disp[t] = "mark" /\ row[pick[t]] = "queued"
        /\ row' = [row EXCEPT ![pick[t]] = "dispatching"]
  /\ permit' = [r \in Runs |-> IF r = pick[t] THEN "dropped" ELSE permit[r]]
  /\ pc' = [pc EXCEPT ![t] = IF t \in Runs THEN "gone" ELSE "idle"]
  /\ disp' = [disp EXCEPT ![t] = "off"]
  /\ seen' = [seen EXCEPT ![t] = Unseen]
  /\ pick' = [pick EXCEPT ![t] = NoRun]
  /\ UNCHANGED <<owner, queuedAt, tip, timeVars, phase, policy, lockVars, handVars, obsVars>>

\* The same for the handler of a cancel request.
DropCancel(r) ==
  /\ "disconnect" \in Events
  /\ phase = "serving"
  /\ r \in cancelling
  /\ UNCHANGED row \/ row' = [row EXCEPT ![r] = IF @ = "queued" THEN "cancelled" ELSE @]
  /\ permit' = [permit EXCEPT ![r] = "dropped"]
  /\ cancelling' = cancelling \ {r}
  /\ UNCHANGED <<owner, queuedAt, tip, timeVars, phase, policy, lockVars, pc, loopVars,
                 expiring, restoring, obsVars>>

-----------------------------------------------------------------------------
(* Specification *)

Init ==
  /\ row = [r \in Runs |-> "absent"]
  /\ owner \in [Runs -> Users]
  /\ queuedAt = [r \in Runs |-> 0]
  /\ tip = [r \in Runs |-> "none"]
  /\ clock = 0 /\ deadline = 0
  /\ phase = "recovering"
  /\ policy \in Policies
  /\ queue = {} /\ ahead = [r \in Runs |-> {}] /\ active = {}
  /\ ring = <<>> /\ last = NoUser
  /\ permit = [r \in Runs |-> "none"]
  /\ pc = [t \in Tasks |-> IF t \in Workers THEN "idle" ELSE "new"]
  /\ disp = [t \in Tasks |-> "off"]
  /\ seen = [t \in Tasks |-> Unseen]
  /\ pick = [t \in Tasks |-> NoRun]
  /\ cancelling = {} /\ expiring = {} /\ restoring = {}
  /\ starts = [r \in Runs |-> 0]
  /\ restarts = 0

Submit(r) == Preflight(r) \/ CreateQueued(r) \/ Push(r)

Dispatch(t) ==
  \/ ReadPolicy(t)
  \/ \E r \in Runs : PickRun(t, r)
  \/ PickNone(t) \/ MarkDispatching(t) \/ AbandonDispatch(t)

Execute(r) ==
  \/ ClaimTurn(r) \/ PermitRefused(r)
  \/ MarkRunning(r) \/ MarkTerminal(r) \/ ReleaseSlot(r) \/ PersistTip(r)

Expire == ExpireQueued \/ \E r \in Runs : SettleExpired(r)

Recover ==
  \/ RecoverAfterRestart \/ Serve
  \/ \E r \in Runs : Restore(r) \/ SpawnRestored(r) \/ RefuseRestore(r)

Environment ==
  \/ Crash
  \/ \E t \in Runs \union Admins : DropHandler(t)
  \/ \E r \in Runs : DeleteRow(r) \/ DropCancel(r)

Next ==
  \/ \E r \in Runs : Submit(r) \/ Execute(r) \/ CancelQueued(r) \/ SettleCancel(r)
  \/ \E t \in Tasks : Dispatch(t)
  \/ Expire \/ TimePasses
  \/ \E a \in Admins : SavePolicy(a) \/ \E p \in Policies : UpdatePolicy(a, p)
  \/ Boot \/ Recover
  \/ Environment

Spec == Init /\ [][Next]_vars

\* Every task the runtime polls makes progress, maintenance ticks, time passes
\* and agent turns end. Nothing forces a user or an administrator to act.
Progress(r) ==
  CreateQueued(r) \/ Push(r) \/ Dispatch(r) \/ Execute(r)

Fairness ==
  /\ \A r \in Runs : WF_vars(Progress(r)) /\ WF_vars(SettleCancel(r))
  /\ \A w \in Workers : WF_vars(Dispatch(w))
  /\ WF_vars(Expire) /\ WF_vars(TimePasses) /\ \A a \in Admins : WF_vars(SavePolicy(a))
  /\ WF_vars(Boot) /\ WF_vars(Recover)

FairSpec == Spec /\ Fairness

-----------------------------------------------------------------------------
(* Properties *)

\* A run is in one place: waiting in the deque, holding a slot, or taken out by
\* exactly one of cancel_queued and expire_queued; and at most one dispatch
\* loop holds it between the pick and mark_dispatching.
OneHome ==
  /\ queue \intersect active = {}
  /\ queue \intersect cancelling = {} /\ queue \intersect expiring = {}
  /\ active \intersect cancelling = {} /\ active \intersect expiring = {}
  /\ cancelling \intersect expiring = {}
  /\ \A t \in Tasks : disp[t] = "mark" =>
       pick[t] \in active /\ \A v \in Tasks : disp[v] = "mark" /\ pick[v] = pick[t] => v = t

\* The turn of a run begins at most once, whatever crashes, restarts, failed
\* writes, deletes and disconnects happen: restart recovery restores only rows
\* whose permit was never granted.
AtMostOnce == \A r \in Runs : starts[r] <= 1

\* A terminal status is final. mark_running, mark_terminal and the recovery
\* UPDATE carry no guard that says so: it rests on the order of the calls.
TerminalIsFinal ==
  [][\A r \in Runs : row[r] \in Terminal => row'[r] \in {row[r], "deleted"}]_vars

AlwaysEnforced == \A p \in Policies : p.enforce

\* In Enforce mode a user has at most one active run, although the users with
\* an active run are computed in one critical section and other loops dispatch.
OneActivePerUser ==
  AlwaysEnforced => \A r, q \in active : owner[r] = owner[q] => r = q

\* The number of active runs never exceeds the largest limit ever configured,
\* although a loop decides with the limit it read before it took the lock.
WithinLargestLimit ==
  AlwaysEnforced => active = {} \/ \E p \in Policies : Cardinality(active) <= p.limit

\* A slot is never leaked: each active run is in the hands of a dispatch loop
\* or of an execution task that will release it. Dropped handlers excepted.
SlotOwned ==
  "disconnect" \notin Events =>
    \A r \in active :
      \/ \E t \in Tasks : disp[t] = "mark" /\ pick[t] = r
      \/ /\ permit[r] = "ok"
         /\ pc[r] \in {"enqueue", "await", "claimed", "running", "release", "unrouted"}

\* While the backend serves, a row with status queued is never orphaned: some
\* task will dispatch, cancel or expire it. Holds while writes succeed and
\* handlers are not dropped.
QueuedRowOwned ==
  Events \intersect {"db", "disconnect"} = {} /\ phase = "serving" =>
    \A r \in Runs : row[r] = "queued" =>
      \/ r \in queue \union cancelling \union expiring
      \/ pc[r] = "push"
      \/ \E t \in Tasks : disp[t] = "mark" /\ pick[t] = r

\* A run whose owner was told that it timed out in the queue is not executed
\* later, after a restart included
\* (test queued_turn_expires_without_replaying_its_message). Holds while writes
\* succeed: expire_queued ignores the error of its UPDATE.
NoReplayAfterTimeout ==
  ~DbFails => \A r \in Runs : tip[r] = "timeout" => starts[r] = 0

\* No wake-up is lost: with memory to spare, once every loop has returned and
\* no policy change is about to run one, no eligible run waits below the limit.
NoMissedDispatch ==
  /\ Memory = {"normal"} /\ "disconnect" \notin Events
  /\ \A t \in Tasks : disp[t] = "off"
  /\ \A a \in Admins : pc[a] # "save"
  => ~(/\ HasCapacity([enforce |-> policy.enforce, limit |-> policy.limit])
       /\ \E u \in Users : Eligible(u, policy.enforce))

\* The scheduler implements the run ledger: read off the agent_runs table, a
\* run is granted at most once, to a user that holds no slot, below the limit,
\* and its end is final, across restarts.
LedgerOf(s) ==
  CASE s = "absent" -> "none"
    [] s = "queued" -> "waiting"
    [] s \in {"dispatching", "running"} -> "granted"
    [] OTHER -> "settled"

Ledger == INSTANCE RunLedger WITH
  Limits <- {p.limit : p \in Policies},
  ledger <- [r \in Runs |-> LedgerOf(row[r])]

ImplementsLedger == Ledger!Spec

\* Every accepted run is settled: it reaches a terminal status in the
\* database, after a crash too, whether it is executed, cancelled or expires.
EveryRunSettles ==
  \A r \in Runs : (row[r] = "queued") ~> (row[r] \in Terminal)
=============================================================================
