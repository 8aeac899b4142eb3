# TLA+ specifications of the CentaurAI core backend

The repository is a multi-user backend (Rust, 23 crates) that runs AI agents
as child processes and streams their answers to clients. These modules specify
the parts of it whose correctness depends on interleavings, crashes and partial
failures: the scheduling of agent runs, the life of a conversation's turns, the
pool of agents, the work and the members of agent teams, scheduled jobs, and
decisions put to several models.

    tlc -workers 2 -config scheduler_faults.cfg MCAgentRunScheduler
    tlapm AgentRunSchedulerProofs.tla

## 1. Inventory

| Component | State | Operations | Interacts with | Hard part |
|---|---|---|---|---|
| Agent run scheduler (`run_scheduler.rs`) | deque, active map, user ring, last user, policy | preflight, enqueue, dispatch, finish, cancel, expire, update policy, recover | run repository, conversation service (oneshot permits) | many dispatch loops at once, decisions on values read before the lock, writes that fail |
| Run repository (`sqlite_agent_run.rs`) | one row per run | insert, mark dispatching/running/terminal, cancel, fail interrupted | scheduler | unguarded updates, what a crash leaves |
| Conversation runtime state (`runtime_state.rs`) | active, queued, deleting, cancelling, shutting down | claim, release, mark and clear of each flag | every task of a conversation | flags with several writers |
| Turn execution (`service.rs`, `turn_orchestrator.rs`, policies) | locals of one task per turn | submit, claim, build, send, relay, continue, replay, evict, release, cancel, delete | all of the above | lifecycle read before an await, timers, dropped handlers |
| Worker task manager (`task_manager.rs`, `idle_scanner.rs`, `active_lease.rs`) | a once-cell per conversation, build count, limit, leases | get or build, kill, kill and wait, clear, idle scan, configure | agents, turns, delete hook | kill during build, capacity, dropped builders |
| Team work coordinator (`work_coordinator/`, `event_loop.rs`, `team_run/`) | intents, queues, batches, leases, run record | enqueue, claim, start, complete, cancel, pause, remove, stop | mailbox, member runtimes, turns | cancel against claim and completion, lost wake-ups |
| Mailbox and task board (`mailbox.rs`, `task_board.rs`) | rows | write, peek, mark read, recover | coordinator | a message marked read that was not prompted |
| Team sessions and members (`aionui-team/service.rs`, `session.rs`, `member_runtime.rs`, `provisioning.rs`) | published session, a registry entry per member, two locks, the member's process and configuration | ensure, add, remove, stop, idle cleanup, attach | coordinator, task manager | operations of an old session that outlive it |
| Cron (`aionui-cron`) | job rows, timers | add, update, remove, run now, resume, tick, retry | turns | a tick works on an old copy of its row |
| Decisions (`aionui-decision`) | decision, brains, opinions, evidence and retrieval bundles; active run, launch lock | start, continue, pause, interject, cancel, refresh, recover | providers, knowledge gateway | unguarded writes after a check, dropped launches, consent that changes |
| Stream relay (`stream_relay.rs`) | segments of one stream | consume, finalise | agents, messages | lagging and closed channels |
| Realtime (`aionui-realtime`) | connections | register, broadcast, heartbeat | all | bounded queues |
| Model routing (`model_route.rs`) | leases, cool-downs | acquire, release, failure | turns | leases not given back |
| Channels, knowledge supervisor, authentication | sessions, a child process, tokens | | | restarts and one-time values |
| MCP, extensions, files, office, shell, assistants, assets, database, runtime | configuration and I/O | CRUD | | not specified |

What makes the core correct: a run is executed at most once, whatever crashes;
an accepted run is settled; a terminal status is final; capacity is never
exceeded, leaked or left unused; a conversation executes one turn at a time; a
flag that refuses work is removed by somebody; a cancel ends its turn; no agent
is lost alive; a message of a team is prompted once and settled; a member's
attach or removal has somebody who ends it; a job at rest has the timer its row
calls for; a brain gives one opinion, and sees only what consent allows. The
hazards behind each are listed in `PROJECT.json`.

## 2. Modules

| Module | Contents |
|---|---|
| `AgentRunScheduler` | scheduler, `agent_runs` table and the scheduler's side of a turn |
| `RunLedger` | abstract specification: what the table promises a client |
| `AgentRunSchedulerProofs` | theorems about `AgentRunScheduler`: runs, slots and statuses |
| `RunLedgerProofs` | theorems about the table: queued rows, expiry, wake-ups, the refinement of `RunLedger` |
| `ConversationTurns` | runtime flags and tasks of one conversation |
| `ConversationTurnsProofs` | theorems about `ConversationTurns` |
| `WorkerTaskManager` | the pool of agents |
| `WorkerTaskManagerProofs` | theorems about `WorkerTaskManager` |
| `TeamWork` | coordinator, event loops, mailbox and run record of one team session |
| `TeamWorkProofs` | theorems about `TeamWork` |
| `MemberRuntimes` | one team member over the sessions of its team |
| `MemberRuntimesProofs` | theorems about `MemberRuntimes` |
| `CronJobs` | scheduled jobs, their timers and ticks |
| `CronJobsProofs` | theorems about `CronJobs` |
| `Decisions` | one decision, its sessions, brains and evidence |
| `DecisionsProofs` | theorems about `Decisions` |
| `MC...` | constants, workloads and symmetry for TLC |

The modules from `WorkerTaskManager` on have a constant `Scenarios`: a set of workloads, each
saying which requests arrive, which faults may happen and what is stored at
first. `Init` chooses one. The order and the interleaving of the requests is
never part of a workload.

### AgentRunScheduler

One run is one turn of a conversation. `row`, `owner`, `queuedAt` and `tip` are
the database and survive `Crash`; everything else is the process. A step is a
critical section of the state mutex, a database statement, or the read of the
policy that precedes a critical section. Each run has a task (`pc`) which
submits it, waits for its permit and executes it; the maintenance task, the
administrators' requests and startup recovery are further tasks. Any of them may
be inside `dispatch_available`: `disp`, `seen` and `pick` are that loop's
position and locals, so that loops interleave. The deque is the set `queue`
with, for each run, the set `ahead` of the runs in front of it, which says the
same as a sequence and keeps the proofs within reach of the provers. `Events`
selects the faults: failing statements (`db`), rows deleted with their
conversation (`delete`), handlers the server drops because the client went away
(`disconnect`), `crash`, `cancel`, the passage of time and expiry (`tick`,
`timeout`), refused model routes (`route`). `starts` counts how often a run's
turn began, `restarts` the crashes; no action reads `starts`.

### RunLedger

The status of every run seen from outside, with at most `Slots` runs in
progress. `AgentRunScheduler` implements it under the refinement mapping
`LedgerOf`, in Enforce mode and without failing writes. A dropped handler may
leak a slot, but not grant one twice, so it does not break the safety that the
ledger promises; a failing write does, as described below.

### ConversationTurns

`flags` is the conversation's entry in each map of `ConversationRuntimeState`;
`slot` its slot in the worker task manager. A turn's task goes from `new` (or
`restored`, for a row found queued after a restart) over `Pending` and `Running`
states to `done`. `handle` is what the task holds: an agent the manager still
knows (`managed`), one that was removed from the manager while being built
(`orphan` after `kill`, `doomed` after `kill_and_wait`), or a `dead` one.
`snapshot` is the lifecycle read before the prompt is sent. Cancel and delete
requests, the drain timer included, are tasks of their own. The scheduler is
abstracted to the choice of granting or refusing a waiting turn; that it grants
a run at most once is what `AgentRunScheduler` shows.

### WorkerTaskManager

A slot is a once-cell and is named by a number, so that it also names the agent
built for it. `tasks` is the map of slots, `filled` the cells that are set,
`permit` the initialiser of a cell, `building` the count of reservations,
`capLock` the capacity lock. A build goes through the cell, the capacity check
with its evictions, the reservation, the factory, the end of the reservation and
the store; a caller may be dropped at each await and a factory may fail. Kills
remove a slot in one step and look into its cell in another. Which idle agents
are old enough, and in which order they are evicted, is left open.

### TeamWork

Every method of the coordinator holds its mutex and is one step. What a method
leaves to its caller is a step of its own: the run summaries to publish (`pub`)
and the messages to mark read (`settle`). A request is one piece of work and the
mailbox message that carries it; the intent of `commit_enqueue` is `<<r, 0>>`,
those that `reconcile_mailbox` creates for the same message `<<r, k>>`. Each slot
has an event loop that sleeps on its `Notify`, peeks the mailbox, reconciles,
claims a batch, starts it and ends it; each slot has an attach task for its
runtime. After a turn `finalize_turn` makes the slot idle: a teammate writes an
idle note to the lead's mailbox, and wakes the lead only if it finds every
teammate settled and the lead idle (`LoopIdle`, `LoopNote`, `LoopWake`; the wake-up
is a request of kind `signal` that the loop waits for). `Admin` is the caller of
run cancel, child cancel, pause, removal and stop. Queues are sets, because a
batch takes a whole priority class.

Removal is `TeamSessionService::remove_agent`, the one the route calls: it marks
the member removing, takes its event loop, kills its process, writes the row,
takes the loop again, forgets the member in the scheduler and ends the entry; then
the lead is told. The coordinator is not told. A loop taken from the registry is
aborted: it goes on to its next await and ends there (`aborting`, `LoopAbort`). By
the time a new process of the member was started, an aborted loop has ended; the
model assumes that of `AttachReady`.

The routes await the service in the handler, and the server drops the handler of a
client that goes away: `ReqDrop` and `AdminDrop` end a request or an operation at
any of its awaits. A dropped user message may leave its row written and its lease
held; a dropped cancel leaves turns untold; a dropped removal leaves the member
removing. Messages between agents come from MCP tool calls, which run in tasks of
their own and are not dropped; `stop_session` has no await once it has begun.

### MemberRuntimes

A session is its generation; `published` is the one in the service's map.
`entry[g]` is the member's entry in the registry of session `g`, `outcome[op]`
the signal its waiters wait for, `apc[op]` the attach task. `mem` and `ens` are
the membership lock and the ensure lock. `proc` is the member's process, named
by the operation that built it and the session whose configuration it carries.
Requests are ensure, add, remove, stop and idle cleanup; reads, writes and
warm-ups may fail and the process may disappear. `Drop` ends the handler of a
client that goes away at one of its awaits: its locks are released, a session it
was starting is gone, and an operation it was to end stays in the registry
(`lost`). Attach tasks, idle cleanup and the end of `stop_session` are out of its
reach. A workload has at most one
`add`, and none when the member is stored at first: `add_agent` makes a new slot
id, so two calls never add the same member.

### CronJobs

`row` is the database, `timer` the armed timer of a job. A timer that goes off
starts a tick, which loads the row into `copy`, prepares, runs its turn, records
the result and re-arms the timer from the copy. `claim` is the holder of a
conversation: a tick, a run-now request or an interactive turn. The clock is
abstracted: a set timer may go off at any time. A job with the empty cron
expression normally has no next run; if a row has one all the same, its timer is
a one-shot. The id of a new job is new: no operation in progress refers to it. Storage failures and restarts
are budgets; any request may be dropped at an await with the handler of its client
(`Drop`), except a run-now that has prepared its conversation, which is a task of
its own. `excused` remembers the jobs that met a failure, an edit beside
another operation, or a request dropped between the row and the timer, until the
next restart.

### Decisions

`status`, `bstate`, `opinions`, `resolution`, `consents` and `evidence` are the
database. A launch checks, refreshes the knowledge, begins a session (the check
and the transaction are two steps), inserts the entry in `active_runs` and
spawns the session's task; these are steps because the handler may be dropped
between them. The task runs its brains side by side (`bpc`), up to three
attempts each. `Stops` requests signal the task, write the status and write the
brains, in three steps, as the code does. A piece of evidence is a record of its
origin, its retrieval bundle, its lineage and its permission; `contents` is
history, the bundles whose text really went into it, and `sentOut` what external
brains were shown.

## 3. Runs

| Run | Checks | Instance |
|---|---|---|
| `scheduler_faults` | `TypeOK`, `OneHome`, `AtMostOnce`, `TerminalIsFinal` | 2 runs, every fault but refused routes, 1 crash |
| `scheduler_restart` | `SlotOwned`, `QueuedRowOwned`, `NoReplayAfterTimeout`, `EveryRunSettles`, `ImplementsLedger` | 2 runs, 1 slot, 1 crash, writes succeed, fairness |
| `scheduler_capacity` | `NoMissedDispatch`, `WithinLargestLimit` | 3 runs, limits 1 and 2, an administrator |
| `turns_flags` | `TypeOK`, `TurnExclusive`, `QueuedMarkerOwned`, `DeletingFlagOwned` | 2 turns, 1 cancel, 2 deletes, every fault |
| `turns_cancel` | `CancelEndsTurn` | 2 turns, 2 cancels, an agent that may never end, fairness |
| `task_manager` | `TypeOK`, `ReservationsMatch`, `NoLostAgent`, `ResidentBound`, `EveryCallReturns` | 4 workloads of 4 calls on 2 conversations |
| `team_work` | `TypeOK`, `IntentHome`, `SlotNotWedged`, `DeliveredOnce`, `CancelledTurnStops`, `EveryMessageSettles` | a lead, 2 teammates, up to 5 requests, 17 workloads |
| `member_runtimes` | `TypeOK`, `NoOrphanOperation`, `SettledMember`, `EveryRequestEnds` | 1 member, 11 workloads of 4 requests, up to 3 sessions |
| `cron` | `TypeOK`, `TimerFollowsRow`, `RemovedJobQuiesces`, `RetryChainEnds` | 2 jobs, 2 ticks at a time, 8 workloads of 2 requests, 1 retry |
| `decisions` | `TypeOK`, `OneOpinion`, `CancelledStays`, `ConsentKept`, `RunEnds` | 2 brains, 6 workloads of up to 4 requests, 3 sessions |

Two runs expect a violation; each shows a place where the code does not do what
a comment says of it.

| Run | What it shows |
|---|---|
| `team_silent_read` | a message committed between the loop's peek and its claim joins the batch, is not part of the prompt, and is marked read with it |
| `member_stale_attach` | the attach of a stopped session rebuilds the member's process for the stopped server while the next session is published |

### Exceptions in the properties

Several invariants name the one way in which the code can break them, which is
what makes them hold and what a change of the code would have to remove:

- `SlotOwned`, `DeletingFlagOwned`, `RunEnds`: a handler that the server drops
  between two awaits leaves a slot, a flag or an entry behind.
- `QueuedRowOwned`, `NoReplayAfterTimeout`: a failing write (`DbFails`, or `db`
  in `Events`). `expire_queued` ignores the error of its UPDATE, and the run it
  reported as timed out is executed after a restart.
- `NoLostAgent`: an agent whose slot was removed before its cell was filled. The
  delete hook of a conversation may meet this.
- `ResidentBound`: agents that are built and not yet stored count neither as
  building nor as resident.
- `NoOrphanOperation`, `SettledMember`, `EveryRequestEnds`: early returns with `?`
  and dropped handlers between begin and commit. Whoever joins such an operation
  waits until the session is stopped, but holds no lock. `SettledMember` says
  nothing of the process: idle cleanup kills outside the locks and may hit the
  process of the next session, which the next ensure repairs.
- `SlotNotWedged`: slots whose loop a removal took. The batch stays active in the
  coordinator; if the row cannot be written afterwards and the member is attached
  again, its new loop is told to wait for that batch.
- `CancelledTurnStops`: a cancel whose client goes away, or that meets the turn of a
  removed member (`get_agent` ends it), leaves the remaining turns untold; so may a
  child cancel or a pause, which work on a snapshot.
- `EveryMessageSettles`: stated as `[]<>`, since a slot may be paused, removed or
  repaired and become free again. Excepted are the message of a dropped handler and
  mail that a failed recovery scan left behind, which wait for somebody else's
  wake-up, slots that are paused or removed, and faults. An idle note is not
  required to be read after a removal, which may drop the loop that was to wake the
  lead.
- `TimerFollowsRow`: an edit beside a running tick, which re-arms the timer of its
  old copy; a failing statement; a handler dropped after the write and before the
  timer, or in a removal, which cancels the timer first.
- `CancelledStays`: `finish`, `fail_session`, `begin_session` and
  `set_control_state` write the status without a guard. A cancel that is
  acknowledged between the session's check and its `finish` is followed by a
  completion, which the test
  `cancel_is_visible_cross_device_and_prevents_late_completion` excludes by name.

Further disagreements the models reach and no run states: two concurrent
submissions pass a per-user queue limit of one; a refused model route is reported as a restart; the drain timer of a cancel does
nothing when the turn has no agent yet; a turn is continued on the lifecycle read
before its prompt; an at-job that is edited while it runs is armed again with its
past time; `update_job` answers with a `max_retries` that it does not store.

### Bounds

Two runs are enough for a race between any two of submission, dispatch, cancel,
expiry and recovery, because each of these touches at most one run besides the
slot count; three runs of up to three users are the smallest case in which one
dispatch loop must choose while another holds a slot. One crash reaches every
state recovery can find; what a second crash adds is covered by the theorem
`StartsOnce`, which bounds nothing. `MaxContinuations` is 1 instead of 4: both
sides of the limit are reached. Two turns are enough for one turn's timer or
flag to meet the next turn.

In the modules with workloads every workload is a few requests around one
question, and together they fire every action. Two conversations with a limit of
1 or 2 are the smallest pool in which a build evicts, is refused or shares a
cell. A lead and a teammate with two or three messages reach batches of several
messages, delegated work and left-over mail; the second teammate is needed for two
that finish side by side, of which only the last may wake the lead. Idle notes,
wake-ups and the note of a removal are requests of the workload too: their number
bounds how often a loop gets that far, and a loop that has none left stays at
`note` or `wake`. Three sessions are needed for an
operation that outlives its session to meet the next one. Two ticks at a time
are the overlap of a firing with a retry or with the other job; `MaxRetries` is
1 instead of 3. Two brains are enough for one brain's opinion to be shown to the
other, and three sessions for a pause, a continue and a second continue.
`SYMMETRY` is used only in runs without liveness.

### Fairness

`FairSpec` of the scheduler assumes weak fairness of the tasks the tokio runtime
polls: a submitted run's task, dispatch loops, expiry (a five-second interval)
and recovery, and that a started backend stays up eventually (crashes are
bounded). It does not assume that a client submits, cancels or stays connected.
`EveryRunSettles` also assumes that a turn ends; that is the subject of
`ConversationTurns`, where agents are *not* assumed to end their turns: weak
fairness is given to the tasks of turns and cancels, to builds, and to the
streams of dead agents only. A process that has exited closes its stream; a live
one may be silent for ever, which is why the drain timer exists.

In the other modules a request is weakly fair once it has begun, as a future the
runtime polls, but no client is assumed to wait for it: at every await the handler
may be dropped instead, and what was to follow is then never done. The fairness
says that a handler which is not dropped goes on. Weakly fair are also the
tasks the process spawned: event loops, attach tasks, ticks, the sessions of
decisions and their attempts, which end at a deadline. Factories and turns of
teams and jobs are assumed to end, as the timeouts of their callers make them.
The timers of `CronJobs` are strongly fair: the number of ticks at a time is a
bound of the model, and a timer that finds no free tick must not be starved by
it. Interactive turns that block a job end.

Deadlock is checked in the scheduler's runs, where the maintenance task always
has a next step. It is not in the others: all requests served is where a
conversation, a team or a decision may stop.

## 4. Theorems

`AgentRunSchedulerProofs` proves, for all sets of runs, users, policies, memory
states and faults and any number of crashes: `TypeCorrect`, `StartsOnce`
(`AtMostOnce`), `OneHomeAlways` (`OneHome`), `TerminalStaysTerminal`
(`TerminalIsFinal`), `SlotsAreOwned` (`SlotOwned`), `OneActiveRunPerUser` and
`ActiveWithinLargestLimit`. The assumptions are those of the constants: `Runs`
finite and disjoint from the workers, policies with positive limits.

`AtMostOnce` is not inductive. Its strengthening `IInv` ties the places a run
can be in to its permit and its row: a run that was not submitted is nowhere
(`FreshInv`), a waiting run has a pending permit and has not started
(`WaitInv`), a run in a slot is held by one dispatch loop or by its own task
(`HeldInv`, `Disjoint`, `GrantInv`), after a crash no volatile state is left
(`QuietInv`), recovery only holds queued rows that never started
(`RestoreInv`), and a run that started no longer has a queued row
(`StartInv`). The last is the heart: a turn begins only after
`mark_dispatching` succeeded, and nothing writes `queued` again.

`ConversationTurnsProofs` proves `TurnsTypeCorrect`, `OneTurnAtATime`,
`QueuedMarkerIsOwned` and `DeletingFlagIsOwned` for all sets of turns, cancels
and deletes. `TurnExclusive` is inductive. `QueuedMarkerOwned` needs
`MarkerInv`: a grantable turn owns the marker and the marker excludes an active
turn, so a claim can only be refused by a delete or a shutdown. `DeletingInv`
strengthens `DeletingFlagOwned`: the owner of the flag saw no turn, or the turn
it saw is still active, since a release clears the flag and no claim succeeds
while it is set.

`WorkerTaskManagerProofs` proves `TypeCorrect`, `ReservationsAreMatched`,
`AgentsAreNotLost` (`NoLostAgent`) and `ResidentsAreBounded` (`ResidentBound`)
for every workload over finite sets of calls and conversations. `OwnerInv` says
that an initialising call alone has the permit of its slot, whose cell is empty;
`SlotInv` says where every slot that was ever created is: in the map, in the
hands of a kill, removed while empty, or filled and its agent killed. That a cell
is filled only by the owner of its permit is what keeps a killed agent from
coming back. `ResidentBound` is not inductive, because a build is admitted in one
step and counted in a later one, while other builds store their agents and the
evicted agent may still be there. `RoomInv` counts instead the agents that will
stay and the builds that are admitted, from the admission to the store: a stored
agent takes the place of its build, an evicted one makes place for the build that
evicts it, and only the admission needs room. `AdmitInv` gives the one fact about
the capacity lock this needs: no two calls are between admission and count.

`DecisionsProofs` proves `TypeCorrect`, `OpinionsAreUnique` (`OneOpinion`),
`CancelIsFinal` (`CancelledStays`) and `ConsentIsKept` (`ConsentKept`) for any
brains, requests, workloads and number of sessions. `OneOpinion` rests on
`LaunchInv` and `TaskInv`: a launch holds the lock from its look at `active_runs`
to the spawn, so only the session in `active_runs` has a task, and a task asks
only brains without an opinion (`AskedInv`). `CancelInv` adds to `CancelledStays`
that no operation past its check is left; every check after the cancel refuses.
`ConsentKept` rests on `SoundInv`: the lineage of a piece of evidence names every
bundle whose text went into it, however many opinions lie between, so that the
comparison of the lineage with the newest bundle is enough.

`RunLedgerProofs` continues with what the table shows, on top of the same `IInv`.
`QueuedRowsAreOwned` needs `OwnedInv`: a queued row also belongs to recovery
while the process is down or recovering, and a row is handed from one owner to
the next in the step that takes it away. `TimedOutNeverStarts` needs `PermitInv`:
a run whose permit is refused with a timeout, or whose owner read that it is, has
a terminal row, never started and is past the point where a turn begins. `NoWakeUpIsLost` needs `WakeInv`: whenever
an eligible run waits below the limit, some dispatch loop has yet to read the
policy or has read the one in force, or a policy update is about to run one; a
loop that picks with an older policy does not count. `TableImplementsLedger` is the refinement: under `LedgerInv`
(a row says dispatching or running only for an active run, or before recovery)
each action is a step of the ledger or
a stutter. It assumes that every policy enforces (`AlwaysEnforced`) and that
writes succeed; without Enforce the code grants two slots to one user on purpose.

`TeamWorkProofs` proves `TypesCorrect`, `IntentsHaveOneHome` (`IntentHome`),
`SlotsAreNotWedged` (`SlotNotWedged`), `IntentsSettleOnce`,
`MessagesDeliveredOnce` (`DeliveredOnce`) and `CancelledTurnsStop`
(`CancelledTurnStops`) for any slots, requests and workloads; the only
assumptions are that the lead is one of the slots and that the callers are distinct. `IInv`
ties the state of an intent to the queue or the batch that holds it and a batch to
the event loop working on it. `AbortInv` is what a removal needs: a loop is aborted
only by a removal of its slot or the end of the session, so that every other loop
ends the batch it has. Part of the type is that a lease is bound to a run the
run manager has opened. `DeliveredOnce` adds `MailInv`, `DeadInv` and
`PromptInv`: nothing is prompted before it is written; a prompted message is read,
or its intent is still in the batch that
prompted it, so that `reconcile_mailbox` never makes a second live intent of it; and
the member of an aborted loop is not attached again unless the row of its removal
could not be written, so that a message whose turn was aborted finds no second loop.
`CancelledTurnStops` adds `CallInv`, `OwnInv` and `TellInv`: a loop whose batch
was taken from it while it started finds all of it cancelled, or an intent that
nothing can cancel any more; a running one still owns its batch, is on the list
of turns to stop, or has such an intent. The last holds because the administrator
of a workload cancels the run at most once.

`MemberRuntimesProofs` proves `TypesCorrect`, `OperationsAreEnded`
(`NoOrphanOperation`) and `MembersSettle` (`SettledMember`) for any requests,
workloads and numbers of sessions and operations. `SessionInv` is about the
sessions: a session that is being started is private to its request, every
other one is published, stopping or stopped, a lock has its holder, and an
operation id belongs to one session and a removal to one request, also after the
request was dropped. From it follow
the first two theorems and that a stopped session keeps no loop. The rest of
`SettledMember` needs `RowInv`, which holds while no read or write failed and no
handler was dropped between the row and the entry: what
each request may rely on of the row while it holds the membership lock
(`LockInv`); that a member that is stored and was added has an entry in the
published session (`BeforeInv`); what a removal and an attach know of that entry
after they let go of the lock (`RemoveInv`, `AttachInv`): an attach either still
owns the pending entry or finds the member removed; and `FollowInv`, that entry
and loop follow the row or a removal that has written the row is going to look at
the published session again. The last is why `remove_agent` reads the session map
a second time after the write.

`CronJobsProofs` proves `TypesCorrect` and `TimersFollowRows`
(`TimerFollowsRow`) for any jobs, ticks, requests and workloads. `JobInv` says of
every job that is not excused: when no operation is going to arm or cancel its
timer, the timer is the one its row calls for; an operation that is going to
knows the row and the timer (`Knows`: what its copy still has in common with the
row at each program point), and is alone unless it is a tick of a periodic job.
`OpInv` says which calls are at which program point, `LimitInv` that retries
counted on an old copy stay within the limit, which no operation changes.
Assumed of a workload: stored retry counts are within their limits, and a new
job has a schedule, which the request type requires.

Only model-checked: the liveness properties (`EveryRunSettles`,
`CancelEndsTurn`, `EveryMessageSettles`, `EveryRequestEnds`, `EveryCallReturns`,
`RemovedJobQuiesces`, `RetryChainEnds`, `RunEnds`), which are out of the prover's
reach; and the two properties that the code violates, `NoSilentRead` and
`CurrentServer`. Every invariant and every action property of a passing run is
also a theorem.

## 5. Not modelled

Contents of messages, broadcasts and status pages; columns no decision reads;
the sampling of memory (every memory state is possible at any time); the
scheduler below the internal turns of teams and cron, and the path without a
scheduler; confirmations; agents other than ACP agents, which are neither
evicted nor drained. Of teams: the task board, team CRUD, renaming and model
changes, and more than one member at a time in `MemberRuntimes`. Of cron: a
change of the execution mode, saved skills, artifacts and the run counter. Of
decisions: creation with its idempotency record, edits of the question, the
selection of a candidate, and the rows of sessions, turns and the audit, which
are written and not read. The components marked `not_modelled` in
`PROJECT.json` are plans or pure I/O.

## 6. Plan

1. `AgentRunScheduler`, `RunLedger` with proofs (done).
2. `ConversationTurns` with proofs (done).
3. `WorkerTaskManager` with proofs (done).
4. `TeamWork` and `MemberRuntimes` with proofs (done).
5. `Decisions` and `CronJobs` with proofs (done).
6. `ModelRoutes`, `StreamRelay`, `Realtime`, then channels, the knowledge
   supervisor and one-time tokens, in this order.
7. Composition of 1 and 2, in which the scheduler's permits drive the turns.
8. Proofs: bounded bypass of the round robin; the action properties behind the
   liveness properties (a retry chain only counts up, a removed job's timer is
   never armed again once its ticks have ended).
