------------------------------ MODULE TeamWork ------------------------------
(***************************************************************************)
(* The work of one team session: crates/aionui-team, work_coordinator/*    *)
(* (the SlotWorkCoordinator), team_run/manager.rs (the TeamRunManager),    *)
(* event_loop.rs (one loop per member slot), mailbox.rs and the operations *)
(* of session.rs that call them.                                           *)
(*                                                                         *)
(* A request r stands for one piece of work sent to a slot and, unless it  *)
(* is a signal, for the mailbox message that carries it; an idle note is   *)
(* the message alone.  <<r, 0>> is the                                     *)
(* intent its commit_enqueue creates, <<r, k>> with k > 0 the k-th intent  *)
(* reconcile_mailbox creates for the same message.  Every method of the    *)
(* coordinator holds its mutex from begin to end and is one step; the run  *)
(* summaries it computes are applied to the TeamRunManager after the mutex *)
(* is released, and the messages it declares terminal are marked read by   *)
(* its caller later still, so both are steps of their own: pub[a] and      *)
(* settle[a] are what actor a has still to publish and to mark.            *)
(*                                                                         *)
(* Abstracted: the queues are sets (a batch takes a whole priority class,  *)
(* so their order decides nothing but the run a message inherits from a    *)
(* batch of several); a turn is named by the operation id of its batch;    *)
(* a run summary is the one of its four classes apply_work_summary         *)
(* distinguishes; prompts, projections and events are left out.            *)
(***************************************************************************)
EXTENDS Naturals, FiniteSets

CONSTANTS Slots,      \* the member slots of the team
          Lead,       \* the slot of the lead
          Reqs,       \* the requests, one mailbox message each
          Admin,      \* the caller of cancel, pause, remove and stop
          Scenarios,  \* the workloads Init chooses from
          MaxCopies,  \* bound: recovery intents of one message
          MaxOps,     \* bound: batches claimed for one slot
          MaxRuns     \* bound: team runs

(* "idle" is the note a teammate leaves the lead after a turn and "signal"  *)
(* the wake-up that may follow it, "departure" what the lead is told of a   *)
(* removed member, "recovery" left-over mail the recovery scan finds,       *)
(* "leftover" mail that it missed because it failed; "unused" requests send *)
(* nothing.                                                                 *)
Kinds == {"user", "agent", "shutdown", "signal", "idle", "notice", "departure",
          "recovery", "leftover", "unused"}

(* A workload: where each request comes from, the slot it is addressed to  *)
(* and the slot that sends it (agent kinds), the slots whose runtime is    *)
(* still being attached at first, the faults injected, the administrative  *)
(* operations called, each at most once, and the callers (requests and the *)
(* administrator) whose client may go away.  The requests of kind "idle",  *)
(* "signal" and "departure" bound how often their senders get that far.    *)
Workloads == [kind : [Reqs -> Kinds], to : [Reqs -> Slots], from : [Reqs -> Slots],
              attaching : SUBSET Slots,
              faults : SUBSET {"db", "refuse", "skip", "member", "port"},
              ops : SUBSET {"cancel_run", "cancel_child", "pause", "remove", "stop"},
              drops : SUBSET (Reqs \cup {Admin})]

ASSUME TeamAssumption ==
    /\ Scenarios \subseteq Workloads
    /\ MaxCopies \in Nat \ {0} /\ MaxOps \in Nat \ {0} /\ MaxRuns \in Nat \ {0}
    /\ Lead \in Slots                  \* create_team makes the first agent the lead
    /\ Admin \notin Slots \cup Reqs /\ Slots \cap Reqs = {}
    /\ {<<"attach", s>> : s \in Slots} \cap (Slots \cup Reqs \cup {Admin}) = {}

VARIABLES
    scn,         \* the workload, fixed by Init
    mail,        \* mailbox row of a request: "none", "unread" or "read"
    ist,         \* state of every intent
    queue,       \* intents in one of the three queues of their slot
    active,      \* active[s]: the batch the coordinator holds for slot s
    paused,      \* slots with the pause flag
    constraint,  \* runtime constraint of every slot
    leases,      \* requests that hold an enqueue lease
    leaseRun,    \* the team run the lease of a request is bound to, 0: none
    nextOp,      \* last operation id given to a batch of the slot
    run,         \* the TeamRunManager's record: id and status
    pub,         \* pub[a]: summaries actor a computed and has not applied
    settle,      \* settle[a]: messages actor a has still to mark read
    rpc,         \* requests: program counter
    seen,        \* constraint a request or a loop has read
    lpc, lunread, lbatch, \* loops: program counter, peeked messages, batch
    notified,    \* loops whose Notify holds a permit
    member, apc, \* member runtimes and their attach tasks
    adm,         \* the administrative operation under way
    admDone,     \* operations already used
    faults,      \* faults injected so far
    status,      \* the scheduler's status of a slot, "none": no such agent
    aborting,    \* loops taken from the registry that have not ended yet
    prompted,    \* how often a message was part of a prompt
    stopped,     \* turns the cancellation port was asked to cancel
    removed,     \* slots whose loop a removal took from the registry
    dropped      \* callers whose handler was dropped

coord == <<ist, queue, active, paused, constraint, leases, leaseRun, nextOp>>
loops == <<lpc, lunread, lbatch>>
reqs  == <<rpc, seen>>
seat  == <<status, aborting>>
rest  == <<member, apc, adm, admDone, seat>>
marks == <<removed, dropped>>
hist  == <<prompted, stopped, marks>>
vars  == <<scn, mail, coord, run, pub, settle, reqs, loops, notified, rest, faults, hist>>

Kind(r) == scn.kind[r]
To(r)   == scn.to[r]
From(r) == scn.from[r]

Ids     == Reqs \X (0..MaxCopies)
Actors  == Slots \cup Reqs \cup {Admin} \cup {<<"attach", s>> : s \in Slots}
IdsOf(s) == {i \in Ids : To(i[1]) = s}
Terminal == {"completed", "failed", "cancelled"}
LiveStates == {"queued", "starting", "running"}
Live(S) == {i \in S : ist[i] \in LiveStates}
NoBatch == [op |-> 0, ids |-> {}, turn |-> FALSE]
Active  == {"accepted", "running", "cancelling"}     \* TeamRunRecord::is_active

HasMessage(i) == Kind(i[1]) # "signal"
Messages(S)   == {i[1] : i \in {j \in S : HasMessage(j)}}
RunOf(i)      == IF i[2] = 0 THEN leaseRun[i[1]] ELSE 0
RunsOf(S)     == {RunOf(i) : i \in S} \ {0}

(* WorkSource::priority, 1 is served first *)
Priority(i) == IF i[2] = 0 /\ Kind(i[1]) = "user" THEN 1
               ELSE IF i[2] = 0 /\ Kind(i[1]) = "shutdown" THEN 2
               ELSE 3

(* run_summary_locked, as far as apply_work_summary reads it *)
Summary(n, st, ls) ==
    LET mine == {i \in Ids : RunOf(i) = n}
    IN  IF \E i \in mine : st[i] = "failed" THEN "failed"
        ELSE IF /\ \A i \in mine : st[i] \notin LiveStates
                /\ \A r \in ls : leaseRun[r] # n THEN "idle"
        ELSE IF \E i \in mine : st[i] = "running" THEN "running"
        ELSE "busy"

(* the coordinator leaves st and ls behind; actor a owes the summaries of Rs *)
Owe(a, Rs, st, ls) == pub' = [pub EXCEPT ![a] = {<<n, Summary(n, st, ls)>> : n \in Rs}]

Clear(a) == pub[a] = {} /\ settle[a] = {}

InitialConstraint == "starting"    \* SlotState::new

TypeOK ==
    /\ mail \in [Reqs -> {"none", "unread", "read"}]
    /\ ist \in [Ids -> {"none"} \cup LiveStates \cup Terminal]
    /\ queue \subseteq Ids
    /\ active \in [Slots -> [op : 0..MaxOps, ids : SUBSET Ids, turn : BOOLEAN]]
    /\ paused \subseteq Slots
    /\ constraint \in [Slots -> {"starting", "ready", "failed", "removing", "stopped"}]
    /\ leases \subseteq Reqs /\ leaseRun \in [Reqs -> 0..run.id]
    /\ nextOp \in [Slots -> 0..MaxOps]
    /\ run \in [id : 0..MaxRuns, status : {"none"} \cup Active \cup Terminal]
    /\ rpc \in [Reqs -> {"new", "sync", "set", "acquire", "write", "commit", "notify", "done"}]
    /\ lpc \in [Slots -> {"gone", "wait", "sync", "set", "peek", "reconcile", "next", "signal",
                          "prepare", "start", "late", "drop", "running", "finish", "fail",
                          "idle", "note", "wake", "waking"}]
    /\ lbatch \in [Slots -> [op : 0..MaxOps, ids : SUBSET Ids, ok : BOOLEAN]]
    /\ notified \subseteq Slots
    /\ member \in [Slots -> {"absent", "attaching", "ready", "failed", "removing", "stopped"}]
    /\ apc \in [Slots -> {"idle", "starting", "attach", "ready", "failed"}]
    /\ status \in [Slots -> {"none", "idle", "working", "error"}]
    /\ aborting \subseteq Slots /\ removed \subseteq Slots /\ dropped \subseteq Reqs \cup {Admin}
    /\ prompted \in [Reqs -> 0..2]

Init ==
    /\ scn \in Scenarios
    /\ mail = [r \in Reqs |-> IF Kind(r) \in {"recovery", "leftover"} THEN "unread" ELSE "none"]
    /\ ist = [i \in Ids |-> "none"]
    /\ queue = {} /\ paused = {} /\ leases = {}
    /\ active = [s \in Slots |-> NoBatch]
    /\ constraint = [s \in Slots |-> InitialConstraint]
    /\ leaseRun = [r \in Reqs |-> 0]
    /\ nextOp = [s \in Slots |-> 0]
    /\ run = [id |-> 0, status |-> "none"]
    /\ pub = [a \in Actors |-> {}] /\ settle = [a \in Actors |-> {}]
    /\ rpc = [r \in Reqs |-> "new"] /\ seen = [a \in Reqs \cup Slots |-> InitialConstraint]
    /\ lpc = [s \in Slots |-> IF s \in scn.attaching THEN "gone" ELSE "wait"]
    /\ lunread = [s \in Slots |-> {}]
    /\ lbatch = [s \in Slots |-> [op |-> 0, ids |-> {}, ok |-> TRUE]]
    /\ notified = {}
    /\ member = [s \in Slots |-> IF s \in scn.attaching THEN "attaching" ELSE "ready"]
    /\ apc = [s \in Slots |-> IF s \in scn.attaching THEN "starting" ELSE "idle"]
    /\ adm = [pc |-> "idle", slot |-> CHOOSE s \in Slots : TRUE, run |-> 0,
              batch |-> NoBatch, todo |-> {}]
    /\ admDone = {} /\ faults = {}
    /\ status = [s \in Slots |-> "idle"] /\ aborting = {}
    /\ prompted = [r \in Reqs |-> 0] /\ stopped = {} /\ removed = {} /\ dropped = {}

Fault(f)    == f \in scn.faults \ faults /\ faults' = faults \cup {f} /\ UNCHANGED scn
NoFault     == UNCHANGED <<faults, scn>>

(* cancel_agent_turn of the cancellation port, which may fail *)
CancelTurn(turn) == \/ stopped' = stopped \cup {turn} /\ NoFault
                    \/ UNCHANGED stopped /\ Fault("port")

-----------------------------------------------------------------------------
(* TeamRunManager *)

(* apply_work_summary (and abort_binding for "void"): no guard on the status *)
(* the record has reached                                                    *)
ApplySummary(n, class) ==
    IF run.id # n \/ run.status = "none" THEN run
    ELSE CASE class = "failed"  -> [run EXCEPT !.status = "failed"]
           [] class = "idle"    -> [run EXCEPT !.status = IF @ = "cancelling" THEN "cancelled"
                                                          ELSE "completed"]
           [] class = "running" -> [run EXCEPT !.status = "running"]
           [] class = "void"    -> [run EXCEPT !.status = "none"]
           [] OTHER             -> run

(* publish_run_summaries: actor a applies one of the summaries it computed *)
Publish(a) ==
    \E p \in pub[a] :
        /\ run' = ApplySummary(p[1], p[2])
        /\ pub' = [pub EXCEPT ![a] = @ \ {p}]
        /\ UNCHANGED <<mail, coord, settle, reqs, loops, notified, rest, hist>> /\ NoFault

(* bind_user_enqueue, bind_enqueue and InheritRunningBatch: the runs a lease *)
(* of r may be bound to; a user message opens a run when none is active      *)
Bindings(r) ==
    CASE Kind(r) = "user"   -> {IF run.status \in Active THEN run.id ELSE run.id + 1}
      [] Kind(r) \in {"signal", "departure"} -> {IF run.status \in Active THEN run.id ELSE 0}
      [] Kind(r) \in {"agent", "shutdown", "notice"} ->
            LET rs == RunsOf(active[From(r)].ids) IN IF rs = {} THEN {0} ELSE rs
      [] OTHER -> {0}

(* Operators named Mutant... change the definition that follows them the way *)
(* a plausible slip in the code would; Next uses none of them.               *)

MutantRunNotRecorded(r, n) == run

BoundRun(r, n) == IF Kind(r) = "user" /\ run.status \notin Active
                  THEN [id |-> n, status |-> "accepted"] ELSE run

-----------------------------------------------------------------------------
(* SlotWorkCoordinator: one operator per method, for the actor a that calls *)

(* EventLoopRegistry::has *)
HasLoop(s) == lpc[s] # "gone" /\ s \notin aborting

(* MemberRuntimeSnapshot as a runtime constraint *)
SeenConstraint(s) ==
    CASE member[s] = "absent"    -> IF HasLoop(s) THEN "ready" ELSE "starting"
      [] member[s] = "attaching" -> "starting"
      [] OTHER                   -> member[s]

(* set_runtime_constraint: a failed runtime fails the work of every run and  *)
(* requeues the rest, a stopped session cancels everything                   *)
SetConstraint(a, s, c) ==
    LET live == Live(IdsOf(s))
        back == IF c = "stopped" THEN {} ELSE {i \in live : RunOf(i) = 0}
        st   == [i \in Ids |-> IF i \in back THEN "queued"
                               ELSE IF i \notin live THEN ist[i]
                               ELSE IF c = "failed" THEN "failed" ELSE "cancelled"]
    IN  /\ constraint' = [constraint EXCEPT ![s] = c]
        /\ IF c \in {"failed", "stopped"}
           THEN /\ ist' = st
                /\ queue' = (queue \ IdsOf(s)) \cup back
                /\ active' = [active EXCEPT ![s] = NoBatch]
                /\ Owe(a, RunsOf(live \ back), st, leases)
                /\ settle' = [settle EXCEPT ![a] = Messages(live \ back)]
           ELSE UNCHANGED <<ist, queue, active, pub, settle>>
        /\ UNCHANGED <<paused, leases, leaseRun, nextOp>>

(* validate_enqueue_constraint *)
Admits(s) == constraint[s] \in {"ready", "starting"}

(* commit_enqueue on a lease that is still held and still admissible *)
CommitEnqueue(r) ==
    LET st == [ist EXCEPT ![<<r, 0>>] = "queued"]
    IN  /\ leases' = leases \ {r}
        /\ ist' = st
        /\ paused' = IF Kind(r) = "user" THEN paused \ {To(r)} ELSE paused
        /\ queue' = queue \cup {<<r, 0>>}
        /\ Owe(r, {leaseRun[r]} \ {0}, st, leases \ {r})
        /\ UNCHANGED <<active, constraint, leaseRun, nextOp>>

(* abort_enqueue: a run no intent and no other lease refers to is dropped *)
AbortEnqueue(r) ==
    LET n     == leaseRun[r]
        empty == /\ \A i \in Ids : ist[i] = "none" \/ RunOf(i) # n
                 /\ \A q \in leases \ {r} : leaseRun[q] # n
    IN  /\ leases' = leases \ {r}
        /\ IF r \notin leases \/ n = 0 THEN UNCHANGED pub
           ELSE IF empty THEN pub' = [pub EXCEPT ![r] = {<<n, "void">>}]
           ELSE Owe(r, {n}, ist, leases \ {r})
        /\ UNCHANGED <<ist, queue, active, paused, constraint, leaseRun, nextOp>>

(* reconcile_mailbox: queued intents of messages that are not in the peeked *)
(* set complete, unread messages no live intent owns get a recovery intent; *)
(* nothing is published                                                     *)
FreshCopy(r) == CHOOSE k \in 1..MaxCopies : ist[<<r, k>>] = "none"
Exhausted(r) == \A k \in 1..MaxCopies : ist[<<r, k>>] # "none"

ReconcileMailbox(s, unread) ==
    LET stale == {i \in queue \cap IdsOf(s) : HasMessage(i) /\ i[1] \notin unread}
        owned == {i[1] : i \in Live(IdsOf(s)) \ stale}
        fresh == {<<r, FreshCopy(r)>> : r \in unread \ owned}
    IN  /\ \A r \in unread \ owned : ~Exhausted(r)        \* bound MaxCopies
        /\ ist' = [i \in Ids |-> IF i \in stale THEN "completed"
                                 ELSE IF i \in fresh THEN "queued" ELSE ist[i]]
        /\ queue' = (queue \ stale) \cup fresh
        /\ UNCHANGED <<active, paused, constraint, leases, leaseRun, nextOp, pub>>

(* next: what the slot may serve now *)
Serves(s) == /\ active[s].op = 0 /\ constraint[s] = "ready" /\ s \notin paused
             /\ queue \cap IdsOf(s) # {}
Class(s)  == {i \in queue \cap IdsOf(s) :
                 \A j \in queue \cap IdsOf(s) : Priority(i) <= Priority(j)}
Claimed(s) == {i \in Class(s) : HasMessage(i)}

Claim(s) ==
    LET ids == Claimed(s)
        st  == [i \in Ids |-> IF i \in ids THEN "starting" ELSE ist[i]]
    IN  /\ nextOp[s] < MaxOps                             \* bound MaxOps
        /\ nextOp' = [nextOp EXCEPT ![s] = @ + 1]
        /\ ist' = st
        /\ queue' = queue \ ids
        /\ active' = [active EXCEPT ![s] = [op |-> nextOp[s] + 1, ids |-> ids, turn |-> FALSE]]
        /\ Owe(s, RunsOf(ids), st, leases)
        /\ UNCHANGED <<paused, constraint, leases, leaseRun>>

IsCurrent(s, op) == active[s].op = op

(* mark_started of the batch that is current *)
MarkStarted(s) ==
    LET st == [i \in Ids |-> IF i \in lbatch[s].ids THEN "running" ELSE ist[i]]
    IN  /\ ist' = st
        /\ active' = [active EXCEPT ![s].turn = TRUE]
        /\ Owe(s, RunsOf(lbatch[s].ids), st, leases)
        /\ UNCHANGED <<queue, paused, constraint, leases, leaseRun, nextOp>>

(* retry_start: the batch returns to its queue, unless it is stale *)
RetryStart(s) ==
    IF IsCurrent(s, lbatch[s].op)
    THEN LET st == [i \in Ids |-> IF i \in lbatch[s].ids THEN "queued" ELSE ist[i]]
         IN  /\ ist' = st
             /\ active' = [active EXCEPT ![s] = NoBatch]
             /\ queue' = queue \cup lbatch[s].ids
             /\ Owe(s, RunsOf(lbatch[s].ids), st, leases)
             /\ UNCHANGED <<paused, constraint, leases, leaseRun, nextOp>>
    ELSE UNCHANGED <<coord, pub>>

(* terminalize_batch: complete_batch, fail_batch, cancel_batch *)
TerminalizeBatch(a, s, op, ids, to) ==
    IF IsCurrent(s, op)
    THEN LET st == [i \in Ids |-> IF i \in ids THEN to ELSE ist[i]]
         IN  /\ ist' = st
             /\ active' = [active EXCEPT ![s] = NoBatch]
             /\ Owe(a, RunsOf(ids), st, leases)
             /\ UNCHANGED <<queue, paused, constraint, leases, leaseRun, nextOp>>
    ELSE UNCHANGED <<coord, pub>>

(* complete_signals *)
CompleteSignals(s) ==
    LET ids == lbatch[s].ids
        st  == [i \in Ids |-> IF i \in ids THEN "completed" ELSE ist[i]]
    IN  IF \A i \in ids : ist[i] = "queued"
        THEN /\ ist' = st
             /\ queue' = queue \ ids
             /\ Owe(s, RunsOf(ids), st, leases)
             /\ UNCHANGED <<active, paused, constraint, leases, leaseRun, nextOp>>
        ELSE UNCHANGED <<coord, pub>>

MutantDropsRetained(n) ==
    LET hit  == {s \in Slots : \E i \in active[s].ids : RunOf(i) = n}
        gone == {i \in Ids : RunOf(i) = n /\ ist[i] \in LiveStates}
        st   == [i \in Ids |-> IF i \in gone THEN "cancelled" ELSE ist[i]]
        ls   == {r \in leases : leaseRun[r] # n}
    IN  /\ ist' = st
        /\ queue' = queue \ gone
        /\ active' = [s \in Slots |-> IF s \in hit THEN NoBatch ELSE active[s]]
        /\ leases' = ls
        /\ Owe(Admin, {n}, st, ls)
        /\ settle' = [settle EXCEPT ![Admin] = Messages(gone)]
        /\ adm' = [adm EXCEPT !.pc = "stopping",
                              !.todo = {<<s, active[s].op>> : s \in {q \in hit : active[q].turn}}]
        /\ UNCHANGED <<paused, constraint, leaseRun, nextOp>>

(* cancel_run: the run's intents are cancelled, the others of their batches *)
(* go back to their queue, its leases are revoked                           *)
CancelRun(n) ==
    LET hit  == {s \in Slots : \E i \in active[s].ids : RunOf(i) = n}
        held == UNION {active[s].ids : s \in hit}
        gone == {i \in held : RunOf(i) = n}
                \cup {i \in Ids : RunOf(i) = n /\ ist[i] = "queued"}
        back == held \ gone
        st   == [i \in Ids |-> IF i \in gone THEN "cancelled"
                               ELSE IF i \in back THEN "queued" ELSE ist[i]]
        ls   == {r \in leases : leaseRun[r] # n}
    IN  /\ ist' = st
        /\ queue' = (queue \ gone) \cup back
        /\ active' = [s \in Slots |-> IF s \in hit THEN NoBatch ELSE active[s]]
        /\ leases' = ls
        /\ Owe(Admin, {n}, st, ls)
        /\ settle' = [settle EXCEPT ![Admin] = Messages(gone)]
        /\ adm' = [adm EXCEPT !.pc = "stopping",
                              !.todo = {<<s, active[s].op>> : s \in {q \in hit : active[q].turn}}]
        /\ UNCHANGED <<paused, constraint, leaseRun, nextOp>>

(* stop: every summary is published, those of runs long over included *)
StopAll ==
    LET st == [i \in Ids |-> IF ist[i] \in LiveStates THEN "cancelled" ELSE ist[i]]
        ns == RunsOf({i \in Ids : ist[i] # "none"}) \cup ({leaseRun[r] : r \in leases} \ {0})
    IN  /\ ist' = st
        /\ queue' = {}
        /\ active' = [s \in Slots |-> NoBatch]
        /\ constraint' = [s \in Slots |-> "stopped"]
        /\ leases' = {}
        /\ Owe(Admin, ns, st, {})
        /\ UNCHANGED <<paused, leaseRun, nextOp>>

-----------------------------------------------------------------------------
(* Mailbox *)

(* mark_read_batch of the messages a coordinator step declared terminal *)
MarkRead(a) ==
    /\ pub[a] = {} /\ settle[a] # {}
    /\ mail' = [r \in Reqs |-> IF r \in settle[a] THEN "read" ELSE mail[r]]
    /\ settle' = [settle EXCEPT ![a] = {}]
    /\ UNCHANGED <<coord, run, pub, reqs, loops, notified, rest, hist>> /\ NoFault

(* ... and its failure: the caller returns the error, an attach task and a *)
(* compensation after a refused commit only log it                         *)
MarkReadFails(a) ==
    /\ pub[a] = {} /\ settle[a] # {} /\ Fault("db")
    /\ settle' = [settle EXCEPT ![a] = {}]
    /\ lpc' = IF a \in Slots THEN [lpc EXCEPT ![a] = "wait"] ELSE lpc
    /\ rpc' = IF a \in Reqs THEN [rpc EXCEPT ![a] = "done"] ELSE rpc
    /\ adm' = IF a = Admin THEN [adm EXCEPT !.pc = "idle", !.todo = {}] ELSE adm
    /\ UNCHANGED <<mail, coord, run, pub, seen, lunread, lbatch, notified,
                   member, apc, admDone, seat, hist>>

-----------------------------------------------------------------------------
(* A request: enqueue_user_message, send_agent_message_from_agent,         *)
(* shutdown_agent; enqueue_existing_work for signals, notices to the       *)
(* leader and the recovery scan, whose message exists before the lease     *)

Persists(r) == Kind(r) \in {"user", "agent", "shutdown"}

(* notify_leader_child_interrupted, notify_leader_spawn_attach_failed, and   *)
(* notify_leader_membership_removed at the end of remove_agent               *)
NoticeWrite(r) ==
    /\ rpc[r] = "new"
    /\ \/ Kind(r) = "notice" /\ UNCHANGED adm
       \/ Kind(r) = "departure" /\ adm.pc = "departed" /\ adm' = [adm EXCEPT !.pc = "idle"]
    /\ \/ /\ mail' = [mail EXCEPT ![r] = "unread"]
          /\ rpc' = [rpc EXCEPT ![r] = "sync"]
          /\ NoFault
       \/ /\ Fault("db")
          /\ rpc' = [rpc EXCEPT ![r] = "done"]
          /\ UNCHANGED mail
    /\ UNCHANGED <<coord, run, pub, settle, seen, loops, notified, member, apc, admDone, seat, hist>>

(* get_agent, which fails for a member that was removed, then               *)
(* publish_runtime_constraint: the snapshot, then the coordinator           *)
ReqSync(r) ==
    /\ rpc[r] = IF Kind(r) \in {"notice", "departure", "signal"} THEN "sync" ELSE "new"
    /\ Kind(r) \notin {"unused", "leftover", "idle"}
    /\ \/ /\ status[To(r)] # "none"
          /\ seen' = [seen EXCEPT ![r] = SeenConstraint(To(r))]
          /\ rpc' = [rpc EXCEPT ![r] = "set"]
       \/ /\ status[To(r)] = "none"
          /\ rpc' = [rpc EXCEPT ![r] = "done"]
          /\ UNCHANGED seen
    /\ UNCHANGED <<mail, coord, run, pub, settle, loops, notified, rest, hist>> /\ NoFault

ReqSet(r) ==
    /\ rpc[r] = "set"
    /\ SetConstraint(r, To(r), seen[r])
    /\ rpc' = [rpc EXCEPT ![r] = "acquire"]
    /\ UNCHANGED <<mail, run, seen, loops, notified, rest, hist>> /\ NoFault

(* acquire_enqueue *)
ReqAcquire(r) ==
    /\ rpc[r] = "acquire" /\ Clear(r)
    /\ \/ /\ Admits(To(r))
          /\ \E n \in Bindings(r) \cap (0..MaxRuns) :        \* bound MaxRuns
                leaseRun' = [leaseRun EXCEPT ![r] = n] /\ run' = BoundRun(r, n)
          /\ leases' = leases \cup {r}
          /\ rpc' = [rpc EXCEPT ![r] = IF Persists(r) THEN "write" ELSE "commit"]
       \/ /\ ~Admits(To(r))
          /\ rpc' = [rpc EXCEPT ![r] = "done"]
          /\ UNCHANGED <<leaseRun, leases, run>>
    /\ UNCHANGED <<mail, ist, queue, active, paused, constraint, nextOp, pub, settle,
                   seen, loops, notified, rest, hist>> /\ NoFault

(* write_with_files, request_shutdown_agent: an error aborts the lease *)
ReqWrite(r) ==
    /\ rpc[r] = "write"
    /\ \/ /\ mail' = [mail EXCEPT ![r] = "unread"]
          /\ rpc' = [rpc EXCEPT ![r] = "commit"]
          /\ UNCHANGED <<coord, pub>> /\ NoFault
       \/ /\ Fault("db")
          /\ AbortEnqueue(r)
          /\ rpc' = [rpc EXCEPT ![r] = "done"]
          /\ UNCHANGED mail
    /\ UNCHANGED <<run, settle, seen, loops, notified, rest, hist>>

(* commit_persisted_enqueue: a refused commit marks the message read *)
ReqCommit(r) ==
    /\ rpc[r] = "commit"
    /\ \/ /\ r \in leases /\ Admits(To(r))
          /\ CommitEnqueue(r)
          /\ rpc' = [rpc EXCEPT ![r] = "notify"]
          /\ UNCHANGED settle
       \/ /\ ~(r \in leases /\ Admits(To(r)))
          /\ AbortEnqueue(r)
          /\ rpc' = [rpc EXCEPT ![r] = "done"]
          /\ settle' = [settle EXCEPT ![r] = IF HasMessage(<<r, 0>>) THEN {r} ELSE {}]
    /\ UNCHANGED <<mail, run, seen, loops, notified, rest, hist>> /\ NoFault

(* EventLoopRegistry::notify: a permit, lost when no loop is registered *)
Notified(s) == IF HasLoop(s) THEN notified \cup {s} ELSE notified

ReqNotify(r) ==
    /\ rpc[r] = "notify" /\ Clear(r)
    /\ notified' = Notified(To(r))
    /\ rpc' = [rpc EXCEPT ![r] = "done"]
    /\ UNCHANGED <<mail, coord, run, pub, settle, seen, loops, rest, hist>> /\ NoFault

-----------------------------------------------------------------------------
(* The event loop of a slot: run_event_loop, prepare_next_batch,           *)
(* execute_and_finalize                                                    *)

GoTo(s, pc) == lpc' = [lpc EXCEPT ![s] = pc]

(* one round of prepare_next_batch begins, after a signal or after a batch: *)
(* the member's runtime is read, then written to the coordinator; get_agent *)
(* fails for a member that was removed                                      *)
LoopSync(s) ==
    /\ lpc[s] = "sync" \/ (lpc[s] = "wait" /\ s \in notified)
    /\ Clear(s)
    /\ notified' = IF lpc[s] = "wait" THEN notified \ {s} ELSE notified
    /\ \/ /\ status[s] # "none"
          /\ seen' = [seen EXCEPT ![s] = SeenConstraint(s)]
          /\ GoTo(s, "set")
       \/ /\ status[s] = "none"
          /\ GoTo(s, "wait") /\ UNCHANGED seen
    /\ UNCHANGED <<mail, coord, run, pub, settle, rpc, lunread, lbatch, rest, hist>> /\ NoFault

LoopSet(s) ==
    /\ lpc[s] = "set"
    /\ SetConstraint(s, s, seen[s])
    /\ GoTo(s, "peek")
    /\ UNCHANGED <<mail, run, reqs, lunread, lbatch, notified, rest, hist>> /\ NoFault

(* peek_unread without the slot's own messages *)
Unread(s) == {r \in Reqs : /\ To(r) = s /\ mail[r] = "unread"
                           /\ ~(Kind(r) \in {"agent", "notice"} /\ From(r) = s)}

LoopPeek(s) ==
    /\ lpc[s] = "peek" /\ Clear(s)
    /\ \/ /\ lunread' = [lunread EXCEPT ![s] = Unread(s)]
          /\ GoTo(s, "reconcile") /\ NoFault
       \/ /\ Fault("db")
          /\ GoTo(s, "wait") /\ UNCHANGED lunread
    /\ UNCHANGED <<mail, coord, run, pub, settle, reqs, lbatch, notified, rest, hist>>

LoopReconcile(s) ==
    /\ lpc[s] = "reconcile"
    /\ ReconcileMailbox(s, lunread[s])
    /\ GoTo(s, "next")
    /\ UNCHANGED <<mail, run, settle, reqs, lunread, lbatch, notified, rest, hist>>
    /\ NoFault

(* WaitingForCompletion, Blocked and Quiescent all wait for the next signal *)
LoopNext(s) ==
    /\ lpc[s] = "next"
    /\ \/ /\ ~Serves(s)
          /\ GoTo(s, "wait")
          /\ UNCHANGED <<coord, pub, lbatch>>
       \/ /\ Serves(s) /\ Claimed(s) = {}
          /\ lbatch' = [lbatch EXCEPT ![s] = [op |-> 0, ids |-> Class(s), ok |-> TRUE]]
          /\ GoTo(s, "signal")
          /\ UNCHANGED <<coord, pub>>
       \/ /\ Serves(s) /\ Claimed(s) # {}
          /\ Claim(s)
          /\ lbatch' = [lbatch EXCEPT ![s] = [op |-> nextOp[s] + 1, ids |-> Claimed(s), ok |-> TRUE]]
          /\ GoTo(s, "prepare")
    /\ UNCHANGED <<mail, run, settle, reqs, lunread, notified, rest, hist>> /\ NoFault

(* handle_signal_intents *)
LoopSignal(s) ==
    /\ lpc[s] = "signal"
    /\ CompleteSignals(s)
    /\ GoTo(s, "sync")
    /\ UNCHANGED <<mail, run, settle, reqs, lunread, lbatch, notified, rest, hist>>
    /\ NoFault

MutantKeepsBatch(s) ==
    /\ lpc[s] = "prepare" /\ Clear(s) /\ Fault("db")
    /\ GoTo(s, "wait")
    /\ UNCHANGED <<mail, coord, pub, run, settle, reqs, lunread, lbatch, notified, rest, hist>>

(* list_tasks for the prompt fails: the batch is given back *)
LoopPrepareFails(s) ==
    /\ lpc[s] = "prepare" /\ Clear(s) /\ Fault("db")
    /\ RetryStart(s)
    /\ GoTo(s, "wait")
    /\ UNCHANGED <<mail, run, settle, reqs, lunread, lbatch, notified, rest, hist>>

(* set_status, which ignores a member that was removed *)
SetStatus(s, to) == status' = [status EXCEPT ![s] = IF @ = "none" THEN @ ELSE to]

(* execute_and_finalize begins *)
LoopPrepared(s) ==
    /\ lpc[s] = "prepare" /\ Clear(s)
    /\ SetStatus(s, "working")
    /\ GoTo(s, "start")
    /\ UNCHANGED <<mail, coord, run, pub, settle, reqs, lunread, lbatch, notified,
                   member, apc, adm, admDone, aborting, hist>> /\ NoFault

MutantRunsStale(s) ==
    LET b == lbatch[s]
        current == IsCurrent(s, b.op)
    IN  /\ lpc[s] = "start" /\ Clear(s)
        /\ IF current THEN MarkStarted(s) ELSE UNCHANGED <<coord, pub>>
        /\ GoTo(s, IF current /\ (s \in paused \/ constraint[s] # "ready") THEN "late" ELSE "running")
        /\ prompted' = [r \in Reqs |-> IF r \in Messages(b.ids) \cap lunread[s] /\ prompted[r] < 2
                                       THEN prompted[r] + 1 ELSE prompted[r]]
        /\ UNCHANGED <<mail, run, settle, reqs, lunread, lbatch, notified, rest, stopped, marks>>
        /\ NoFault

(* the turn starts and calls on_started; the prompt holds the peeked       *)
(* messages of the batch; "late" is CancelImmediately                      *)
LoopStart(s) ==
    LET b == lbatch[s]
        late == IF IsCurrent(s, b.op) THEN s \in paused \/ constraint[s] # "ready"
                ELSE \A i \in b.ids : ist[i] = "cancelled"
    IN  /\ lpc[s] = "start" /\ Clear(s)
        /\ IF IsCurrent(s, b.op) THEN MarkStarted(s) ELSE UNCHANGED <<coord, pub>>
        /\ GoTo(s, IF late THEN "late" ELSE "running")
        /\ prompted' = [r \in Reqs |-> IF r \in Messages(b.ids) \cap lunread[s] /\ prompted[r] < 2
                                       THEN prompted[r] + 1 ELSE prompted[r]]
        /\ UNCHANGED <<mail, run, settle, reqs, lunread, lbatch, notified, rest, stopped, marks>>
        /\ NoFault

(* run_agent_turn skips because the conversation is already running *)
LoopSkipped(s) ==
    /\ lpc[s] = "start" /\ Clear(s) /\ Fault("skip")
    /\ RetryStart(s)
    /\ SetStatus(s, "idle")
    /\ GoTo(s, "wait")
    /\ UNCHANGED <<mail, run, settle, reqs, lunread, lbatch, notified,
                   member, apc, adm, admDone, aborting, hist>>

LoopLateCancel(s) ==
    /\ lpc[s] = "late" /\ Clear(s)
    /\ CancelTurn(<<s, lbatch[s].op>>)
    /\ GoTo(s, "drop")
    /\ UNCHANGED <<mail, coord, run, pub, settle, reqs, lunread, lbatch, notified, rest,
                   prompted, marks>>

LoopLateDrop(s) ==
    /\ lpc[s] = "drop"
    /\ TerminalizeBatch(s, s, lbatch[s].op, lbatch[s].ids, "cancelled")
    /\ GoTo(s, "running")
    /\ UNCHANGED <<mail, run, settle, reqs, lunread, lbatch, notified, rest, hist>>
    /\ NoFault

MutantMarksSuccessOnly(s) ==
    /\ lpc[s] = "running" /\ Clear(s)
    /\ \E ok \in BOOLEAN :
          /\ lbatch' = [lbatch EXCEPT ![s].ok = ok]
          /\ mail' = [r \in Reqs |-> IF ok /\ r \in Messages(lbatch[s].ids) THEN "read" ELSE mail[r]]
    /\ GoTo(s, "finish")
    /\ UNCHANGED <<coord, run, pub, settle, reqs, lunread, notified, rest, hist>> /\ NoFault

(* the turn ends; mark_batch_messages_read marks every claimed message, its *)
(* failure is only logged                                                   *)
LoopTurnEnds(s) ==
    /\ lpc[s] = "running" /\ Clear(s)
    /\ \E ok \in BOOLEAN : lbatch' = [lbatch EXCEPT ![s].ok = ok]
    /\ \/ /\ mail' = [r \in Reqs |-> IF r \in Messages(lbatch[s].ids) THEN "read" ELSE mail[r]]
          /\ NoFault
       \/ Fault("db") /\ UNCHANGED mail
    /\ GoTo(s, "finish")
    /\ UNCHANGED <<coord, run, pub, settle, reqs, lunread, notified, rest, hist>>

(* run_agent_turn returns an error, before or after it called on_started *)
LoopRefused(s) ==
    /\ lpc[s] \in {"start", "running"} /\ Clear(s) /\ Fault("refuse")
    /\ mail' = [r \in Reqs |-> IF r \in Messages(lbatch[s].ids) THEN "read" ELSE mail[r]]
    /\ GoTo(s, "fail")
    /\ UNCHANGED <<coord, run, pub, settle, reqs, lunread, lbatch, notified, rest, hist>>

LoopFail(s) ==
    /\ lpc[s] = "fail"
    /\ TerminalizeBatch(s, s, lbatch[s].op, lbatch[s].ids, "failed")
    /\ SetStatus(s, "error")
    /\ GoTo(s, "sync")
    /\ UNCHANGED <<mail, run, settle, reqs, lunread, lbatch, notified,
                   member, apc, adm, admDone, aborting, hist>> /\ NoFault

LoopFinish(s) ==
    /\ lpc[s] = "finish"
    /\ TerminalizeBatch(s, s, lbatch[s].op, lbatch[s].ids,
                        IF lbatch[s].ok THEN "completed" ELSE "failed")
    /\ IF lbatch[s].ok THEN UNCHANGED status ELSE SetStatus(s, "error")
    /\ GoTo(s, "idle")
    /\ UNCHANGED <<mail, run, settle, reqs, lunread, lbatch, notified,
                   member, apc, adm, admDone, aborting, hist>> /\ NoFault

(* finalize_turn, mark_idle: the lead has nobody to tell *)
LoopIdle(s) ==
    /\ lpc[s] = "idle" /\ Clear(s)
    /\ SetStatus(s, "idle")
    /\ GoTo(s, IF s = Lead \/ status[s] = "none" THEN "sync" ELSE "note")
    /\ UNCHANGED <<mail, coord, run, pub, settle, reqs, lunread, lbatch, notified,
                   member, apc, adm, admDone, aborting, hist>> /\ NoFault

(* ... a teammate leaves the lead a note (bound: the idle notes of s) *)
LoopNote(s) ==
    /\ lpc[s] = "note"
    /\ \/ /\ \E r \in Reqs :
                /\ Kind(r) = "idle" /\ From(r) = s /\ To(r) = Lead /\ mail[r] = "none"
                /\ mail' = [mail EXCEPT ![r] = "unread"]
          /\ GoTo(s, "wake") /\ NoFault
       \/ /\ Fault("db")
          /\ GoTo(s, "sync") /\ UNCHANGED mail
    /\ UNCHANGED <<coord, run, pub, settle, reqs, lunread, lbatch, notified, rest, hist>>

(* maybe_wake_leader_when_all_idle *)
AllSettled == /\ status[Lead] = "idle"
              /\ \A s \in Slots \ {Lead} : status[s] # "working"
              /\ \E s \in Slots \ {Lead} : status[s] # "none"

(* enqueue_leader_settle_signal, which the loop waits for (bound: the        *)
(* signals of s)                                                             *)
LoopWake(s) ==
    /\ lpc[s] = "wake"
    /\ \/ /\ AllSettled
          /\ \E r \in Reqs :
                /\ Kind(r) = "signal" /\ From(r) = s /\ To(r) = Lead /\ rpc[r] = "new"
                /\ rpc' = [rpc EXCEPT ![r] = "sync"]
          /\ GoTo(s, "waking")
       \/ /\ ~AllSettled
          /\ GoTo(s, "sync") /\ UNCHANGED rpc
    /\ UNCHANGED <<mail, coord, run, pub, settle, seen, lunread, lbatch, notified, rest, hist>>
    /\ NoFault

Signalling(s) == {r \in Reqs : Kind(r) = "signal" /\ From(r) = s /\ rpc[r] \notin {"new", "done"}}

LoopWoke(s) ==
    /\ lpc[s] = "waking" /\ Signalling(s) = {}
    /\ GoTo(s, "sync")
    /\ UNCHANGED <<mail, coord, run, pub, settle, reqs, lunread, lbatch, notified, rest, hist>>
    /\ NoFault

-----------------------------------------------------------------------------
(* Member runtimes, as this module sees them: attach_member_runtime and a   *)
(* repair of a failed one.  MemberRuntimes models their registry.           *)

Attach(s) == <<"attach", s>>

AttachStart(s) ==
    /\ apc[s] = "starting"
    /\ SetConstraint(Attach(s), s, "starting")
    /\ apc' = [apc EXCEPT ![s] = "attach"]
    /\ UNCHANGED <<mail, run, reqs, loops, notified, member, adm, admDone, seat, hist>> /\ NoFault

(* the process runs: the loop is registered, then commit_ready; an attach   *)
(* that lost its member to a removal or a stop only cleans up.  A loop that *)
(* was aborted has ended by the time a new process runs.                    *)
AttachReady(s) ==
    /\ apc[s] = "attach"
    /\ \/ /\ member[s] = "attaching" /\ s \notin aborting
          /\ member' = [member EXCEPT ![s] = "ready"]
          /\ apc' = [apc EXCEPT ![s] = "ready"]
          /\ lpc' = [lpc EXCEPT ![s] = IF @ = "gone" THEN "wait" ELSE @]
       \/ /\ member[s] # "attaching"
          /\ apc' = [apc EXCEPT ![s] = "idle"]
          /\ UNCHANGED <<member, lpc>>
    /\ UNCHANGED <<mail, coord, run, pub, settle, reqs, lunread, lbatch, notified, adm,
                   admDone, seat, hist>> /\ NoFault

AttachFails(s) ==
    /\ apc[s] = "attach" /\ member[s] = "attaching" /\ Fault("member")
    /\ member' = [member EXCEPT ![s] = "failed"]
    /\ apc' = [apc EXCEPT ![s] = "failed"]
    /\ SetStatus(s, "error")
    /\ UNCHANGED <<mail, coord, run, pub, settle, reqs, loops, notified, adm, admDone, aborting, hist>>

MutantNoWakeUp(s) ==
    /\ apc[s] \in {"ready", "failed"}
    /\ SetConstraint(Attach(s), s, apc[s])
    /\ apc' = [apc EXCEPT ![s] = "idle"]
    /\ UNCHANGED <<mail, run, reqs, loops, notified, member, adm, admDone, seat, hist>> /\ NoFault

(* the outcome reaches the coordinator after the registry *)
AttachPublish(s) ==
    /\ apc[s] \in {"ready", "failed"}
    /\ SetConstraint(Attach(s), s, apc[s])
    /\ notified' = IF apc[s] = "ready" THEN Notified(s) ELSE notified
    /\ apc' = [apc EXCEPT ![s] = "idle"]
    /\ UNCHANGED <<mail, run, reqs, loops, member, adm, admDone, seat, hist>> /\ NoFault

(* reserve_repair *)
Repair(s) ==
    /\ member[s] = "failed" /\ apc[s] = "idle" /\ Clear(Attach(s))
    /\ member' = [member EXCEPT ![s] = "attaching"]
    /\ apc' = [apc EXCEPT ![s] = "starting"]
    /\ UNCHANGED <<mail, coord, run, pub, settle, reqs, loops, notified, adm, admDone, seat, hist>>
    /\ NoFault

-----------------------------------------------------------------------------
(* Administrative operations of the session, one at a time *)

Begin(op) == adm.pc = "idle" /\ Clear(Admin) /\ op \in scn.ops \ admDone
             /\ admDone' = admDone \cup {op}

(* cancel_run: begin_cancel, the coordinator, the mailbox, the turns *)
BeginCancelRun ==
    /\ Begin("cancel_run") /\ run.status \in Active
    /\ run' = [run EXCEPT !.status = "cancelling"]
    /\ adm' = [adm EXCEPT !.pc = "cancelling", !.run = run.id]
    /\ UNCHANGED <<mail, coord, pub, settle, reqs, loops, notified, member, apc, seat, hist>> /\ NoFault

CancelRunWork ==
    /\ adm.pc = "cancelling"
    /\ CancelRun(adm.run)
    /\ UNCHANGED <<mail, run, reqs, loops, notified, member, apc, admDone, seat, hist>> /\ NoFault

(* get_agent fails for the turn of a member that was removed and ends the    *)
(* operation                                                                 *)
StopTurn ==
    /\ adm.pc = "stopping" /\ Clear(Admin)
    /\ \E turn \in adm.todo :
          \/ /\ status[turn[1]] # "none"
             /\ CancelTurn(turn)
             /\ adm' = [adm EXCEPT !.todo = @ \ {turn}]
          \/ /\ status[turn[1]] = "none"
             /\ adm' = [adm EXCEPT !.pc = "idle", !.todo = {}]
             /\ UNCHANGED stopped /\ NoFault
    /\ UNCHANGED <<mail, coord, run, pub, settle, reqs, loops, notified, member, apc, admDone,
                   seat, prompted, marks>>

TurnsStopped ==
    /\ adm.pc = "stopping" /\ Clear(Admin) /\ adm.todo = {}
    /\ adm' = [adm EXCEPT !.pc = "idle"]
    /\ UNCHANGED <<mail, coord, run, pub, settle, reqs, loops, notified, member, apc, admDone,
                   seat, hist>> /\ NoFault

(* cancel_child_turn: the snapshot *)
BeginCancelChild(s) ==
    /\ Begin("cancel_child") /\ RunsOf(active[s].ids) # {}
    /\ adm' = [adm EXCEPT !.pc = "child", !.slot = s, !.batch = active[s]]
    /\ UNCHANGED <<mail, coord, run, pub, settle, reqs, loops, notified, member, apc, seat, hist>>
    /\ NoFault

(* pause_slot_work: pause_slot returns the batch to cancel *)
PauseSlot(s) ==
    /\ Begin("pause") /\ run.status \in Active
    /\ paused' = paused \cup {s}
    /\ adm' = [adm EXCEPT !.pc = IF active[s].op = 0 THEN "idle" ELSE "child",
                          !.slot = s, !.batch = active[s]]
    /\ UNCHANGED <<mail, ist, queue, active, constraint, leases, leaseRun, nextOp, run,
                   pub, settle, reqs, loops, notified, member, apc, seat, hist>> /\ NoFault

(* both: the turn the snapshot knows is cancelled, then the batch; an error *)
(* of get_agent or of the port ends the operation                           *)
CancelSnapshotTurn ==
    /\ adm.pc = "child"
    /\ \/ /\ adm.batch.turn /\ status[adm.slot] # "none"
          /\ CancelTurn(<<adm.slot, adm.batch.op>>)
          /\ adm' = [adm EXCEPT !.pc = IF faults' = faults THEN "cancel_batch" ELSE "idle"]
       \/ /\ adm.batch.turn /\ status[adm.slot] = "none"
          /\ adm' = [adm EXCEPT !.pc = "idle"]
          /\ UNCHANGED stopped /\ NoFault
       \/ /\ ~adm.batch.turn
          /\ adm' = [adm EXCEPT !.pc = "cancel_batch"]
          /\ UNCHANGED stopped /\ NoFault
    /\ UNCHANGED <<mail, coord, run, pub, settle, reqs, loops, notified, member, apc, admDone,
                   seat, prompted, marks>>

CancelBatch ==
    /\ adm.pc = "cancel_batch"
    /\ TerminalizeBatch(Admin, adm.slot, adm.batch.op, adm.batch.ids, "cancelled")
    /\ adm' = [adm EXCEPT !.pc = "idle"]
    /\ UNCHANGED <<mail, run, settle, reqs, loops, notified, member, apc, admDone, seat, hist>>
    /\ NoFault

(* TeamSessionService::remove_agent: begin_remove, the event loop, the       *)
(* process, the row; the coordinator is not told                             *)
BeginRemove(s) ==
    /\ Begin("remove") /\ s # Lead /\ member[s] \in {"attaching", "ready", "failed"}
    /\ member' = [member EXCEPT ![s] = "removing"]
    /\ adm' = [adm EXCEPT !.pc = "removing", !.slot = s]
    /\ UNCHANGED <<mail, coord, run, pub, settle, reqs, loops, notified, apc, seat, hist>> /\ NoFault

(* EventLoopRegistry::remove *)
Unloop(s) == /\ notified' = notified \ {s}
             /\ aborting' = IF lpc[s] = "gone" THEN aborting ELSE aborting \cup {s}

RemoveLoop ==
    /\ adm.pc = "removing"
    /\ Unloop(adm.slot)
    /\ removed' = removed \cup {adm.slot}
    /\ adm' = [adm EXCEPT !.pc = "killing"]
    /\ UNCHANGED <<mail, coord, run, pub, settle, reqs, loops, member, apc, admDone, status,
                   prompted, stopped, dropped>> /\ NoFault

(* kill_and_wait, then the row: an error of the statement restores the       *)
(* member as failed, an error of the read before it does not                 *)
RemovePersist ==
    /\ adm.pc = "killing"
    /\ \/ adm' = [adm EXCEPT !.pc = "finishing"] /\ NoFault
       \/ \E to \in {"restoring", "idle"} : adm' = [adm EXCEPT !.pc = to] /\ Fault("db")
    /\ UNCHANGED <<mail, coord, run, pub, settle, reqs, loops, notified, member, apc, admDone,
                   seat, hist>>

RemoveRestore ==
    /\ adm.pc = "restoring"
    /\ member' = [member EXCEPT ![adm.slot] = IF @ = "removing" THEN "failed" ELSE @]
    /\ adm' = [adm EXCEPT !.pc = "idle"]
    /\ UNCHANGED <<mail, coord, run, pub, settle, reqs, loops, notified, apc, admDone, seat, hist>>
    /\ NoFault

(* the event loop and the process again, then the scheduler *)
RemoveAgent ==
    /\ adm.pc = "finishing"
    /\ Unloop(adm.slot)
    /\ status' = [status EXCEPT ![adm.slot] = "none"]
    /\ adm' = [adm EXCEPT !.pc = "leaving"]
    /\ UNCHANGED <<mail, coord, run, pub, settle, reqs, loops, member, apc, admDone, hist>>
    /\ NoFault

(* finish_remove; the lead is told next *)
FinishRemove ==
    /\ adm.pc = "leaving"
    /\ member' = [member EXCEPT ![adm.slot] = "absent"]
    /\ adm' = [adm EXCEPT !.pc = "departed"]
    /\ UNCHANGED <<mail, coord, run, pub, settle, reqs, loops, notified, apc, admDone, seat, hist>>
    /\ NoFault

(* stop: the coordinator, the member runtimes, the event loops *)
StopWork ==
    /\ Begin("stop")
    /\ StopAll
    /\ adm' = [adm EXCEPT !.pc = "halting"]
    /\ UNCHANGED <<mail, run, settle, reqs, loops, notified, member, apc, seat, hist>> /\ NoFault

StopSession ==
    /\ adm.pc = "halting" /\ Clear(Admin)
    /\ member' = [s \in Slots |-> "stopped"]
    /\ notified' = {}
    /\ aborting' = {s \in Slots : lpc[s] # "gone"}
    /\ adm' = [adm EXCEPT !.pc = "halted"]
    /\ UNCHANGED <<mail, coord, run, pub, settle, reqs, loops, apc, admDone, status, hist>> /\ NoFault

-----------------------------------------------------------------------------
(* Futures that end at an await *)

(* where an aborted loop, or the signal it sends, awaits something *)
AwaitPoints == {"wait", "sync", "peek", "prepare", "start", "late", "running",
                "idle", "note", "wake", "waking"}

LoopAbort(s) ==
    /\ s \in aborting /\ lpc[s] \in AwaitPoints /\ pub[s] = {}
    /\ \A r \in Signalling(s) : rpc[r] = "sync" \/ (rpc[r] = "acquire" /\ settle[r] # {} /\ pub[r] = {})
    /\ rpc' = [r \in Reqs |-> IF r \in Signalling(s) THEN "done" ELSE rpc[r]]
    /\ settle' = [a \in Actors |-> IF a = s \/ a \in Signalling(s) THEN {} ELSE settle[a]]
    /\ aborting' = aborting \ {s}
    /\ GoTo(s, "gone")
    /\ UNCHANGED <<mail, coord, run, pub, seen, lunread, lbatch, notified, member, apc, adm, admDone,
                   status, hist>>
    /\ NoFault

(* axum drops the handler of a client that goes away: the caller's next await *)
(* is its last                                                                *)
Dropped(a) == a \in scn.drops \ dropped /\ dropped' = dropped \cup {a}

(* a request: before acquire_enqueue nothing is held; the lease of a user    *)
(* message that is being written or projected is not released; messages that *)
(* were being marked read stay unread                                        *)
ReqDrop(r) ==
    /\ Dropped(r) /\ Kind(r) \in {"user", "notice", "departure", "recovery"} /\ pub[r] = {}
    /\ \/ rpc[r] = (IF Kind(r) = "recovery" THEN "new" ELSE "sync") /\ UNCHANGED mail
       \/ rpc[r] = "acquire" /\ (Kind(r) = "user" \/ settle[r] # {}) /\ UNCHANGED mail
       \/ rpc[r] = "write" /\ mail' \in {mail, [mail EXCEPT ![r] = "unread"]}
       \/ rpc[r] = "commit" /\ Kind(r) = "user" /\ UNCHANGED mail
       \/ rpc[r] = "done" /\ settle[r] # {} /\ UNCHANGED mail
    /\ rpc' = [rpc EXCEPT ![r] = "done"]
    /\ settle' = [settle EXCEPT ![r] = {}]
    /\ UNCHANGED <<coord, run, pub, seen, loops, notified, rest, prompted, stopped, removed>> /\ NoFault

(* an operation: what is left of it is not done *)
AdminDrop ==
    /\ Dropped(Admin) /\ pub[Admin] = {}
    /\ \/ adm.pc = "stopping" /\ (settle[Admin] # {} \/ adm.todo # {})
       \/ adm.pc = "child" /\ adm.batch.turn
       \/ adm.pc \in {"killing", "finishing", "departed"}
    /\ adm' = [adm EXCEPT !.pc = "idle", !.todo = {}]
    /\ settle' = [settle EXCEPT ![Admin] = {}]
    /\ UNCHANGED <<mail, coord, run, pub, reqs, loops, notified, member, apc, admDone, seat,
                   prompted, stopped, removed>> /\ NoFault

-----------------------------------------------------------------------------
ReqStep(r) == \/ NoticeWrite(r) \/ ReqSync(r) \/ ReqSet(r) \/ ReqAcquire(r)
              \/ ReqWrite(r) \/ ReqCommit(r) \/ ReqNotify(r)

IdleStep(s) == LoopIdle(s) \/ LoopNote(s) \/ LoopWake(s) \/ LoopWoke(s)

LoopStep(s) == \/ LoopSync(s) \/ LoopSet(s) \/ LoopPeek(s) \/ LoopReconcile(s) \/ LoopNext(s)
               \/ LoopSignal(s) \/ LoopPrepareFails(s) \/ LoopPrepared(s) \/ LoopStart(s)
               \/ LoopRefused(s) \/ LoopSkipped(s) \/ LoopLateCancel(s) \/ LoopLateDrop(s)
               \/ LoopTurnEnds(s) \/ LoopFail(s) \/ LoopFinish(s) \/ IdleStep(s) \/ LoopAbort(s)

AttachStep(s) == \/ AttachStart(s) \/ AttachReady(s) \/ AttachFails(s) \/ AttachPublish(s)

AdminGoesOn == \/ CancelRunWork \/ StopTurn \/ TurnsStopped \/ CancelSnapshotTurn \/ CancelBatch
               \/ RemoveLoop \/ RemovePersist \/ RemoveRestore \/ RemoveAgent \/ FinishRemove
               \/ StopSession

AdminBegins == \/ BeginCancelRun \/ StopWork
               \/ \E s \in Slots : BeginCancelChild(s) \/ PauseSlot(s) \/ BeginRemove(s)

ActorStep(a) == Publish(a) \/ MarkRead(a) \/ MarkReadFails(a)

Next == \/ \E r \in Reqs : ReqStep(r)
        \/ \E s \in Slots : LoopStep(s) \/ AttachStep(s) \/ Repair(s)
        \/ AdminGoesOn \/ AdminBegins
        \/ \E r \in Reqs : ReqDrop(r)
        \/ AdminDrop
        \/ \E a \in Actors : ActorStep(a)

(* A request that began, the recovery scan of the session's start, a loop,  *)
(* an attach task and an operation that began go on until their client goes *)
(* away, and turns end; nobody has to begin an operation, send a request or *)
(* repair.                                                                  *)
Began(r) == rpc[r] # "new" \/ Kind(r) = "recovery"
Fairness == /\ \A r \in Reqs : WF_vars(Began(r) /\ (ReqStep(r) \/ ActorStep(r)))
            /\ \A s \in Slots : /\ WF_vars(LoopStep(s) \/ ActorStep(s))
                                 /\ WF_vars(AttachStep(s) \/ ActorStep(Attach(s)))
            /\ WF_vars(AdminGoesOn \/ ActorStep(Admin))

Spec == Init /\ [][Next]_vars /\ Fairness

-----------------------------------------------------------------------------
(* Properties *)

Halted == adm.pc \in {"halting", "halted"}

(* An intent waits in a queue exactly while it is queued and belongs to the  *)
(* active batch of its slot exactly while it is starting or running, through *)
(* every requeue of cancel_run, retry_start and a failed runtime: no work is *)
(* lost from both places and none is in both.                                *)
IntentHome ==
    /\ queue = {i \in Ids : ist[i] = "queued"}
    /\ \A s \in Slots :
          /\ active[s].ids = {i \in IdsOf(s) : ist[i] \in {"starting", "running"}}
          /\ (active[s].op = 0) = (active[s].ids = {})
          /\ \A i \in active[s].ids : ist[i] = "running" <=> active[s].turn

(* A slot is never wedged: while the coordinator holds an active batch for a *)
(* slot, the event loop of the slot is executing exactly that batch and will *)
(* give it back.  next answers WaitingForCompletion until then.  A removal   *)
(* takes the loop away and leaves the batch: if it fails later, the slot     *)
(* keeps a batch that nobody executes.                                       *)
Executing == {"prepare", "start", "late", "drop", "running", "finish", "fail"}
SlotNotWedged ==
    \A s \in Slots \ removed : active[s].op # 0 /\ ~Halted =>
        lpc[s] \in Executing /\ lbatch[s].op = active[s].op

(* A message is part of at most one prompt, whatever is cancelled, paused,   *)
(* requeued, recovered or dropped around it, unless the database failed.     *)
DeliveredOnce == "db" \notin faults => \A r \in Reqs : prompted[r] <= 1

(* A turn whose whole batch was cancelled by a run cancel is told to stop,   *)
(* whether the cancel came before the turn started or while it ran           *)
(* (cancel_child_turn and pause_slot_work use a snapshot of the slot after   *)
(* the lock is released and may miss a turn that starts meanwhile; a cancel  *)
(* gives up when its client goes away or at the turn of a removed member).   *)
CancelledTurnStops ==
    /\ faults \cap {"db", "port"} = {} /\ admDone \cap {"cancel_child", "pause", "stop"} = {}
    /\ Admin \notin dropped /\ \A s \in Slots : status[s] # "none"
    => \A s \in Slots \ removed : lpc[s] = "running" /\ (\A i \in lbatch[s].ids : ist[i] = "cancelled") =>
            <<s, lbatch[s].op>> \in stopped \cup adm.todo

(* No mailbox message stays unread for ever in a free slot: no interleaving  *)
(* of enqueue, attach, notify, dropped handlers of others and the loops loses *)
(* the wake-up for it, the lead's for the note of an idle teammate included. *)
(* Mail a failed recovery scan left behind, or a handler that was dropped    *)
(* before it committed, waits for somebody else's wake-up; a note waits for  *)
(* every teammate that is at work (a loop that stays at "note" or "wake" has *)
(* used up its notes or signals).                                            *)
Free(r) == /\ faults = {} /\ ~Halted /\ Kind(r) # "leftover" /\ dropped \cap {r, Admin} = {}
           /\ To(r) \notin paused \cup removed /\ member[To(r)] = "ready"
           /\ Kind(r) = "idle" => removed = {} /\ \A s \in Slots : lpc[s] \notin {"note", "wake"}
EveryMessageSettles ==
    \A r \in Reqs : []<>(Free(r) => mail[r] # "unread")

(* What mailbox.rs says of mark_read_batch ("Called after successful prompt  *)
(* delivery"): a message is not marked read as completed work without ever   *)
(* having been part of a prompt.                                             *)
NoSilentRead ==
    \A r \in Reqs : mail[r] = "read" /\ prompted[r] = 0 =>
        \/ \E i \in Ids : i[1] = r /\ ist[i] \in {"failed", "cancelled"} \cup LiveStates
        \/ ist[<<r, 0>>] = "none"
=============================================================================
