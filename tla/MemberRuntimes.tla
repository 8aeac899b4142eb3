--------------------------- MODULE MemberRuntimes ---------------------------
(***************************************************************************)
(* The runtime of one team member across the sessions of its team:         *)
(* crates/aionui-team, member_runtime.rs (the MemberRuntimeRegistry of a   *)
(* session), the attach task of session.rs, the membership and session     *)
(* operations of service.rs and the registry of event loops.               *)
(*                                                                         *)
(* A session is named by its generation, published is the one in the       *)
(* service's map.  Operation ids are unique across generations here; a     *)
(* lease of the code carries its generation and is compared with both.     *)
(* mem and ens are the membership lock and the ensure lock of the team.    *)
(* The member's process is named by the operation that built it and the    *)
(* generation whose MCP configuration it was built with.                   *)
(*                                                                         *)
(* Abstracted: the other members, status broadcasts, the work coordinator  *)
(* (TeamWork models it) and the conversation's own data.                   *)
(***************************************************************************)
EXTENDS Naturals

CONSTANTS Reqs,      \* the requests to the service
          Free,      \* the holder of a lock nobody holds
          Scenarios, \* the workloads Init chooses from
          MaxGen,    \* bound: sessions started
          MaxOp      \* bound: attach and remove operations

Kinds == {"ensure", "add", "remove", "stop", "idle", "unused"}

(* A workload: what each request asks for, whether the member is stored at  *)
(* first, the faults that may occur, each once: a failing read ("load") or  *)
(* write ("db"), a failing warm-up, a process that disappears; and whether  *)
(* clients may go away                                                      *)
Workloads == [kind : [Reqs -> Kinds], stored : BOOLEAN,
              faults : SUBSET {"load", "db", "warmup", "vanish"}, drops : BOOLEAN]

(* adding creates the member: at most one request adds it, and none when it *)
(* is stored at first                                                       *)
ASSUME MemberAssumption ==
    /\ Scenarios \subseteq Workloads
    /\ \A s \in Scenarios : \A q, r \in Reqs :
          s.kind[q] = "add" => ~s.stored /\ (s.kind[r] = "add" => q = r)
    /\ MaxGen \in Nat \ {0} /\ MaxOp \in Nat \ {0}
    /\ Free \notin Reqs

VARIABLES
    scn,        \* the workload, fixed by Init
    stored,     \* the member is in the team's row
    gone,       \* the member's conversation was deleted
    config,     \* generation in the conversation's team_mcp_stdio_config
    proc,       \* the member's process in the task manager
    published,  \* the session in the service's map, 0: none
    gens,       \* sessions started so far
    entry,      \* entry[g]: the member's entry in the registry of session g
    outcome,    \* outcome[op]: the signal of an operation
    nextOp,     \* last operation id
    closed,     \* sessions whose registry was stopped, or that no longer exist
    looping,    \* sessions with an event loop for the member
    loopsClosed,\* sessions whose event loops were shut down
    mem, ens,   \* the holders of the two locks
    rpc, rgen, rop, rcfg, \* requests: program counter, session, operation,
                \* configuration read by a warm-up
    apc,        \* apc[op]: the attach task of an operation
    faults      \* faults that occurred

registry == <<entry, outcome, nextOp, closed>>
evloops  == <<looping, loopsClosed>>
locks    == <<mem, ens>>
runtime  == <<config, proc>>
req      == <<rpc, rgen, rop, rcfg>>
conv     == <<stored, gone>>
vars == <<scn, conv, runtime, published, gens, registry, evloops, locks, req, apc, faults>>

Gens == 1..MaxGen
Ops  == 1..MaxOp
Kind(r) == scn.kind[r]
NoProc  == [by |-> 0, cfg |-> 0]

TypeOK ==
    /\ stored \in BOOLEAN /\ gone \in BOOLEAN
    /\ config \in 0..MaxGen
    /\ proc \in [by : 0..MaxOp, cfg : 0..MaxGen]
    /\ published \in 0..gens /\ gens \in 0..MaxGen
    /\ entry \in [Gens -> [st : {"absent", "attaching", "ready", "failed", "removing"}, op : 0..MaxOp]]
    /\ outcome \in [Ops -> {"pending", "ready", "failed", "removed", "stopped"}]
    /\ nextOp \in 0..MaxOp
    /\ closed \subseteq 1..gens /\ looping \subseteq 1..gens /\ loopsClosed \subseteq closed
    /\ mem \in Reqs \cup {Free} /\ ens \in Reqs \cup {Free}
    /\ rgen \in [Reqs -> 0..MaxGen] /\ rop \in [Reqs -> 0..MaxOp]
    /\ rcfg \in [Reqs -> 0..MaxGen]
    /\ rpc \in [Reqs -> {"new", "look", "repair", "reserve", "spawn", "wait", "boot", "config", "kill",
                         "warm", "build", "publish", "abandon", "session", "welcome", "begin", "begin2", "unloop", "stopruntime", "persist",
                         "restore", "current", "join", "unloop2", "kill2", "finish", "halt", "shutdown",
                         "cleanup", "delete", "done", "lost"}]
    /\ apc \in [Ops -> [pc : {"none", "config", "kill", "warm", "build", "check", "register", "commit",
                              "publish", "stale", "broken", "failed"},
                        gen : 0..MaxGen, cfg : 0..MaxGen, loop : BOOLEAN]]

NoTask == [pc |-> "none", gen |-> 0, cfg |-> 0, loop |-> FALSE]

Init ==
    /\ scn \in Scenarios
    /\ stored = scn.stored /\ gone = FALSE
    /\ config = 0 /\ proc = NoProc
    /\ published = 0 /\ gens = 0
    /\ entry = [g \in Gens |-> [st |-> "absent", op |-> 0]]
    /\ outcome = [op \in Ops |-> "pending"] /\ nextOp = 0
    /\ closed = {} /\ looping = {} /\ loopsClosed = {}
    /\ mem = Free /\ ens = Free
    /\ rpc = [r \in Reqs |-> "new"] /\ rgen = [r \in Reqs |-> 0] /\ rop = [r \in Reqs |-> 0]
    /\ rcfg = [r \in Reqs |-> 0]
    /\ apc = [op \in Ops |-> NoTask]
    /\ faults = {}

Fault(f) == f \in scn.faults \ faults /\ faults' = faults \cup {f} /\ UNCHANGED scn
NoFault  == UNCHANGED <<faults, scn>>

GoTo(r, pc) == rpc' = [rpc EXCEPT ![r] = pc]

-----------------------------------------------------------------------------
(* MemberRuntimeRegistry *)

Put(g, st, op) == entry' = [entry EXCEPT ![g] = [st |-> st, op |-> op]]
Signal(op, o)  == outcome' = [outcome EXCEPT ![op] = o]

(* the attach operation op of session g is still the current one *)
OwnsAttach(g, op) == g \notin closed /\ entry[g] = [st |-> "attaching", op |-> op]

(* reserve_attach and reserve_repair, called by request r for session g: a  *)
(* new operation in the states Start, the operation to wait for otherwise   *)
Reserve(r, g, Start) ==
    IF g \in closed
    THEN rop' = [rop EXCEPT ![r] = 0] /\ UNCHANGED registry
    ELSE IF entry[g].st \in Start
    THEN /\ nextOp < MaxOp                                   \* bound MaxOp
         /\ nextOp' = nextOp + 1
         /\ Put(g, "attaching", nextOp + 1)
         /\ rop' = [rop EXCEPT ![r] = nextOp + 1]
         /\ UNCHANGED <<outcome, closed>>
    ELSE rop' = [rop EXCEPT ![r] = entry[g].op] /\ UNCHANGED registry

(* commit_ready and commit_failed *)
Commit(g, op, st) ==
    IF OwnsAttach(g, op)
    THEN Put(g, st, IF st = "ready" THEN 0 ELSE op) /\ Signal(op, st) /\ UNCHANGED <<nextOp, closed>>
    ELSE UNCHANGED registry

(* begin_remove: Start ends a pending attach, Join waits for the other       *)
(* removal, Absent and SessionStopped leave nothing to finish                *)
BeginRemoveStarts(g) == g \notin closed /\ entry[g].st \in {"attaching", "ready", "failed"}
BeginRemoveJoins(g)  == g \notin closed /\ entry[g].st = "removing"
StartRemove(r, g) ==
    /\ nextOp < MaxOp                                        \* bound MaxOp
    /\ nextOp' = nextOp + 1
    /\ Put(g, "removing", nextOp + 1)
    /\ IF entry[g].st = "attaching" THEN Signal(entry[g].op, "removed") ELSE UNCHANGED outcome
    /\ rop' = [rop EXCEPT ![r] = nextOp + 1]
    /\ UNCHANGED closed

(* mutant: a failed write leaves the entry as it is *)
MutantNoRestore(g, op, st) ==
    IF st = "absent" /\ op # 0 /\ g \notin closed /\ entry[g] = [st |-> "removing", op |-> op]
    THEN Put(g, st, 0) /\ Signal(op, "removed") /\ UNCHANGED <<nextOp, closed>>
    ELSE UNCHANGED registry

(* finish_remove and restore_attach_required_after_remove_persist_error *)
EndRemove(g, op, st) ==
    IF op # 0 /\ g \notin closed /\ entry[g] = [st |-> "removing", op |-> op]
    THEN /\ Put(g, st, IF st = "absent" THEN 0 ELSE op)
         /\ Signal(op, IF st = "absent" THEN "removed" ELSE "failed")
         /\ UNCHANGED <<nextOp, closed>>
    ELSE UNCHANGED registry

(* mutant: the entries are dropped without a signal *)
MutantSilentStop(g) ==
    closed' = closed \cup {g} /\ Put(g, "absent", 0) /\ UNCHANGED <<nextOp, outcome>>

(* stop: pending attaches and removals end, the entries are drained *)
StopRegistry(g) ==
    /\ closed' = closed \cup {g}
    /\ IF entry[g].st \in {"attaching", "removing"} THEN Signal(entry[g].op, "stopped")
       ELSE UNCHANGED outcome
    /\ Put(g, "absent", 0)
    /\ UNCHANGED nextOp

-----------------------------------------------------------------------------
(* The task manager, as attach_agent_process uses it: a warm-up builds the  *)
(* process from the stored configuration unless there is one already        *)

Kill == proc' = NoProc
WarmUp(op, cfg) == proc' = IF proc = NoProc THEN [by |-> op, cfg |-> cfg] ELSE proc

-----------------------------------------------------------------------------
(* ensure_session *)

(* the membership lock is taken and the team loaded *)
EnsureLoad(r) ==
    /\ Kind(r) = "ensure" /\ rpc[r] = "new" /\ mem = Free
    /\ \/ /\ published # 0 /\ stored
          /\ mem' = r /\ rgen' = [rgen EXCEPT ![r] = published]
          /\ GoTo(r, "look") /\ NoFault
       \/ /\ published = 0
          /\ mem' = r
          /\ GoTo(r, "boot") /\ NoFault /\ UNCHANGED rgen
       \/ /\ \/ published # 0 /\ ~stored /\ NoFault
             \/ Fault("load")
          /\ GoTo(r, "done") /\ UNCHANGED <<mem, rgen>>
    /\ UNCHANGED <<conv, runtime, published, gens, registry, evloops, ens, rop, apc, rcfg>>

(* reserve_member_runtime_reconciliation: the snapshot and the task manager *)
(* are read, then the registry is asked                                     *)
EnsureLook(r) ==
    /\ rpc[r] = "look"
    /\ LET ready == rgen[r] \notin closed /\ entry[rgen[r]].st = "ready"
       IN  /\ GoTo(r, IF ~ready THEN "reserve" ELSE IF proc = NoProc THEN "repair" ELSE "done")
           /\ mem' = IF ready /\ proc # NoProc THEN Free ELSE mem
    /\ UNCHANGED <<conv, runtime, published, gens, registry, evloops, ens, rgen, rop, apc, rcfg>>
    /\ NoFault

EnsureReserve(r) ==
    /\ Kind(r) = "ensure" /\ rpc[r] \in {"repair", "reserve"}
    /\ Reserve(r, rgen[r], IF rpc[r] = "repair" THEN {"absent", "ready"} ELSE {"absent", "failed"})
    /\ GoTo(r, IF nextOp' # nextOp THEN "spawn" ELSE IF rop'[r] = 0 THEN "done" ELSE "wait")
    /\ mem' = Free
    /\ UNCHANGED <<conv, runtime, published, gens, evloops, ens, rgen, apc, rcfg>> /\ NoFault

(* complete_member_runtime_reconciliation: the owner spawns the attach and  *)
(* waits for its outcome like everybody else                                *)
EnsureSpawn(r) ==
    /\ rpc[r] = "spawn"
    /\ apc' = [apc EXCEPT ![rop[r]] = [NoTask EXCEPT !.pc = "config", !.gen = rgen[r]]]
    /\ GoTo(r, "wait")
    /\ UNCHANGED <<conv, runtime, published, gens, registry, evloops, locks, rgen, rop, rcfg>> /\ NoFault

(* AttachWaiter::wait; a reconciliation then compares the outcome with the  *)
(* row and the map under the membership lock, which only decides its answer *)
Wait(r) ==
    /\ rpc[r] = "wait" /\ outcome[rop[r]] # "pending"
    /\ Kind(r) = "ensure" => mem = Free
    /\ GoTo(r, "done")
    /\ UNCHANGED <<conv, runtime, published, gens, registry, evloops, locks, rgen, rop, apc, rcfg>> /\ NoFault

(* without a session: a new one is started, both locks are held             *)
Boot(r) ==
    /\ rpc[r] = "boot" /\ ens = Free
    /\ gens < MaxGen                                         \* bound MaxGen
    /\ gens' = gens + 1
    /\ rgen' = [rgen EXCEPT ![r] = gens + 1]
    /\ ens' = r
    /\ GoTo(r, IF stored THEN "config" ELSE "publish")
    /\ UNCHANGED <<conv, runtime, published, registry, evloops, mem, rop, apc, rcfg>> /\ NoFault

(* rebuild_agent_processes: the configuration, the kill, the warm-up, which *)
(* reads the conversation and then builds                                   *)
BootConfig(r) ==
    /\ rpc[r] = "config"
    /\ \/ config' = rgen[r] /\ GoTo(r, "kill") /\ NoFault
       \/ Fault("db") /\ GoTo(r, "abandon") /\ UNCHANGED config
    /\ UNCHANGED <<conv, proc, published, gens, registry, evloops, locks, rgen, rop, apc, rcfg>>

BootKill(r) ==
    /\ rpc[r] = "kill"
    /\ Kill
    /\ GoTo(r, "warm")
    /\ UNCHANGED <<conv, config, published, gens, registry, evloops, locks, rgen, rop, apc, rcfg>>
    /\ NoFault

BootWarm(r) ==
    /\ rpc[r] = "warm"
    /\ rcfg' = [rcfg EXCEPT ![r] = config]
    /\ GoTo(r, "build")
    /\ UNCHANGED <<conv, runtime, published, gens, registry, evloops, locks, rgen, rop, apc>>
    /\ NoFault

BootBuild(r) ==
    /\ rpc[r] = "build"
    /\ \/ WarmUp(0, rcfg[r]) /\ GoTo(r, "publish") /\ NoFault
       \/ Fault("warmup") /\ GoTo(r, "abandon") /\ UNCHANGED proc
    /\ UNCHANGED <<conv, config, published, gens, registry, evloops, locks, rgen, rop, rcfg, apc>>

(* spawn_event_loops, seed_ready, the map: the session is private before *)
BootPublish(r) ==
    /\ rpc[r] = "publish"
    /\ looping' = IF stored THEN looping \cup {rgen[r]} ELSE looping
    /\ IF stored THEN Put(rgen[r], "ready", 0) ELSE UNCHANGED entry
    /\ published' = rgen[r]
    /\ mem' = Free /\ ens' = Free
    /\ GoTo(r, "done")
    /\ UNCHANGED <<conv, runtime, gens, outcome, nextOp, closed, loopsClosed, rgen, rop, apc, rcfg>>
    /\ NoFault

(* mutant: only the event loops are shut down *)
MutantHalfStop(r) ==
    /\ rpc[r] = "abandon"
    /\ loopsClosed' = loopsClosed \cup {rgen[r]}
    /\ Kill
    /\ mem' = Free /\ ens' = Free
    /\ GoTo(r, "done")
    /\ UNCHANGED <<conv, config, published, gens, registry, looping, rgen, rop, apc, rcfg>> /\ NoFault

BootAbandon(r) ==
    /\ rpc[r] = "abandon"
    /\ closed' = closed \cup {rgen[r]} /\ loopsClosed' = loopsClosed \cup {rgen[r]}
    /\ Kill
    /\ mem' = Free /\ ens' = Free
    /\ GoTo(r, "done")
    /\ UNCHANGED <<conv, config, published, gens, entry, outcome, nextOp, looping, rgen, rop, apc, rcfg>>
    /\ NoFault

-----------------------------------------------------------------------------
(* add_agent *)

AddStore(r) ==
    /\ Kind(r) = "add" /\ rpc[r] = "new" /\ mem = Free /\ ~stored
    /\ stored' = TRUE
    /\ mem' = r
    /\ GoTo(r, "session")
    /\ UNCHANGED <<gone, runtime, published, gens, registry, evloops, ens, rgen, rop, apc, rcfg>> /\ NoFault

AddSession(r) ==
    /\ rpc[r] = "session"
    /\ rgen' = [rgen EXCEPT ![r] = published]
    /\ mem' = IF published = 0 THEN Free ELSE mem
    /\ GoTo(r, IF published = 0 THEN "done" ELSE "reserve")
    /\ UNCHANGED <<conv, runtime, published, gens, registry, evloops, ens, rop, apc, rcfg>> /\ NoFault

AddReserve(r) ==
    /\ Kind(r) = "add" /\ rpc[r] = "reserve"
    /\ Reserve(r, rgen[r], {"absent"})
    /\ GoTo(r, "welcome")
    /\ UNCHANGED <<conv, runtime, published, gens, evloops, locks, rgen, apc, rcfg>> /\ NoFault

(* add_manual_agent writes the welcome messages; an error returns with the  *)
(* lease, otherwise the attach is spawned                                   *)
AddWelcome(r) ==
    /\ rpc[r] = "welcome"
    /\ \/ /\ apc' = IF rop[r] = 0 THEN apc
                    ELSE [apc EXCEPT ![rop[r]] = [NoTask EXCEPT !.pc = "config", !.gen = rgen[r]]]
          /\ NoFault
       \/ Fault("db") /\ UNCHANGED apc
    /\ mem' = Free
    /\ GoTo(r, "done")
    /\ UNCHANGED <<conv, runtime, published, gens, registry, evloops, ens, rgen, rop, rcfg>>

-----------------------------------------------------------------------------
(* remove_agent *)

(* under the membership lock: the member, the session, then begin_remove *)
RemoveLoad(r) ==
    /\ Kind(r) = "remove" /\ rpc[r] = "new" /\ mem = Free
    /\ \/ /\ stored /\ NoFault
          /\ rgen' = [rgen EXCEPT ![r] = published]
          /\ IF published = 0 THEN GoTo(r, "stopruntime") /\ UNCHANGED mem
             ELSE GoTo(r, "begin") /\ mem' = r
       \/ /\ \/ ~stored /\ NoFault
             \/ Fault("load")
          /\ GoTo(r, "done") /\ UNCHANGED <<rgen, mem>>
    /\ UNCHANGED <<conv, runtime, published, gens, registry, evloops, ens, rop, apc, rcfg>>

(* begin_remove of the session found first ("begin") and of another one     *)
(* found after the row was written ("begin2")                               *)
RemoveBegin(r) ==
    /\ rpc[r] \in {"begin", "begin2"}
    /\ LET g == rgen[r]  first == rpc[r] = "begin" IN
       /\ \/ /\ BeginRemoveStarts(g) /\ StartRemove(r, g)
             /\ GoTo(r, IF first THEN "unloop" ELSE "unloop2")
          \/ /\ BeginRemoveJoins(g)
             /\ rop' = [rop EXCEPT ![r] = entry[g].op]
             /\ GoTo(r, IF first THEN "wait" ELSE "join") /\ UNCHANGED registry
          \/ /\ ~BeginRemoveStarts(g) /\ ~BeginRemoveJoins(g)
             /\ rop' = [rop EXCEPT ![r] = 0]
             /\ GoTo(r, IF first THEN "unloop" ELSE "unloop2") /\ UNCHANGED registry
       /\ mem' = IF first THEN Free ELSE mem
    /\ UNCHANGED <<conv, runtime, published, gens, evloops, ens, rgen, apc, rcfg>> /\ NoFault

(* without the lock: the event loop of the session, then the process *)
RemoveLoop(r) ==
    /\ rpc[r] \in {"unloop", "unloop2"}
    /\ looping' = looping \ {rgen[r]}
    /\ GoTo(r, IF rpc[r] = "unloop" THEN "stopruntime" ELSE "kill2")
    /\ UNCHANGED <<conv, runtime, published, gens, registry, loopsClosed, locks, rgen, rop, apc, rcfg>>
    /\ NoFault

RemoveKill(r) ==
    /\ rpc[r] \in {"stopruntime", "kill2"}
    /\ Kill
    /\ GoTo(r, IF rpc[r] = "kill2" THEN "finish" ELSE "persist")
    /\ UNCHANGED <<conv, config, published, gens, registry, evloops, locks, rgen, rop, apc, rcfg>>
    /\ NoFault

(* under the lock again: an error of the load returns *)
RemovePersist(r) ==
    /\ rpc[r] = "persist" /\ mem = Free
    /\ \/ stored' = FALSE /\ GoTo(r, "current") /\ NoFault
       \/ Fault("db") /\ GoTo(r, "restore") /\ UNCHANGED stored
       \/ Fault("load") /\ GoTo(r, "done") /\ UNCHANGED stored
    /\ UNCHANGED <<gone, runtime, published, gens, registry, evloops, locks, rgen, rop, apc, rcfg>>

(* an error of the update restores the entry as failed, without the lock *)
RemoveRestore(r) ==
    /\ rpc[r] = "restore"
    /\ EndRemove(rgen[r], rop[r], "failed")
    /\ GoTo(r, "done")
    /\ UNCHANGED <<conv, runtime, published, gens, evloops, locks, rgen, rop, apc, rcfg>> /\ NoFault

(* the session published now, which may be another one *)
RemoveCurrent(r) ==
    /\ rpc[r] = "current"
    /\ \/ published = 0 /\ GoTo(r, "delete") /\ UNCHANGED rgen
       \/ published # 0 /\ published = rgen[r] /\ GoTo(r, "unloop2") /\ UNCHANGED rgen
       \/ /\ published \notin {0, rgen[r]}
          /\ rgen' = [rgen EXCEPT ![r] = published]
          /\ GoTo(r, "begin2")
    /\ UNCHANGED <<conv, runtime, published, gens, registry, evloops, locks, rop, apc, rcfg>> /\ NoFault

RemoveJoined(r) ==
    /\ rpc[r] = "join" /\ outcome[rop[r]] # "pending"
    /\ rop' = [rop EXCEPT ![r] = 0]
    /\ GoTo(r, "unloop2")
    /\ UNCHANGED <<conv, runtime, published, gens, registry, evloops, locks, rgen, apc, rcfg>> /\ NoFault

RemoveFinish(r) ==
    /\ rpc[r] = "finish"
    /\ EndRemove(rgen[r], rop[r], "absent")
    /\ GoTo(r, "delete")
    /\ UNCHANGED <<conv, runtime, published, gens, evloops, locks, rgen, rop, apc, rcfg>> /\ NoFault

(* delete_team_conversation; its hook kills the conversation's process *)
RemoveDelete(r) ==
    /\ rpc[r] = "delete"
    /\ \/ gone' = TRUE /\ Kill /\ NoFault
       \/ Fault("db") /\ UNCHANGED <<gone, proc>>
    /\ GoTo(r, "done")
    /\ UNCHANGED <<stored, config, published, gens, registry, evloops, locks, rgen, rop, apc, rcfg>>

-----------------------------------------------------------------------------
(* stop_session and the idle cleanup, which also kills the processes; no    *)
(* lock is taken                                                            *)

StopUnpublish(r) ==
    /\ Kind(r) \in {"stop", "idle"} /\ rpc[r] = "new"
    /\ rgen' = [rgen EXCEPT ![r] = published]
    /\ published' = 0
    /\ GoTo(r, IF published = 0 THEN "done" ELSE "halt")
    /\ UNCHANGED <<conv, runtime, gens, registry, evloops, locks, rop, apc, rcfg>> /\ NoFault

StopRuntimes(r) ==
    /\ rpc[r] = "halt"
    /\ StopRegistry(rgen[r])
    /\ GoTo(r, "shutdown")
    /\ UNCHANGED <<conv, runtime, published, gens, evloops, locks, rgen, rop, apc, rcfg>> /\ NoFault

StopLoops(r) ==
    /\ rpc[r] = "shutdown"
    /\ loopsClosed' = loopsClosed \cup {rgen[r]}
    /\ looping' = looping \ {rgen[r]}
    /\ GoTo(r, IF Kind(r) = "idle" THEN "cleanup" ELSE "done")
    /\ UNCHANGED <<conv, runtime, published, gens, registry, locks, rgen, rop, apc, rcfg>> /\ NoFault

IdleKill(r) ==
    /\ rpc[r] = "cleanup"
    /\ Kill
    /\ GoTo(r, "done")
    /\ UNCHANGED <<conv, config, published, gens, registry, evloops, locks, rgen, rop, apc, rcfg>>
    /\ NoFault

-----------------------------------------------------------------------------
(* attach_member_runtime, the task of operation op *)

Task(op, pc) == apc[op].pc = pc
Step(op, pc) == apc' = [apc EXCEPT ![op].pc = pc]

AttachConfig(op) ==
    /\ Task(op, "config")
    /\ \/ ~gone /\ config' = apc[op].gen /\ Step(op, "kill") /\ NoFault
       \/ /\ \/ gone /\ NoFault
             \/ Fault("db")
          /\ Step(op, "broken") /\ UNCHANGED config
    /\ UNCHANGED <<conv, proc, published, gens, registry, evloops, locks, req>>

AttachKill(op) ==
    /\ Task(op, "kill")
    /\ Kill
    /\ Step(op, "warm")
    /\ UNCHANGED <<conv, config, published, gens, registry, evloops, locks, req>> /\ NoFault

AttachWarm(op) ==
    /\ Task(op, "warm")
    /\ apc' = [apc EXCEPT ![op].pc = IF gone THEN "broken" ELSE "build", ![op].cfg = config]
    /\ UNCHANGED <<conv, runtime, published, gens, registry, evloops, locks, req>> /\ NoFault

AttachBuild(op) ==
    /\ Task(op, "build")
    /\ \/ WarmUp(op, apc[op].cfg) /\ Step(op, "check") /\ NoFault
       \/ Fault("warmup") /\ Step(op, "broken") /\ UNCHANGED proc
    /\ UNCHANGED <<conv, config, published, gens, registry, evloops, locks, req>>

AttachCheck(op) ==
    /\ Task(op, "check")
    /\ Step(op, IF OwnsAttach(apc[op].gen, op) THEN "register" ELSE "stale")
    /\ UNCHANGED <<conv, runtime, published, gens, registry, evloops, locks, req>> /\ NoFault

(* register_event_loop *)
AttachRegister(op) ==
    /\ Task(op, "register")
    /\ LET g == apc[op].gen IN
       \/ g \in looping /\ Step(op, "commit") /\ UNCHANGED looping
       \/ g \notin looping /\ g \in loopsClosed /\ Step(op, "broken") /\ UNCHANGED looping
       \/ /\ g \notin looping \cup loopsClosed
          /\ looping' = looping \cup {g}
          /\ apc' = [apc EXCEPT ![op].pc = "commit", ![op].loop = TRUE]
    /\ UNCHANGED <<conv, runtime, published, gens, registry, loopsClosed, locks, req>> /\ NoFault

AttachCommit(op) ==
    /\ Task(op, "commit")
    /\ Commit(apc[op].gen, op, "ready")
    /\ Step(op, IF OwnsAttach(apc[op].gen, op) THEN "publish" ELSE "stale")
    /\ UNCHANGED <<conv, runtime, published, gens, evloops, locks, req>> /\ NoFault

(* publish_member_runtime_ready_if_current *)
AttachPublish(op) ==
    /\ Task(op, "publish")
    /\ IF published = apc[op].gen THEN apc' = [apc EXCEPT ![op] = NoTask] ELSE Step(op, "stale")
    /\ UNCHANGED <<conv, runtime, published, gens, registry, evloops, locks, req>> /\ NoFault

(* mutant: the loop stays registered *)
MutantKeepsLoop(op) ==
    /\ Task(op, "stale") /\ apc[op].loop
    /\ apc' = [apc EXCEPT ![op].loop = FALSE]
    /\ UNCHANGED <<conv, runtime, published, gens, registry, evloops, locks, req>> /\ NoFault

(* a stale attach takes back the loop it registered *)
AttachUnloop(op) ==
    /\ Task(op, "stale") /\ apc[op].loop
    /\ looping' = looping \ {apc[op].gen}
    /\ apc' = [apc EXCEPT ![op].loop = FALSE]
    /\ UNCHANGED <<conv, runtime, published, gens, registry, loopsClosed, locks, req>> /\ NoFault

(* cleanup_stale_member_runtime_task, under the ensure lock *)
AttachCleanup(op) ==
    /\ apc[op].pc \in {"stale", "broken"} /\ ~apc[op].loop /\ ens = Free
    /\ IF published \in {0, apc[op].gen}
       THEN Kill ELSE UNCHANGED proc
    /\ IF Task(op, "stale") THEN apc' = [apc EXCEPT ![op] = NoTask] ELSE Step(op, "failed")
    /\ UNCHANGED <<conv, config, published, gens, registry, evloops, locks, req>> /\ NoFault

AttachFail(op) ==
    /\ Task(op, "failed")
    /\ Commit(apc[op].gen, op, "failed")
    /\ apc' = [apc EXCEPT ![op] = NoTask]
    /\ UNCHANGED <<conv, runtime, published, gens, evloops, locks, req>> /\ NoFault

-----------------------------------------------------------------------------
(* The routes await the service in the handler, and the server drops a      *)
(* handler whose client goes away: the request stops at an await.  The      *)
(* attach tasks, the idle cleanup and the end of stop_session are not       *)
(* reached by it.                                                           *)

Booting  == {"config", "kill", "warm", "build", "publish", "abandon"}
Awaiting == {"look", "spawn", "wait", "boot", "session", "welcome", "persist", "current", "join", "finish",
             "delete"} \cup Booting

(* what it was to end: an attach it has not spawned, a removal *)
Owns(r) == rop[r] # 0 /\ rpc[r] \in {"spawn", "welcome", "persist", "current", "finish"}
(* it stops between the row and the entry of the member *)
Undone(r) == Owns(r) \/ rpc[r] \in {"session", "current", "join"}

(* the guards of the two locks go with the handler *)
Unlock(r) == mem' = (IF mem = r THEN Free ELSE mem) /\ ens' = (IF ens = r THEN Free ELSE ens)

(* a session that was being started goes with it, unpublished *)
Drop(r) ==
    /\ scn.drops /\ rpc[r] \in Awaiting
    /\ GoTo(r, IF Undone(r) THEN "lost" ELSE "done")
    /\ rop' = [rop EXCEPT ![r] = IF Owns(r) THEN @ ELSE 0]
    /\ Unlock(r)
    /\ LET unborn == IF rpc[r] \in Booting THEN {rgen[r]} ELSE {}
       IN  closed' = closed \cup unborn /\ loopsClosed' = loopsClosed \cup unborn
    /\ UNCHANGED <<conv, runtime, published, gens, entry, outcome, nextOp, looping, rgen, rcfg, apc>> /\ NoFault

-----------------------------------------------------------------------------
(* external: the process ends by itself *)
Vanish ==
    /\ Fault("vanish") /\ proc # NoProc
    /\ Kill
    /\ UNCHANGED <<conv, config, published, gens, registry, evloops, locks, req, apc>>

Request(r) ==
    \/ EnsureLoad(r) \/ EnsureLook(r) \/ EnsureReserve(r) \/ EnsureSpawn(r) \/ Wait(r)
    \/ Boot(r) \/ BootConfig(r) \/ BootKill(r) \/ BootWarm(r) \/ BootBuild(r)
    \/ BootPublish(r) \/ BootAbandon(r)
    \/ AddStore(r) \/ AddSession(r) \/ AddReserve(r) \/ AddWelcome(r)
    \/ RemoveLoad(r) \/ RemoveBegin(r) \/ RemoveLoop(r) \/ RemoveKill(r) \/ RemovePersist(r) \/ RemoveRestore(r)
    \/ RemoveCurrent(r) \/ RemoveJoined(r) \/ RemoveFinish(r) \/ RemoveDelete(r)
    \/ StopUnpublish(r) \/ StopRuntimes(r) \/ StopLoops(r) \/ IdleKill(r)

Attach(op) ==
    \/ AttachConfig(op) \/ AttachKill(op) \/ AttachWarm(op) \/ AttachBuild(op) \/ AttachCheck(op)
    \/ AttachRegister(op) \/ AttachCommit(op) \/ AttachPublish(op) \/ AttachUnloop(op)
    \/ AttachCleanup(op) \/ AttachFail(op)

Next == (\E r \in Reqs : Request(r) \/ Drop(r)) \/ (\E op \in Ops : Attach(op)) \/ Vanish

(* the runtime schedules every task of the service and every handler that   *)
(* is not dropped; the locks are fair, and the requests are finitely many   *)
Fairness ==
    /\ \A r \in Reqs : WF_vars(rpc[r] # "new" /\ Request(r))
    /\ \A op \in Ops : WF_vars(Attach(op))

Spec == Init /\ [][Next]_vars /\ Fairness

-----------------------------------------------------------------------------
Quiet == (\A r \in Reqs : rpc[r] \in {"new", "done", "lost"}) /\ (\A op \in Ops : apc[op] = NoTask)

(* the operation op was lost: its request was dropped, or left it with an *)
(* error of the read or the write f                                       *)
Lost(op, f) == f \in faults \/ \E r \in Reqs : rpc[r] = "lost" /\ rop[r] = op

(* No operation is left without the task that ends it: an attaching entry   *)
(* has its request before the spawn or its attach task, a removing entry    *)
(* has its request, and a session that is being stopped ends both itself.   *)
(* Everybody who joins the operation waits for that task.  An operation is  *)
(* lost in two ways: with the handler of its own request, dropped at an     *)
(* await after the reservation, and by an error return of add_agent or      *)
(* remove_agent.                                                            *)
NoOrphanOperation ==
    \A g \in Gens \ {rgen[r] : r \in {q \in Reqs : rpc[q] = "halt"}} : LET op == entry[g].op IN
        /\ entry[g].st = "attaching" =>
             \/ apc[op].gen = g /\ apc[op].pc \notin {"none", "stale", "publish"}
             \/ \E r \in Reqs : rgen[r] = g /\ rop[r] = op /\ rpc[r] \in {"spawn", "welcome"}
             \/ Lost(op, "db")
        /\ entry[g].st = "removing" =>
             \/ \E r \in Reqs : /\ rgen[r] = g /\ rop[r] = op
                               /\ rpc[r] \in {"unloop", "stopruntime", "persist", "restore", "current",
                                             "unloop2", "kill2", "finish"}
             \/ Lost(op, "load")

(* When nothing is in progress, the published session agrees with the row:  *)
(* a stopped session keeps no loop and, unless a read or a write failed or  *)
(* a request was dropped between the row and the entry, a ready member has  *)
(* its loop and a removed one has neither entry nor loop.  It says nothing  *)
(* of the member's process.                                                 *)
SettledMember ==
    Quiet =>
        /\ looping \subseteq {published}
        /\ (published # 0 /\ faults \cap {"load", "db"} = {} /\ \A r \in Reqs : rpc[r] # "lost") =>
             /\ entry[published].st = "ready" => published \in looping
             /\ ~stored => published \notin looping /\ entry[published].st = "absent"

(* ensure_session rebuilds every process so that it points at the server of *)
(* the new session: when nothing is in progress and nothing failed, a ready *)
(* member's process was built with the published session's configuration.   *)
CurrentServer ==
    (Quiet /\ published # 0 /\ entry[published].st = "ready" /\ proc # NoProc /\ faults = {})
        => proc.cfg = published

(* Every request that has begun ends, is dropped, or waits, without a lock, *)
(* for an operation that the dropped handler of another request took with   *)
(* it or that an error return lost; a dropped handler that held the locks   *)
(* of the team blocks nobody.                                               *)
EveryRequestEnds ==
    \A r \in Reqs : (rpc[r] # "new") ~>
        \/ rpc[r] \in {"done", "lost"} \/ faults \cap {"load", "db"} # {}
        \/ /\ rpc[r] \in {"wait", "join"} /\ r \notin {mem, ens}
           /\ \E q \in Reqs : rpc[q] = "lost" /\ rop[q] = rop[r]
=============================================================================
