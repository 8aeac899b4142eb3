------------------------- MODULE WorkerTaskManager -------------------------
(***************************************************************************)
(* The pool of resident agents: crates/aionui-ai-agent, task_manager.rs    *)
(* (WorkerTaskManagerImpl), the idle scanner and the foreground leases.    *)
(*                                                                         *)
(* tasks maps a conversation to a slot, a OnceCell that is filled at most  *)
(* once; a slot therefore also names the agent built for it.  permit is    *)
(* the initialiser of a cell.  Removing a slot from the map and looking    *)
(* into its cell are two steps, as they are for the threads of the code.   *)
(*                                                                         *)
(* Abstracted: the order of the idle candidates (any may be evicted), the  *)
(* clock (any idle agent may be beyond the threshold, a lease may expire   *)
(* at any time) and the agents themselves, of which the status is kept.    *)
(***************************************************************************)
EXTENDS Naturals, FiniteSets, FiniteSetsExt

CONSTANTS Reqs,        \* calls of the manager
          Convs,       \* conversations
          None,        \* no caller
          Scenarios,   \* the workloads Init chooses from
          PressureCap, \* the limit under memory pressure (4 in the code)
          MaxSlots     \* bound: slots created

Kinds  == {"build", "kill", "killwait", "clear", "scan", "configure", "unused"}
Memory == {"normal", "pressed", "high"}

(* A workload: what each call asks for (num is the wanted capability of a   *)
(* build, the new limit of a configure), the first limit, the memory states *)
(* met, whether factories fail, whether callers may be dropped, the leases  *)
Workloads == [call : [Reqs -> [kind : Kinds, conv : Convs, num : 0..3]], limit : 1..3,
              memory : SUBSET Memory, fails : BOOLEAN, drops : BOOLEAN, leased : SUBSET Convs]

ASSUME TaskAssumption ==
    /\ Scenarios \subseteq Workloads
    /\ PressureCap \in Nat \ {0} /\ MaxSlots \in Nat
    /\ IsFiniteSet(Reqs) /\ IsFiniteSet(Convs) /\ Convs # {}
    /\ None \notin Reqs

VARIABLES
    scn,      \* the workload, fixed by Init
    tasks,    \* tasks[c]: the slot of a conversation, 0: none
    home,     \* home[s]: the conversation a slot was created for
    filled,   \* slots whose cell is initialised
    permit,   \* permit[s]: the initialiser of the cell
    cap,      \* cap[s]: runtime capability of the slot's agent
    building, \* building_count
    limit,    \* resident_task_limit
    capLock,  \* holder of capacity_lock
    leased,   \* conversations with a foreground lease
    rpc, rslot, \* calls: program counter, slot
    victims,  \* conversations a call still has to remove
    doomed,   \* the slot a call removed and has not looked into, 0: none
    live,     \* agents that run
    status,   \* status[s] of the slot's agent
    nextSlot, \* slots created
    missed,   \* history: slots removed before their cell was filled
    slipped,  \* history: built, not yet stored agents that an admission missed
    largest   \* history: the largest limit so far

pool   == <<tasks, home, filled, permit, cap, nextSlot>>
limits == <<building, limit, capLock, leased>>
calls  == <<rpc, rslot, victims, doomed>>
agents == <<live, status>>
ghosts == <<missed, slipped, largest>>
vars   == <<scn, pool, limits, calls, agents, ghosts>>

Slots == 1..MaxSlots
Kind(r) == scn.call[r].kind
Conv(r) == scn.call[r].conv
Num(r)  == scn.call[r].num

TypeOK ==
    /\ tasks \in [Convs -> 0..nextSlot] /\ nextSlot \in 0..MaxSlots
    /\ home \in [Slots -> Convs]
    /\ filled \subseteq 1..nextSlot /\ live \subseteq 1..nextSlot /\ missed \subseteq 1..nextSlot
    /\ permit \in [Slots -> Reqs \cup {None}]
    /\ \A s \in filled : permit[s] = None
    /\ cap \in [Slots -> 0..3]
    /\ building \in 0..Cardinality(Reqs) /\ limit \in 1..3 /\ largest \in 1..3 /\ slipped \in Nat
    /\ capLock \in Reqs \cup {None}
    /\ leased \subseteq Convs
    /\ rpc \in [Reqs -> {"new", "enter", "cell", "capacity", "reserve", "refuse", "factory",
                         "unreserve", "store", "ending", "done"}]
    /\ rslot \in [Reqs -> 0..nextSlot] /\ doomed \in [Reqs -> 0..nextSlot]
    /\ victims \in [Reqs -> SUBSET Convs]
    /\ status \in [Slots -> {"none", "busy", "finished"}]

Init ==
    /\ scn \in Scenarios
    /\ tasks = [c \in Convs |-> 0] /\ home = [s \in Slots |-> CHOOSE c \in Convs : TRUE]
    /\ filled = {} /\ permit = [s \in Slots |-> None] /\ cap = [s \in Slots |-> 0] /\ nextSlot = 0
    /\ building = 0 /\ limit = scn.limit /\ capLock = None /\ leased = scn.leased
    /\ rpc = [r \in Reqs |-> "new"] /\ rslot = [r \in Reqs |-> 0]
    /\ victims = [r \in Reqs |-> {}] /\ doomed = [r \in Reqs |-> 0]
    /\ live = {} /\ status = [s \in Slots |-> "none"]
    /\ missed = {} /\ slipped = 0 /\ largest = scn.limit

GoTo(r, pc) == rpc' = [rpc EXCEPT ![r] = pc]

Initialised(c) == tasks[c] \in filled
Active  == {c \in Convs : Initialised(c)}
AgentIdle(c) == Initialised(c) /\ status[tasks[c]] # "busy"

(* a call has removed everything it had to *)
Clean(r) == victims[r] = {} /\ doomed[r] = 0

-----------------------------------------------------------------------------
(* kill, kill_and_wait, clear and the scanner: conversations are removed    *)
(* from the map one by one and the agents of their slots killed             *)

KillStart(r) ==
    /\ Kind(r) \in {"kill", "killwait"} /\ rpc[r] = "new"
    /\ victims' = [victims EXCEPT ![r] = {Conv(r)}]
    /\ GoTo(r, "ending")
    /\ UNCHANGED <<scn, pool, limits, rslot, doomed, agents, ghosts>>

ClearStart(r) ==
    /\ Kind(r) = "clear" /\ rpc[r] = "new"
    /\ victims' = [victims EXCEPT ![r] = {c \in Convs : tasks[c] # 0}]
    /\ GoTo(r, "ending")
    /\ UNCHANGED <<scn, pool, limits, rslot, doomed, agents, ghosts>>

(* collect_idle, then kill_and_wait for each: the agents idle for too long  *)
(* are any of the idle ones                                                 *)
ScanStart(r) ==
    /\ Kind(r) = "scan" /\ rpc[r] = "new"
    /\ \E old \in SUBSET {c \in Convs \ leased : AgentIdle(c)} : victims' = [victims EXCEPT ![r] = old]
    /\ GoTo(r, "ending")
    /\ UNCHANGED <<scn, pool, limits, rslot, doomed, agents, ghosts>>

(* tasks.remove *)
Remove(r) ==
    /\ doomed[r] = 0
    /\ \E c \in victims[r] :
         /\ victims' = [victims EXCEPT ![r] = @ \ {c}]
         /\ doomed' = [doomed EXCEPT ![r] = tasks[c]]
         /\ tasks' = [tasks EXCEPT ![c] = 0]
    /\ UNCHANGED <<scn, home, filled, permit, cap, nextSlot, limits, rpc, rslot, agents, ghosts>>

(* the cell of the removed slot: an agent is killed; an empty cell is left, *)
(* by the waiting forms only after its initialiser gave up                  *)
Strike(r) ==
    /\ doomed[r] # 0
    /\ \/ doomed[r] \in filled /\ live' = live \ {doomed[r]} /\ UNCHANGED missed
       \/ /\ doomed[r] \notin filled
          /\ Kind(r) \in {"killwait", "scan"} => permit[doomed[r]] = None
          /\ missed' = missed \cup {doomed[r]} /\ UNCHANGED live
    /\ doomed' = [doomed EXCEPT ![r] = 0]
    /\ UNCHANGED <<scn, pool, limits, rpc, rslot, victims, status, slipped, largest>>

Ended(r) ==
    /\ rpc[r] = "ending" /\ Clean(r)
    /\ GoTo(r, "done")
    /\ UNCHANGED <<scn, pool, limits, rslot, victims, doomed, agents, ghosts>>

(* configure_resident_policy *)
Configure(r) ==
    /\ Kind(r) = "configure" /\ rpc[r] = "new"
    /\ limit' = Max({Num(r), 1}) /\ largest' = Max({largest, limit'})
    /\ GoTo(r, "done")
    /\ UNCHANGED <<scn, pool, building, capLock, leased, rslot, victims, doomed, agents, missed, slipped>>

-----------------------------------------------------------------------------
(* get_or_build_task *)

(* an agent whose capability does not satisfy the request is removed first *)
BuildLook(r) ==
    /\ Kind(r) = "build" /\ rpc[r] = "new"
    /\ victims' = [victims EXCEPT ![r] =
                     IF Initialised(Conv(r)) /\ cap[tasks[Conv(r)]] < Num(r) THEN {Conv(r)} ELSE {}]
    /\ GoTo(r, "enter")
    /\ UNCHANGED <<scn, pool, limits, rslot, doomed, agents, ghosts>>

(* mutant: insert instead of or_insert_with *)
MutantOverwrites(r) ==
    /\ rpc[r] = "enter" /\ Clean(r)
    /\ nextSlot < MaxSlots
    /\ nextSlot' = nextSlot + 1
    /\ tasks' = [tasks EXCEPT ![Conv(r)] = nextSlot + 1]
    /\ home' = [home EXCEPT ![nextSlot + 1] = Conv(r)]
    /\ rslot' = [rslot EXCEPT ![r] = nextSlot + 1]
    /\ GoTo(r, "cell")
    /\ UNCHANGED <<scn, filled, permit, cap, limits, victims, doomed, agents, ghosts>>

(* tasks.entry(..).or_insert_with(..) *)
BuildEnter(r) ==
    /\ rpc[r] = "enter" /\ Clean(r)
    /\ IF tasks[Conv(r)] # 0
       THEN rslot' = [rslot EXCEPT ![r] = tasks[Conv(r)]] /\ UNCHANGED <<tasks, home, nextSlot>>
       ELSE /\ nextSlot < MaxSlots                           \* bound MaxSlots
            /\ nextSlot' = nextSlot + 1
            /\ tasks' = [tasks EXCEPT ![Conv(r)] = nextSlot + 1]
            /\ home' = [home EXCEPT ![nextSlot + 1] = Conv(r)]
            /\ rslot' = [rslot EXCEPT ![r] = nextSlot + 1]
    /\ GoTo(r, "cell")
    /\ UNCHANGED <<scn, filled, permit, cap, limits, victims, doomed, agents, ghosts>>

(* get_or_try_init: the agent of a filled cell, or the permit to fill it *)
BuildCell(r) ==
    /\ rpc[r] = "cell"
    /\ \/ rslot[r] \in filled /\ GoTo(r, "done") /\ UNCHANGED permit
       \/ /\ rslot[r] \notin filled /\ permit[rslot[r]] = None
          /\ permit' = [permit EXCEPT ![rslot[r]] = r]
          /\ GoTo(r, "capacity")
    /\ UNCHANGED <<scn, tasks, home, filled, cap, nextSlot, limits, rslot, victims, doomed, agents, ghosts>>

(* mutant: builds in progress are not counted *)
MutantCountsActive(r) ==
    /\ rpc[r] = "capacity" /\ capLock = None
    /\ capLock' = r
    /\ \E m \in scn.memory :
         LET bound == IF m = "pressed" THEN Min({limit, PressureCap}) ELSE limit
             idle  == {c \in Convs \ {Conv(r)} : AgentIdle(c)}
             room  == Cardinality(Active) < bound
         IN  \/ /\ m = "high"
                /\ victims' = [victims EXCEPT ![r] = idle] /\ GoTo(r, "refuse")
                /\ UNCHANGED slipped
             \/ /\ m # "high" /\ room
                /\ slipped' = slipped + Cardinality({q \in Reqs : rpc[q] = "store"})
                /\ GoTo(r, "reserve") /\ UNCHANGED victims
             \/ /\ m # "high" /\ ~room
                /\ \E c \in idle : victims' = [victims EXCEPT ![r] = {c}]
                /\ slipped' = slipped + Cardinality({q \in Reqs : rpc[q] = "store"})
                /\ GoTo(r, "reserve")
             \/ /\ m # "high" /\ ~room /\ idle = {}
                /\ GoTo(r, "refuse") /\ UNCHANGED <<victims, slipped>>
    /\ UNCHANGED <<scn, pool, building, limit, leased, rslot, doomed, agents, missed, largest>>

(* enforce_resident_capacity, under the capacity lock *)
BuildCapacity(r) ==
    /\ rpc[r] = "capacity" /\ capLock = None
    /\ capLock' = r
    /\ \E m \in scn.memory :
         LET bound == IF m = "pressed" THEN Min({limit, PressureCap}) ELSE limit
             idle  == {c \in Convs \ {Conv(r)} : AgentIdle(c)}
             room  == Cardinality(Active) + building < bound
         IN  \/ /\ m = "high"
                /\ victims' = [victims EXCEPT ![r] = idle] /\ GoTo(r, "refuse")
                /\ UNCHANGED slipped
             \/ /\ m # "high" /\ room
                /\ slipped' = slipped + Cardinality({q \in Reqs : rpc[q] = "store"})
                /\ GoTo(r, "reserve") /\ UNCHANGED victims
             \/ /\ m # "high" /\ ~room
                /\ \E c \in idle : victims' = [victims EXCEPT ![r] = {c}]
                /\ slipped' = slipped + Cardinality({q \in Reqs : rpc[q] = "store"})
                /\ GoTo(r, "reserve")
             \/ /\ m # "high" /\ ~room /\ idle = {}
                /\ GoTo(r, "refuse") /\ UNCHANGED <<victims, slipped>>
    /\ UNCHANGED <<scn, pool, building, limit, leased, rslot, doomed, agents, missed, largest>>

(* mutant: the refused call keeps the capacity lock *)
MutantKeepsLock(r) ==
    /\ rpc[r] = "refuse" /\ Clean(r)
    /\ permit' = [permit EXCEPT ![rslot[r]] = None]
    /\ GoTo(r, "done")
    /\ UNCHANGED <<scn, tasks, home, filled, cap, nextSlot, limits, rslot, victims, doomed, agents, ghosts>>

(* the evictions are done: the call is refused and the cell stays empty *)
BuildRefuse(r) ==
    /\ rpc[r] = "refuse" /\ Clean(r)
    /\ capLock' = None
    /\ permit' = [permit EXCEPT ![rslot[r]] = None]
    /\ GoTo(r, "done")
    /\ UNCHANGED <<scn, tasks, home, filled, cap, nextSlot, building, limit, leased, rslot, victims, doomed,
                   agents, ghosts>>

(* or the build is counted before the lock is released *)
BuildReserve(r) ==
    /\ rpc[r] = "reserve" /\ Clean(r)
    /\ building' = building + 1
    /\ capLock' = None
    /\ GoTo(r, "factory")
    /\ UNCHANGED <<scn, pool, limit, leased, rslot, victims, doomed, agents, ghosts>>

(* the factory starts the agent *)
BuildFactory(r) ==
    /\ rpc[r] = "factory"
    /\ live' = live \cup {rslot[r]}
    /\ cap' = [cap EXCEPT ![rslot[r]] = Num(r)]
    /\ GoTo(r, "unreserve")
    /\ UNCHANGED <<scn, tasks, home, filled, permit, nextSlot, limits, rslot, victims, doomed, status, ghosts>>

(* mutant: the count is given back by the normal end only *)
MutantLeaksReservation(r) ==
    /\ \/ scn.fails /\ rpc[r] = "factory"
       \/ scn.drops /\ rpc[r] \in {"cell", "capacity", "factory"}
    /\ permit' = IF rpc[r] = "cell" THEN permit ELSE [permit EXCEPT ![rslot[r]] = None]
    /\ GoTo(r, "done")
    /\ UNCHANGED <<scn, tasks, home, filled, cap, nextSlot, limits, rslot, victims, doomed, agents, ghosts>>

(* a failing factory, or a caller dropped at an await, ends the reservation *)
(* and gives the permit back                                                *)
BuildGivesUp(r) ==
    /\ \/ scn.fails /\ rpc[r] = "factory"
       \/ scn.drops /\ rpc[r] \in {"cell", "capacity", "factory"}
    /\ building' = IF rpc[r] = "factory" THEN building - 1 ELSE building
    /\ permit' = IF rpc[r] = "cell" THEN permit ELSE [permit EXCEPT ![rslot[r]] = None]
    /\ GoTo(r, "done")
    /\ UNCHANGED <<scn, tasks, home, filled, cap, nextSlot, limit, capLock, leased, rslot, victims, doomed,
                   agents, ghosts>>

(* the reservation ends with the initialiser, before the cell is filled *)
BuildUnreserve(r) ==
    /\ rpc[r] = "unreserve"
    /\ building' = building - 1
    /\ GoTo(r, "store")
    /\ UNCHANGED <<scn, pool, limit, capLock, leased, rslot, victims, doomed, agents, ghosts>>

(* mutant: the permit is not given back *)
MutantKeepsPermit(r) ==
    /\ rpc[r] = "store"
    /\ filled' = filled \cup {rslot[r]}
    /\ GoTo(r, "done")
    /\ UNCHANGED <<scn, tasks, home, permit, cap, nextSlot, limits, rslot, victims, doomed, agents, ghosts>>

BuildStore(r) ==
    /\ rpc[r] = "store"
    /\ filled' = filled \cup {rslot[r]}
    /\ permit' = [permit EXCEPT ![rslot[r]] = None]
    /\ GoTo(r, "done")
    /\ UNCHANGED <<scn, tasks, home, cap, nextSlot, limits, rslot, victims, doomed, agents, ghosts>>

-----------------------------------------------------------------------------
(* the turns of an agent that a call returned (reset_for_new_turn, then      *)
(* emit_finish or emit_error) and the lease clock                            *)
Turn(s) ==
    /\ s \in filled \cap live
    /\ \/ status[s] # "busy" /\ status' = [status EXCEPT ![s] = "busy"]
       \/ status[s] = "busy" /\ status' = [status EXCEPT ![s] = "finished"]
    /\ UNCHANGED <<scn, pool, limits, calls, live, ghosts>>

(* active_until after the time to live *)
LeaseExpires(c) ==
    /\ c \in leased
    /\ leased' = leased \ {c}
    /\ UNCHANGED <<scn, pool, building, limit, capLock, calls, agents, ghosts>>

Call(r) ==
    \/ KillStart(r) \/ ClearStart(r) \/ ScanStart(r) \/ Remove(r) \/ Strike(r) \/ Ended(r)
    \/ Configure(r) \/ BuildLook(r) \/ BuildEnter(r) \/ BuildCell(r) \/ BuildCapacity(r)
    \/ BuildRefuse(r) \/ BuildReserve(r) \/ BuildFactory(r) \/ BuildGivesUp(r) \/ BuildUnreserve(r)
    \/ BuildStore(r)

Next ==
    \/ \E r \in Reqs : Call(r)
    \/ \E s \in Slots : Turn(s)
    \/ \E c \in Convs : LeaseExpires(c)

(* a call that has begun goes on; the factory ends, as its timeouts make it *)
Fairness == \A r \in Reqs : WF_vars(rpc[r] # "new" /\ Call(r))

Spec == Init /\ [][Next]_vars /\ Fairness

-----------------------------------------------------------------------------
(* Every reservation of a build is counted once and given back once, also   *)
(* when the factory fails or the caller goes away at an await.              *)
ReservationsMatch == building = Cardinality({r \in Reqs : rpc[r] \in {"factory", "unreserve"}})

(* No agent is lost alive and no conversation has two: an agent runs only   *)
(* while its slot is in the map or a kill holds it, also before its builder *)
(* has stored it.  The exception is a slot that was removed while its cell  *)
(* was empty: the kill finds nothing and the build goes on behind it.       *)
NoLostAgent ==
    \A s \in live \ missed : tasks[home[s]] = s \/ \E r \in Reqs : doomed[r] = s

(* The pool exceeds the largest limit only by agents that were built and    *)
(* not yet stored, so counted neither as building nor as active, while      *)
(* another build was admitted.                                              *)
ResidentBound == Cardinality(Active) + building <= largest + slipped

(* Every call returns: the cell, the capacity lock and the waiting kills do *)
(* not wait for each other in a circle.                                     *)
EveryCallReturns == \A r \in Reqs : (rpc[r] # "new") ~> (rpc[r] = "done")
=============================================================================
