------------------------ MODULE MemberRuntimesProofs ------------------------
(***************************************************************************)
(* Theorems about MemberRuntimes, for every set of requests, every         *)
(* workload and every bound on sessions and operations.                    *)
(***************************************************************************)
EXTENDS MemberRuntimes, TLAPS

-----------------------------------------------------------------------------
(* The inductive invariant: sessions and operations *)

TypeInv == TypeOK /\ scn \in Scenarios

Removing  == {"unloop", "stopruntime", "persist", "restore", "current", "unloop2", "kill2", "finish"}
InSession == {"look", "repair", "reserve", "spawn", "welcome", "begin", "begin2", "unloop", "join",
              "unloop2", "kill2", "finish", "halt", "shutdown"} \cup Booting

(* the sessions and operations that requests, tasks and entries name exist *)
ReqRange(r) ==
    /\ rgen[r] \in 0..gens /\ rop[r] \in 0..nextOp
    /\ rpc[r] \in InSession => rgen[r] # 0
    /\ rpc[r] = "spawn" => rop[r] # 0
    /\ rpc[r] \in {"new", "begin"} => rop[r] = 0
    /\ rpc[r] \in {"stopruntime", "persist", "restore"} /\ rgen[r] = 0 => rop[r] = 0
TaskRange(op) ==
    /\ apc[op].gen \in 0..gens
    /\ apc[op].pc # "none" => apc[op].gen # 0 /\ op <= nextOp
EntryRange(g) ==
    /\ entry[g].op <= nextOp
    /\ entry[g].st \in {"attaching", "removing"} => entry[g].op # 0
    /\ entry[g].st # "absent" => g <= gens /\ g \notin closed
    /\ \A h \in Gens : entry[g].op = entry[h].op /\ entry[g].op # 0 => g = h
RangeInv ==
    /\ \A r \in Reqs : ReqRange(r)
    /\ \A op \in Ops : TaskRange(op)
    /\ \A g \in Gens : EntryRange(g)

(* a session that is being started is private *)
Private(r) ==
    /\ rgen[r] \notin closed \cup looping \cup {published}
    /\ entry[rgen[r]].st = "absent"
    /\ \A q \in Reqs \ {r} : rgen[q] # rgen[r]
    /\ \A op \in Ops : apc[op].gen # rgen[r]
BootInv == \A r \in Reqs : rpc[r] \in Booting => Private(r)

(* a session is published, started, stopped or stopping *)
Known(g) ==
    \/ g = published \/ g \in loopsClosed
    \/ \E r \in Reqs : rgen[r] = g /\ rpc[r] = "halt"
    \/ \E r \in Reqs : rgen[r] = g /\ rpc[r] = "shutdown" /\ g \in closed
    \/ \E r \in Reqs : rgen[r] = g /\ rpc[r] \in Booting
StopInv ==
    /\ \A r \in Reqs : rpc[r] \in {"halt", "shutdown"} => rgen[r] # published
    /\ \A r \in Reqs : rpc[r] = "shutdown" => rgen[r] \in closed
    /\ published \notin closed
    /\ looping \cap loopsClosed = {}
    /\ \A g \in 1..gens : Known(g)

(* an operation belongs to one session, a removal to one request *)
OwnInv ==
    /\ \A r \in Reqs : rpc[r] \in Removing \cup {"spawn", "welcome"} /\ rop[r] # 0 =>
          \A g \in Gens : entry[g].op = rop[r] => g = rgen[r]
    /\ \A q, r \in Reqs : rpc[q] \in Removing /\ rpc[r] \in Removing /\ rop[q] = rop[r] /\ rop[r] # 0 => q = r

(* who holds the membership lock; nothing is published while a session is started *)
Holding == {"look", "repair", "reserve", "session", "welcome", "begin", "boot"} \cup Booting
HoldInv ==
    \A r \in Reqs :
        /\ rpc[r] \in Holding => mem = r
        /\ rpc[r] \in Booting \cup {"boot"} => published = 0
        /\ rpc[r] = "session" => Kind(r) = "add"
        /\ rpc[r] \in {"look", "repair"} => Kind(r) = "ensure"
        /\ rpc[r] = "reserve" => Kind(r) \in {"ensure", "add"}

(* a removal restores the entry only after a failed write *)
RestoreInv == \A r \in Reqs : rpc[r] = "restore" => "db" \in faults

SessionInv == TypeInv /\ RangeInv /\ HoldInv /\ BootInv /\ StopInv /\ OwnInv /\ RestoreInv /\ NoOrphanOperation

-----------------------------------------------------------------------------
(* The inductive invariant: the row, the entry and the loop *)

Sound == faults \cap {"load", "db"} = {} /\ \A r \in Reqs : rpc[r] # "lost"

(* what the row says while a request is under way *)
Removed == {"current", "begin2", "join", "unloop2", "kill2", "finish", "delete"}
Locked(r) ==
    /\ rpc[r] \in {"look", "repair", "reserve", "session", "welcome", "begin"} => stored
    /\ rpc[r] \in Removed => ~stored
    /\ rpc[r] \in {"look", "repair", "reserve"} => published \in {0, rgen[r]}
LockInv == \A r \in Reqs : Locked(r)

(* the member was never attached *)
Before == \E r \in Reqs : Kind(r) = "add" /\ rpc[r] \in {"new", "session", "reserve"}
Pristine ==
    /\ \A g \in Gens : entry[g].st = "absent"
    /\ looping = {}
    /\ \A op \in Ops : apc[op].pc = "none"
    /\ \A r \in Reqs : /\ rpc[r] \in {"new", "done", "boot", "session", "reserve", "halt", "shutdown", "cleanup"} \cup Booting
                       /\ rpc[r] = "reserve" => Kind(r) = "add"
    /\ stored <=> \E r \in Reqs : Kind(r) = "add" /\ rpc[r] \in {"session", "reserve"}
BeforeInv == (Before => Pristine) /\ (stored /\ published # 0 => entry[published].st # "absent" \/ Before)

Out(g) == entry[g].st \in {"removing", "absent"}
Pends(g, op) == entry[g] = [st |-> "attaching", op |-> op]

(* what a removal knows of the entry of the published session *)
Removes(r) ==
    rgen[r] = published /\ published # 0 =>
        /\ rpc[r] \in {"unloop", "stopruntime", "persist", "current"} =>
              entry[published] = [st |-> "removing", op |-> rop[r]]
        /\ rpc[r] \in {"join", "unloop2", "kill2", "finish"} => Out(published)
RemoveInv == \A r \in Reqs : Removes(r)

(* what an attach knows of it, and the request that has not spawned it yet *)
Carries(r) == rpc[r] = "spawn" \/ (rpc[r] = "welcome" /\ rop[r] # 0)
Attaches(op) ==
    /\ apc[op].gen = published /\ published # 0 =>
          /\ apc[op].pc \notin {"none", "publish"} =>
                Out(published) \/ (Pends(published, op) /\ apc[op].pc # "stale")
          /\ apc[op].pc = "commit" /\ Pends(published, op) => published \in looping
    /\ apc[op].loop => apc[op].pc \in {"commit", "publish", "stale"}
AttachInv ==
    /\ \A op \in Ops : Attaches(op)
    /\ \A r \in Reqs : Carries(r) /\ rgen[r] = published /\ published # 0
          => Out(published) \/ Pends(published, rop[r])
    /\ \A r \in Reqs : Carries(r) => apc[rop[r]].pc = "none"
    /\ \A q, r \in Reqs : Carries(q) /\ Carries(r) /\ rop[q] = rop[r] => q = r

(* the entry and the loop follow the row, or somebody is going to see to it *)
Checks(r) == rpc[r] = "current" \/ (rpc[r] = "begin2" /\ rgen[r] = published)
FollowInv ==
    published # 0 =>
        /\ entry[published].st = "ready" => published \in looping
        /\ ~stored => Out(published) \/ \E r \in Reqs : Checks(r)
        /\ ~stored /\ published \in looping =>
              \/ \E r \in Reqs : Checks(r)
              \/ \E r \in Reqs : rpc[r] \in {"join", "unloop2"} /\ rgen[r] = published
              \/ \E op \in Ops : apc[op].gen = published /\ apc[op].loop /\ apc[op].pc \in {"commit", "stale"}

RowInv == Sound => LockInv /\ BeforeInv /\ RemoveInv /\ AttachInv /\ FollowInv

IInv == SessionInv /\ RowInv

-----------------------------------------------------------------------------
(* Types *)

States   == {"absent", "attaching", "ready", "failed", "removing"}
Outcomes == {"pending", "ready", "failed", "removed", "stopped"}

(* Writing an entry, signalling an operation and moving a request keep their types. *)
LEMMA PutTypes ==
    ASSUME TypeOK
    PROVE  /\ \A g, st, op : Put(g, st, op) /\ st \in States /\ op \in 0..MaxOp =>
                entry' \in [Gens -> [st : States, op : 0..MaxOp]]
           /\ \A op, o : Signal(op, o) /\ o \in Outcomes => outcome' \in [Ops -> Outcomes]
<1>1. entry \in [Gens -> [st : States, op : 0..MaxOp]] /\ outcome \in [Ops -> Outcomes]
  BY DEF TypeOK, States, Outcomes
<1> QED
  BY <1>1 DEF Put, Signal

(* The operations on the registry keep its types. *)
LEMMA RegistryTypes ==
    ASSUME TypeOK, NEW g
    PROVE  /\ \A r \in Reqs : \A S : Reserve(r, g, S) /\ (g \in closed \/ g \in Gens) =>
                /\ rop' \in [Reqs -> 0..MaxOp] /\ entry' \in [Gens -> [st : States, op : 0..MaxOp]]
                /\ outcome' \in [Ops -> Outcomes] /\ nextOp' \in 0..MaxOp /\ closed' = closed
           /\ \A op \in 0..MaxOp, st \in {"ready", "failed"} : Commit(g, op, st) =>
                /\ entry' \in [Gens -> [st : States, op : 0..MaxOp]]
                /\ outcome' \in [Ops -> Outcomes] /\ nextOp' \in 0..MaxOp /\ closed' = closed
           /\ \A op \in 0..MaxOp, st \in {"absent", "failed"} : EndRemove(g, op, st) =>
                /\ entry' \in [Gens -> [st : States, op : 0..MaxOp]]
                /\ outcome' \in [Ops -> Outcomes] /\ nextOp' \in 0..MaxOp /\ closed' = closed
<1> DEFINE EntryT == entry' \in [Gens -> [st : States, op : 0..MaxOp]]
           OutcomeT == outcome' \in [Ops -> Outcomes]
<1>1. /\ entry \in [Gens -> [st : States, op : 0..MaxOp]] /\ outcome \in [Ops -> Outcomes]
      /\ nextOp \in 0..MaxOp /\ rop \in [Reqs -> 0..MaxOp] /\ MaxOp \in Nat
  BY MemberAssumption DEF TypeOK, States, Outcomes
<1>2. UNCHANGED registry => EntryT /\ OutcomeT /\ nextOp' \in 0..MaxOp /\ closed' = closed
  BY <1>1 DEF registry
<1>p. /\ \A h, st, op : Put(h, st, op) /\ st \in States /\ op \in 0..MaxOp => EntryT
      /\ \A op, o : Signal(op, o) /\ o \in Outcomes => OutcomeT
  BY PutTypes
<1> HIDE DEF EntryT, OutcomeT
<1>3. ASSUME NEW r \in Reqs, NEW S, Reserve(r, g, S), g \in closed \/ g \in Gens
      PROVE  rop' \in [Reqs -> 0..MaxOp] /\ EntryT /\ OutcomeT /\ nextOp' \in 0..MaxOp /\ closed' = closed
  <2>1. CASE g \in closed
    BY <1>1, <1>2, <1>3, <2>1, SMT DEF Reserve
  <2>2. CASE g \notin closed /\ entry[g].st \in S
    <3>1. /\ nextOp < MaxOp /\ nextOp' = nextOp + 1 /\ Put(g, "attaching", nextOp + 1)
          /\ rop' = [rop EXCEPT ![r] = nextOp + 1] /\ UNCHANGED <<outcome, closed>>
      BY <1>3, <2>2 DEF Reserve
    <3>2. nextOp + 1 \in 0..MaxOp
      BY <3>1, <1>1, SMT
    <3> QED
      BY <3>1, <3>2, <1>1, <1>p DEF States, OutcomeT
  <2>3. CASE g \notin closed /\ entry[g].st \notin S
    <3>1. rop' = [rop EXCEPT ![r] = entry[g].op] /\ UNCHANGED registry
      BY <1>3, <2>3 DEF Reserve
    <3>2. entry[g].op \in 0..MaxOp
      BY <1>1, <1>3, <2>3
    <3> QED
      BY <3>1, <3>2, <1>1, <1>2
  <2> QED
    BY <2>1, <2>2, <2>3
<1>4. ASSUME NEW op \in 0..MaxOp, NEW st \in {"ready", "failed"}, Commit(g, op, st)
      PROVE  EntryT /\ OutcomeT /\ nextOp' \in 0..MaxOp /\ closed' = closed
  <2>1. CASE OwnsAttach(g, op)
    <3>1. /\ Put(g, st, IF st = "ready" THEN 0 ELSE op) /\ Signal(op, st) /\ UNCHANGED <<nextOp, closed>>
      BY <1>4, <2>1 DEF Commit
    <3>2. st \in States /\ st \in Outcomes /\ (IF st = "ready" THEN 0 ELSE op) \in 0..MaxOp
      BY <1>1, SMT DEF States, Outcomes
    <3> QED
      BY <3>1, <3>2, <1>1, <1>p
  <2> QED
    BY <1>4, <2>1, <1>2 DEF Commit
<1>5. ASSUME NEW op \in 0..MaxOp, NEW st \in {"absent", "failed"}, EndRemove(g, op, st)
      PROVE  EntryT /\ OutcomeT /\ nextOp' \in 0..MaxOp /\ closed' = closed
  <2>1. CASE op # 0 /\ g \notin closed /\ entry[g] = [st |-> "removing", op |-> op]
    <3>1. /\ Put(g, st, IF st = "absent" THEN 0 ELSE op) /\ UNCHANGED <<nextOp, closed>>
          /\ Signal(op, IF st = "absent" THEN "removed" ELSE "failed")
      BY <1>5, <2>1 DEF EndRemove
    <3>2. /\ st \in States /\ (IF st = "absent" THEN "removed" ELSE "failed") \in Outcomes
          /\ (IF st = "absent" THEN 0 ELSE op) \in 0..MaxOp
      BY <1>1, SMT DEF States, Outcomes
    <3> QED
      BY <3>1, <3>2, <1>1, <1>p
  <2> QED
    BY <1>5, <2>1, <1>2 DEF EndRemove
<1> QED
  BY <1>3, <1>4, <1>5 DEF EntryT, OutcomeT

Pcs == {"new", "look", "repair", "reserve", "spawn", "wait", "boot", "config", "kill",
        "warm", "build", "publish", "abandon", "session", "welcome", "begin", "begin2", "unloop", "stopruntime", "persist", "restore",
        "current", "join", "unloop2", "kill2", "finish", "halt", "shutdown", "cleanup", "delete", "done", "lost"}
TaskPcs == {"none", "config", "kill", "warm", "build", "check", "register", "commit",
            "publish", "stale", "broken", "failed"}

(* Every step keeps the types. *)
LEMMA TypeStep ==
    ASSUME SessionInv, [Next]_vars
    PROVE  TypeInv'
<1> USE DEF SessionInv, TypeInv
<1> DEFINE ConvT == stored' \in BOOLEAN /\ gone' \in BOOLEAN
           ConfigT == config' \in 0..MaxGen
           ProcT == proc' \in [by : 0..MaxOp, cfg : 0..MaxGen]
           PubT == published' \in 0..gens' /\ gens' \in 0..MaxGen
           RegT == entry' \in [Gens -> [st : States, op : 0..MaxOp]] /\ outcome' \in [Ops -> Outcomes] /\ nextOp' \in 0..MaxOp
           LoopT == closed' \subseteq 1..gens' /\ looping' \subseteq 1..gens' /\ loopsClosed' \subseteq closed'
           MemT == mem' \in Reqs \cup {Free}
           EnsT == ens' \in Reqs \cup {Free}
           PcT == rpc' \in [Reqs -> Pcs]
           GenT == rgen' \in [Reqs -> 0..MaxGen]
           OpT == rop' \in [Reqs -> 0..MaxOp]
           CfgT == rcfg' \in [Reqs -> 0..MaxGen]
           TaskT == apc' \in [Ops -> [pc : TaskPcs, gen : 0..MaxGen, cfg : 0..MaxGen, loop : BOOLEAN]]
<1>k. ASSUME scn' = scn, ConvT, ConfigT, ProcT, PubT, RegT, LoopT, MemT, EnsT, PcT, GenT, OpT, CfgT, TaskT
      PROVE  TypeInv'
  BY <1>k DEF TypeOK, States, Outcomes, Pcs, TaskPcs
<1>t. /\ stored \in BOOLEAN /\ gone \in BOOLEAN /\ config \in 0..MaxGen /\ proc \in [by : 0..MaxOp, cfg : 0..MaxGen]
      /\ published \in 0..gens /\ gens \in 0..MaxGen /\ entry \in [Gens -> [st : States, op : 0..MaxOp]]
      /\ outcome \in [Ops -> Outcomes] /\ nextOp \in 0..MaxOp
      /\ closed \subseteq 1..gens /\ looping \subseteq 1..gens /\ loopsClosed \subseteq closed
      /\ mem \in Reqs \cup {Free} /\ ens \in Reqs \cup {Free} /\ rpc \in [Reqs -> Pcs]
      /\ rgen \in [Reqs -> 0..MaxGen] /\ rop \in [Reqs -> 0..MaxOp] /\ rcfg \in [Reqs -> 0..MaxGen]
      /\ apc \in [Ops -> [pc : TaskPcs, gen : 0..MaxGen, cfg : 0..MaxGen, loop : BOOLEAN]]
      /\ MaxGen \in Nat /\ MaxOp \in Nat
  BY MemberAssumption DEF TypeOK, States, Outcomes, Pcs, TaskPcs
<1>u. /\ stored' = stored /\ gone' = gone => ConvT
      /\ config' = config => ConfigT
      /\ proc' = proc => ProcT
      /\ published' = published /\ gens' = gens => PubT
      /\ entry' = entry /\ outcome' = outcome /\ nextOp' = nextOp => RegT
      /\ closed' = closed /\ looping' = looping /\ loopsClosed' = loopsClosed /\ gens' = gens => LoopT
      /\ mem' = mem \/ mem' = Free \/ mem' \in Reqs => MemT
      /\ ens' = ens \/ ens' = Free \/ ens' \in Reqs => EnsT
      /\ rpc' = rpc => PcT
      /\ rgen' = rgen => GenT
      /\ rop' = rop => OpT
      /\ rcfg' = rcfg => CfgT
      /\ apc' = apc => TaskT
  BY <1>t
<1>f. \A x : Fault(x) \/ NoFault => scn' = scn
  BY DEF Fault, NoFault
<1>n. NoProc \in [by : 0..MaxOp, cfg : 0..MaxGen]
  BY <1>t, SMT DEF NoProc
<1>kill. Kill => ProcT
  BY <1>n DEF Kill
<1>warm. \A op \in 0..MaxOp, c \in 0..MaxGen : WarmUp(op, c) => ProcT
  BY <1>t DEF WarmUp
<1>g. \A r \in Reqs, pc \in Pcs : GoTo(r, pc) => PcT
  BY <1>t DEF GoTo
<1>pub. ASSUME NEW r \in Reqs, rgen' = [rgen EXCEPT ![r] = published] PROVE GenT
  <2>1. published \in 0..MaxGen
    BY <1>t, SMT
  <2> QED
    BY <1>pub, <1>t, <2>1
<1>s. ASSUME NEW op \in Ops, NEW pc \in TaskPcs, Step(op, pc) PROVE TaskT
  BY <1>s, <1>t DEF Step
<1>no. /\ NoTask \in [pc : TaskPcs, gen : 0..MaxGen, cfg : 0..MaxGen, loop : BOOLEAN]
       /\ \A g \in 0..MaxGen : [NoTask EXCEPT !.pc = "config", !.gen = g] \in [pc : TaskPcs, gen : 0..MaxGen, cfg : 0..MaxGen, loop : BOOLEAN]
  <2>1. 0 \in 0..MaxGen
    BY <1>t, SMT
  <2>2. NoTask \in [pc : TaskPcs, gen : 0..MaxGen, cfg : 0..MaxGen, loop : BOOLEAN] /\ "config" \in TaskPcs
    BY <2>1 DEF NoTask, TaskPcs
  <2>3. ASSUME NEW g \in 0..MaxGen
        PROVE  [NoTask EXCEPT !.pc = "config", !.gen = g] \in [pc : TaskPcs, gen : 0..MaxGen, cfg : 0..MaxGen, loop : BOOLEAN]
    BY <2>2
  <2> QED
    BY <2>2, <2>3
<1>o. ASSUME NEW op \in Ops, apc' = [apc EXCEPT ![op] = NoTask] PROVE TaskT
  BY <1>o, <1>t, <1>no
<1>r. ASSUME NEW r \in Reqs
      PROVE  /\ rgen[r] \in 0..gens /\ rop[r] \in 0..nextOp /\ (rpc[r] \in InSession => rgen[r] \in Gens /\ rgen[r] \in 1..gens)
             /\ rgen[r] \in 0..MaxGen /\ rop[r] \in 0..MaxOp /\ rcfg[r] \in 0..MaxGen
  <2>1. ReqRange(r)
    BY DEF RangeInv
  <2> QED
    BY <2>1, <1>t, SMT DEF ReqRange, Gens
<1>a. ASSUME NEW op \in Ops
      PROVE  /\ apc[op] \in [pc : TaskPcs, gen : 0..MaxGen, cfg : 0..MaxGen, loop : BOOLEAN] /\ op \in 0..MaxOp
             /\ apc[op].gen \in 0..MaxGen /\ apc[op].cfg \in 0..MaxGen
             /\ (apc[op].pc # "none" => apc[op].gen \in Gens /\ apc[op].gen \in 1..gens)
  <2>1. TaskRange(op)
    BY DEF RangeInv
  <2> QED
    BY <2>1, <1>t, SMT DEF TaskRange, Gens, Ops
<1> USE DEF conv, runtime, registry, evloops, locks, req
<1> HIDE DEF ConvT, ConfigT, ProcT, PubT, RegT, LoopT, MemT, EnsT, PcT, GenT, OpT, CfgT, TaskT, SessionInv, TypeInv
<1>0. CASE UNCHANGED vars
  BY <1>0, <1>k, <1>u DEF vars
<1>1. ASSUME NEW r \in Reqs, Request(r) PROVE TypeInv'
  <2>p. \A pc \in Pcs : GoTo(r, pc) => PcT
    BY <1>g
  <2>1. CASE EnsureLoad(r)
    <3>1. PcT
      BY <2>1, <2>p DEF EnsureLoad, Pcs
    <3>2. GenT
      BY <2>1, <1>pub, <1>u DEF EnsureLoad
    <3> QED
      BY <2>1, <3>1, <3>2, <1>k, <1>u, <1>f DEF EnsureLoad
  <2>2. CASE EnsureLook(r)
    <3>1. PcT
      BY <2>2, <2>p DEF EnsureLook, Pcs
    <3> QED
      BY <2>2, <3>1, <1>k, <1>u, <1>f DEF EnsureLook
  <2>3. CASE EnsureReserve(r) \/ AddReserve(r)
    <3>1. PcT
      BY <2>3, <2>p DEF EnsureReserve, AddReserve, Pcs
    <3>2. rgen[r] \in Gens
      BY <2>3, <1>r DEF EnsureReserve, AddReserve, InSession
    <3>3. OpT /\ RegT /\ closed' = closed
      <4>1. \E S : Reserve(r, rgen[r], S)
        BY <2>3 DEF EnsureReserve, AddReserve
      <4> QED
        BY <4>1, <3>2, RegistryTypes DEF OpT, RegT, TypeInv, SessionInv
    <3> QED
      BY <2>3, <3>1, <3>3, <1>k, <1>u, <1>f DEF EnsureReserve, AddReserve
  <2>4. CASE EnsureSpawn(r)
    <3>1. PcT
      BY <2>4, <2>p DEF EnsureSpawn, Pcs
    <3>2. TaskT
      BY <2>4, <1>t, <1>no, <1>r DEF EnsureSpawn, TaskT
    <3> QED
      BY <2>4, <3>1, <3>2, <1>k, <1>u, <1>f DEF EnsureSpawn
  <2>5. CASE Wait(r)
    BY <2>5, <2>p, <1>k, <1>u, <1>f DEF Wait, Pcs
  <2>6. CASE Boot(r)
    <3>1. PcT
      BY <2>6, <2>p DEF Boot, Pcs
    <3>2. PubT /\ gens + 1 \in 0..MaxGen
      BY <2>6, <1>t, SMT DEF PubT, Boot
    <3>3. GenT
      BY <2>6, <1>t, <3>2 DEF GenT, Boot
    <3>4. LoopT
      <4>1. \A x \in 1..gens : x \in 1..gens'
        BY <2>6, <1>t, SMT DEF Boot
      <4> QED
        BY <2>6, <1>t, <4>1 DEF Boot, LoopT
    <3> QED
      BY <2>6, <3>1, <3>2, <3>3, <3>4, <1>k, <1>u, <1>f DEF Boot
  <2>7. CASE BootConfig(r)
    <3>1. PcT
      BY <2>7, <2>p DEF BootConfig, Pcs
    <3>2. ConfigT
      BY <2>7, <1>r, <1>u DEF BootConfig, ConfigT
    <3> QED
      BY <2>7, <3>1, <3>2, <1>k, <1>u, <1>f DEF BootConfig
  <2>8. CASE BootKill(r)
    BY <2>8, <2>p, <1>kill, <1>k, <1>u, <1>f DEF BootKill, Pcs
  <2>9. CASE BootWarm(r)
    <3>1. CfgT
      BY <2>9, <1>t DEF BootWarm, CfgT
    <3> QED
      BY <2>9, <3>1, <2>p, <1>k, <1>u, <1>f DEF BootWarm, Pcs
  <2>10. CASE BootBuild(r)
    <3>1. PcT
      BY <2>10, <2>p DEF BootBuild, Pcs
    <3>2. ProcT
      <4>1. 0 \in 0..MaxOp
        BY <1>t, SMT
      <4> QED
        BY <2>10, <4>1, <1>warm, <1>r, <1>u DEF BootBuild
    <3> QED
      BY <2>10, <3>1, <3>2, <1>k, <1>u, <1>f DEF BootBuild
  <2>11. CASE BootPublish(r)
    <3>1. PcT
      BY <2>11, <2>p DEF BootPublish, Pcs
    <3>2. PubT
      BY <2>11, <1>r, <1>t DEF BootPublish, PubT
    <3>3. RegT
      <4>1. 0 \in 0..MaxOp
        BY <1>t, SMT
      <4>2. entry' \in [Gens -> [st : States, op : 0..MaxOp]]
        BY <2>11, <4>1, <1>t, PutTypes DEF BootPublish, TypeInv, SessionInv, States
      <4> QED
        BY <2>11, <4>2, <1>t DEF BootPublish, RegT
    <3>4. LoopT
      BY <2>11, <1>r, <1>t DEF BootPublish, LoopT, InSession, Booting
    <3> QED
      BY <2>11, <3>1, <3>2, <3>3, <3>4, <1>k, <1>u, <1>f DEF BootPublish
  <2>12. CASE BootAbandon(r)
    <3>1. PcT
      BY <2>12, <2>p DEF BootAbandon, Pcs
    <3>2. LoopT
      BY <2>12, <1>r, <1>t DEF BootAbandon, LoopT, InSession, Booting
    <3> QED
      BY <2>12, <3>1, <3>2, <1>kill, <1>k, <1>u, <1>f DEF BootAbandon
  <2>13. CASE AddStore(r)
    <3>1. ConvT
      BY <2>13, <1>t DEF AddStore, ConvT
    <3> QED
      BY <2>13, <3>1, <2>p, <1>k, <1>u, <1>f DEF AddStore, Pcs
  <2>14. CASE AddSession(r)
    <3>1. PcT
      BY <2>14, <2>p DEF AddSession, Pcs
    <3>2. GenT
      BY <2>14, <1>pub DEF AddSession
    <3> QED
      BY <2>14, <3>1, <3>2, <1>k, <1>u, <1>f DEF AddSession
  <2>15. CASE AddWelcome(r)
    <3>1. PcT
      BY <2>15, <2>p DEF AddWelcome, Pcs
    <3>2. TaskT
      <4>1. \/ apc' = apc
            \/ apc' = [apc EXCEPT ![rop[r]] = [NoTask EXCEPT !.pc = "config", !.gen = rgen[r]]]
        BY <2>15 DEF AddWelcome
      <4> QED
        <5> DEFINE w == [NoTask EXCEPT !.pc = "config", !.gen = rgen[r]]
        <5>1. w \in [pc : TaskPcs, gen : 0..MaxGen, cfg : 0..MaxGen, loop : BOOLEAN]
          BY <1>no, <1>r
        <5>2. apc' = apc \/ apc' = [apc EXCEPT ![rop[r]] = w]
          BY <4>1
        <5> HIDE DEF w
        <5> QED
          BY <5>1, <5>2, <1>t, <1>u DEF TaskT
    <3> QED
      BY <2>15, <3>1, <3>2, <1>k, <1>u, <1>f DEF AddWelcome
  <2>16. CASE RemoveLoad(r)
    <3>1. PcT
      BY <2>16, <2>p DEF RemoveLoad, Pcs
    <3>2. GenT
      BY <2>16, <1>pub, <1>u DEF RemoveLoad
    <3> QED
      BY <2>16, <3>1, <3>2, <1>k, <1>u, <1>f DEF RemoveLoad
  <2>17. CASE RemoveBegin(r)
    <3>1. PcT
      BY <2>17, <2>p DEF RemoveBegin, Pcs
    <3>2. rgen[r] \in Gens
      BY <2>17, <1>r DEF RemoveBegin, InSession
    <3>3. OpT /\ RegT /\ closed' = closed
      <4>1. ASSUME StartRemove(r, rgen[r]) PROVE OpT /\ RegT /\ closed' = closed
        <5>1. nextOp + 1 \in 0..MaxOp
          BY <4>1, <1>t, SMT DEF StartRemove
        <5>2. Put(rgen[r], "removing", nextOp + 1) /\ (UNCHANGED outcome \/ \E op : Signal(op, "removed")) /\ nextOp' = nextOp + 1
              /\ rop' = [rop EXCEPT ![r] = nextOp + 1] /\ closed' = closed
          BY <4>1 DEF StartRemove
        <5> QED
          BY <5>1, <5>2, <1>t, PutTypes DEF TypeInv, SessionInv, States, Outcomes, RegT, OpT
      <4>2. entry[rgen[r]].op \in 0..MaxOp /\ 0 \in 0..MaxOp
        BY <3>2, <1>t, SMT
      <4>3. CASE UNCHANGED registry
        BY <2>17, <4>1, <4>2, <4>3, <1>t, <1>u DEF RemoveBegin, OpT
      <4> QED
        BY <2>17, <4>1, <4>3 DEF RemoveBegin
    <3> QED
      BY <2>17, <3>1, <3>3, <1>k, <1>u, <1>f DEF RemoveBegin
  <2>18. CASE RemoveLoop(r)
    <3>1. PcT
      BY <2>18, <2>p DEF RemoveLoop, Pcs
    <3>2. LoopT
      BY <2>18, <1>t DEF RemoveLoop, LoopT
    <3> QED
      BY <2>18, <3>1, <3>2, <1>k, <1>u, <1>f DEF RemoveLoop
  <2>19. CASE RemoveKill(r)
    <3>1. PcT
      BY <2>19, <2>p DEF RemoveKill, Pcs
    <3> QED
      BY <2>19, <3>1, <1>kill, <1>k, <1>u, <1>f DEF RemoveKill
  <2>20. CASE RemovePersist(r)
    <3>1. PcT
      BY <2>20, <2>p DEF RemovePersist, Pcs
    <3>3. ConvT
      BY <2>20, <1>t DEF RemovePersist, ConvT
    <3> QED
      BY <2>20, <3>1, <3>3, <1>k, <1>u, <1>f DEF RemovePersist
  <2>21. CASE RemoveCurrent(r)
    <3>1. PcT
      BY <2>21, <2>p DEF RemoveCurrent, Pcs
    <3>2. GenT
      BY <2>21, <1>pub, <1>u DEF RemoveCurrent
    <3> QED
      BY <2>21, <3>1, <3>2, <1>k, <1>u, <1>f DEF RemoveCurrent
  <2>22. CASE RemoveJoined(r)
    <3>1. OpT
      BY <2>22, <1>t, SMT DEF RemoveJoined, OpT
    <3> QED
      BY <2>22, <3>1, <2>p, <1>k, <1>u, <1>f DEF RemoveJoined, Pcs
  <2>23. CASE RemoveFinish(r)
    <3>1. RegT /\ closed' = closed
      BY <2>23, <1>r, <1>u, RegistryTypes DEF RemoveFinish, RegT, TypeInv, SessionInv
    <3> QED
      BY <2>23, <3>1, <2>p, <1>k, <1>u, <1>f DEF RemoveFinish, Pcs
  <2>24. CASE RemoveDelete(r)
    <3>1. ConvT /\ ProcT
      BY <2>24, <1>t, <1>kill, <1>u DEF RemoveDelete, ConvT
    <3> QED
      BY <2>24, <3>1, <2>p, <1>k, <1>u, <1>f DEF RemoveDelete, Pcs
  <2>25. CASE StopUnpublish(r)
    <3>1. PcT
      BY <2>25, <2>p DEF StopUnpublish, Pcs
    <3>2. GenT
      BY <2>25, <1>pub DEF StopUnpublish
    <3>3. PubT
      BY <2>25, <1>t, SMT DEF StopUnpublish, PubT
    <3> QED
      BY <2>25, <3>1, <3>2, <3>3, <1>k, <1>u, <1>f DEF StopUnpublish
  <2>26. CASE StopRuntimes(r)
    <3>1. RegT
      <4>1. Put(rgen[r], "absent", 0) /\ nextOp' = nextOp /\ (UNCHANGED outcome \/ \E op : Signal(op, "stopped"))
        BY <2>26 DEF StopRuntimes, StopRegistry
      <4>2. 0 \in 0..MaxOp
        BY <1>t, SMT
      <4> QED
        BY <4>1, <4>2, <1>t, PutTypes DEF TypeInv, SessionInv, RegT, States, Outcomes
    <3>2. LoopT
      BY <2>26, <1>r, <1>t DEF StopRuntimes, StopRegistry, LoopT, InSession
    <3> QED
      BY <2>26, <3>1, <3>2, <2>p, <1>k, <1>u, <1>f DEF StopRuntimes, StopRegistry, Pcs
  <2>27. CASE StopLoops(r)
    <3>1. PcT
      BY <2>27, <2>p DEF StopLoops, Pcs
    <3>2. LoopT
      BY <2>27, <1>t DEF StopLoops, StopInv, LoopT, SessionInv
    <3> QED
      BY <2>27, <3>1, <3>2, <1>k, <1>u, <1>f DEF StopLoops
  <2>28. CASE IdleKill(r)
    BY <2>28, <2>p, <1>kill, <1>k, <1>u, <1>f DEF IdleKill, Pcs
  <2>29. CASE RemoveRestore(r)
    <3>1. RegT /\ closed' = closed
      BY <2>29, <1>r, <1>u, RegistryTypes DEF RemoveRestore, RegT, TypeInv, SessionInv
    <3> QED
      BY <2>29, <3>1, <2>p, <1>k, <1>u, <1>f DEF RemoveRestore, Pcs
  <2> QED
    BY <1>1, <2>1, <2>2, <2>3, <2>4, <2>5, <2>6, <2>7, <2>8, <2>9, <2>10, <2>11, <2>12, <2>13, <2>14, <2>15, <2>16, <2>17,
       <2>18, <2>19, <2>20, <2>21, <2>22, <2>23, <2>24, <2>25, <2>26, <2>27, <2>28, <2>29 DEF Request
<1>2. ASSUME NEW op \in Ops, Attach(op) PROVE TypeInv'
  <2>1. CASE AttachConfig(op)
    <3>1. TaskT /\ ConfigT
      BY <2>1, <1>s, <1>a, <1>u DEF AttachConfig, TaskPcs, ConfigT
    <3> QED
      BY <2>1, <3>1, <1>k, <1>u, <1>f DEF AttachConfig
  <2>2. CASE AttachKill(op)
    BY <2>2, <1>s, <1>kill, <1>k, <1>u, <1>f DEF AttachKill, TaskPcs
  <2>3. CASE AttachWarm(op)
    <3>1. TaskT
      <4>1. PICK pc \in TaskPcs : apc' = [apc EXCEPT ![op].pc = pc, ![op].cfg = config]
        BY <2>3 DEF AttachWarm, TaskPcs
      <4> QED
        <5>1. apc[op] \in [pc : TaskPcs, gen : 0..MaxGen, cfg : 0..MaxGen, loop : BOOLEAN] /\ config \in 0..MaxGen
          BY <1>t
        <5>2. [apc[op] EXCEPT !.pc = pc, !.cfg = config] \in [pc : TaskPcs, gen : 0..MaxGen, cfg : 0..MaxGen, loop : BOOLEAN]
          BY <5>1
        <5>3. apc' = [apc EXCEPT ![op] = [apc[op] EXCEPT !.pc = pc, !.cfg = config]]
          BY <4>1
        <5> QED
          BY <5>2, <5>3, <1>t DEF TaskT
    <3> QED
      BY <2>3, <3>1, <1>k, <1>u, <1>f DEF AttachWarm
  <2>4. CASE AttachBuild(op)
    <3>1. TaskT /\ ProcT
      BY <2>4, <1>s, <1>a, <1>u, <1>warm DEF AttachBuild, TaskPcs
    <3> QED
      BY <2>4, <3>1, <1>k, <1>u, <1>f DEF AttachBuild
  <2>5. CASE AttachCheck(op)
    <3>1. TaskT
      BY <2>5, <1>s DEF AttachCheck, TaskPcs
    <3> QED
      BY <2>5, <3>1, <1>k, <1>u, <1>f DEF AttachCheck
  <2>6. CASE AttachRegister(op)
    <3>1. TaskT
      <4>1. CASE \E pc \in TaskPcs : Step(op, pc)
        BY <4>1, <1>s
      <4>2. CASE apc' = [apc EXCEPT ![op].pc = "commit", ![op].loop = TRUE]
        <5>1. "commit" \in TaskPcs
          BY DEF TaskPcs
        <5>2. [apc[op] EXCEPT !.pc = "commit", !.loop = TRUE] \in [pc : TaskPcs, gen : 0..MaxGen, cfg : 0..MaxGen, loop : BOOLEAN]
          <6>1. apc[op] \in [pc : TaskPcs, gen : 0..MaxGen, cfg : 0..MaxGen, loop : BOOLEAN]
            BY <1>t
          <6> QED
            BY <5>1, <6>1
        <5>3. apc' = [apc EXCEPT ![op] = [apc[op] EXCEPT !.pc = "commit", !.loop = TRUE]]
          BY <4>2
        <5> QED
          BY <5>2, <5>3, <1>t DEF TaskT
      <4> QED
        BY <2>6, <4>1, <4>2 DEF AttachRegister, TaskPcs
    <3>2. LoopT
      BY <2>6, <1>a, <1>t DEF AttachRegister, Task, LoopT
    <3> QED
      BY <2>6, <3>1, <3>2, <1>k, <1>u, <1>f DEF AttachRegister
  <2>7. CASE AttachCommit(op)
    <3>1. TaskT
      BY <2>7, <1>s DEF AttachCommit, TaskPcs
    <3>2. RegT /\ closed' = closed
      BY <2>7, <1>a, RegistryTypes DEF AttachCommit, RegT, TypeInv, SessionInv
    <3> QED
      BY <2>7, <3>1, <3>2, <1>k, <1>u, <1>f DEF AttachCommit
  <2>8. CASE AttachPublish(op)
    <3>1. TaskT
      BY <2>8, <1>s, <1>o DEF AttachPublish, TaskPcs
    <3> QED
      BY <2>8, <3>1, <1>k, <1>u, <1>f DEF AttachPublish
  <2>9. CASE AttachUnloop(op)
    <3>1. TaskT
      BY <2>9, <1>t DEF AttachUnloop, TaskT
    <3>2. LoopT
      BY <2>9, <1>t DEF AttachUnloop, LoopT
    <3> QED
      BY <2>9, <3>1, <3>2, <1>k, <1>u, <1>f DEF AttachUnloop
  <2>10. CASE AttachCleanup(op)
    <3>1. TaskT
      BY <2>10, <1>s, <1>o DEF AttachCleanup, TaskPcs
    <3> QED
      BY <2>10, <3>1, <1>kill, <1>k, <1>u, <1>f DEF AttachCleanup
  <2>11. CASE AttachFail(op)
    <3>1. RegT /\ closed' = closed
      BY <2>11, <1>a, RegistryTypes DEF AttachFail, RegT, TypeInv, SessionInv
    <3> QED
      BY <2>11, <3>1, <1>o, <1>k, <1>u, <1>f DEF AttachFail
  <2> QED
    BY <1>2, <2>1, <2>2, <2>3, <2>4, <2>5, <2>6, <2>7, <2>8, <2>9, <2>10, <2>11 DEF Attach
<1>3. CASE Vanish
  BY <1>3, <1>kill, <1>k, <1>u, <1>f DEF Vanish
<1>4. ASSUME NEW r \in Reqs, Drop(r) PROVE TypeInv'
  <2>1. PcT
    BY <1>4, <1>g DEF Drop, Pcs
  <2>2. OpT
    <3>1. rop' = [rop EXCEPT ![r] = rop[r]] \/ rop' = [rop EXCEPT ![r] = 0]
      BY <1>4 DEF Drop
    <3>2. 0 \in 0..MaxOp
      BY <1>t, SMT
    <3> QED
      BY <3>1, <3>2, <1>t DEF OpT
  <2>3. LoopT
    BY <1>4, <1>r, <1>t DEF Drop, LoopT, InSession
  <2>4. MemT /\ EnsT
    BY <1>4, <1>u DEF Drop, Unlock
  <2> QED
    BY <1>4, <2>1, <2>2, <2>3, <2>4, <1>k, <1>u, <1>f DEF Drop
<1> QED
  BY <1>0, <1>1, <1>2, <1>3, <1>4 DEF Next

-----------------------------------------------------------------------------
(* Every step moves one request or one attach task *)

Apart(r) == scn' = scn /\ \A q \in Reqs \ {r} : rpc'[q] = rpc[q] /\ rgen'[q] = rgen[q] /\ rop'[q] = rop[q]

(* A step of a request changes its own state only. *)
LEMMA RequestApart ==
    ASSUME TypeOK, NEW r \in Reqs, Request(r)
    PROVE  Apart(r)
<1> USE DEF Apart, TypeOK, GoTo, NoFault, Fault, Reserve, StartRemove
<1>1. CASE EnsureLoad(r) \/ EnsureLook(r) \/ EnsureReserve(r) \/ EnsureSpawn(r) \/ Wait(r)
  BY <1>1 DEF EnsureLoad, EnsureLook, EnsureReserve, EnsureSpawn, Wait
<1>2. CASE Boot(r) \/ BootConfig(r) \/ BootKill(r) \/ BootWarm(r) \/ BootBuild(r) \/ BootPublish(r) \/ BootAbandon(r)
  BY <1>2 DEF Boot, BootConfig, BootKill, BootWarm, BootBuild, BootPublish, BootAbandon
<1>3. CASE AddStore(r) \/ AddSession(r) \/ AddReserve(r) \/ AddWelcome(r)
  BY <1>3 DEF AddStore, AddSession, AddReserve, AddWelcome
<1>4. CASE RemoveLoad(r) \/ RemoveBegin(r) \/ RemoveLoop(r) \/ RemoveKill(r)
  BY <1>4 DEF RemoveLoad, RemoveBegin, RemoveLoop, RemoveKill
<1>5. CASE RemovePersist(r) \/ RemoveRestore(r) \/ RemoveCurrent(r) \/ RemoveJoined(r) \/ RemoveFinish(r) \/ RemoveDelete(r)
  BY <1>5 DEF RemovePersist, RemoveRestore, RemoveCurrent, RemoveJoined, RemoveFinish, RemoveDelete
<1>6. CASE StopUnpublish(r) \/ StopRuntimes(r) \/ StopLoops(r) \/ IdleKill(r)
  BY <1>6 DEF StopUnpublish, StopRuntimes, StopLoops, IdleKill
<1> QED
  BY <1>1, <1>2, <1>3, <1>4, <1>5, <1>6 DEF Request

(* A request whose handler is dropped is over, and names no operation unless it was to end it; a session that it *)
(* was starting is closed, and nothing else changes.                                                            *)
LEMMA DropForm ==
    ASSUME TypeOK, NEW r \in Reqs, Drop(r)
    PROVE  /\ Apart(r) /\ UNCHANGED <<conv, runtime, published, gens, entry, outcome, nextOp, looping, rgen, apc, faults>>
           /\ rpc[r] \in Awaiting /\ rpc'[r] \in {"done", "lost"} /\ rop'[r] \in {0, rop[r]}
           /\ rpc'[r] = "lost" <=> Undone(r)
           /\ Owns(r) => rop'[r] = rop[r]
           /\ ~Owns(r) => rop'[r] = 0
           /\ \A q \in Reqs \ {r} : mem = q => mem' = q
           /\ closed \subseteq closed' /\ closed' \subseteq closed \cup {rgen[r]}
           /\ loopsClosed \subseteq loopsClosed' /\ loopsClosed' \subseteq loopsClosed \cup {rgen[r]}
           /\ rpc[r] \in Booting => rgen[r] \in loopsClosed' /\ rgen[r] \in closed'
           /\ rpc[r] \notin Booting => closed' = closed /\ loopsClosed' = loopsClosed
BY DEF Drop, Apart, TypeOK, GoTo, NoFault, Unlock, conv, runtime

(* A step of an attach task leaves the requests, the sessions and the other tasks alone; it keeps its session. *)
LEMMA AttachApart ==
    ASSUME TypeOK, NEW op \in Ops, Attach(op)
    PROVE  /\ UNCHANGED <<scn, conv, published, gens, nextOp, closed, loopsClosed, locks, req>>
           /\ \A o \in Ops \ {op} : apc'[o] = apc[o]
           /\ apc[op].pc # "none"
           /\ apc'[op].gen = apc[op].gen \/ apc'[op] = NoTask
<1> USE DEF TypeOK, NoFault, Fault, Step, Task, conv, registry, evloops, locks, req
<1>1. CASE AttachConfig(op) \/ AttachKill(op) \/ AttachWarm(op) \/ AttachBuild(op) \/ AttachCheck(op)
  BY <1>1 DEF AttachConfig, AttachKill, AttachWarm, AttachBuild, AttachCheck
<1>2. CASE AttachRegister(op)
  BY <1>2 DEF AttachRegister
<1>3. CASE AttachCommit(op)
  BY <1>3 DEF AttachCommit, Commit
<1>4. CASE AttachPublish(op) \/ AttachUnloop(op)
  BY <1>4 DEF AttachPublish, AttachUnloop
<1>6. CASE AttachCleanup(op)
  BY <1>6 DEF AttachCleanup
<1>5. CASE AttachFail(op)
  BY <1>5 DEF AttachFail, Commit
<1> QED
  BY <1>1, <1>2, <1>3, <1>4, <1>5, <1>6 DEF Attach

(* What the operations on the registry do to the entry of their session. *)
LEMMA RegistryForms ==
    ASSUME NEW g
    PROVE  /\ \A r, S : Reserve(r, g, S) =>
                /\ outcome' = outcome /\ closed' = closed
                /\ \/ /\ g \notin closed /\ entry[g].st \in S /\ nextOp' = nextOp + 1 /\ Put(g, "attaching", nextOp + 1)
                      /\ rop' = [rop EXCEPT ![r] = nextOp + 1]
                   \/ /\ entry' = entry /\ nextOp' = nextOp
                      /\ \/ g \in closed /\ rop' = [rop EXCEPT ![r] = 0]
                         \/ g \notin closed /\ entry[g].st \notin S /\ rop' = [rop EXCEPT ![r] = entry[g].op]
           /\ \A op, st : Commit(g, op, st) =>
                /\ nextOp' = nextOp /\ closed' = closed
                /\ \/ OwnsAttach(g, op) /\ Put(g, st, IF st = "ready" THEN 0 ELSE op)
                   \/ ~OwnsAttach(g, op) /\ entry' = entry
           /\ \A op, st : EndRemove(g, op, st) =>
                /\ nextOp' = nextOp /\ closed' = closed
                /\ \/ /\ op # 0 /\ g \notin closed /\ entry[g] = [st |-> "removing", op |-> op]
                      /\ Put(g, st, IF st = "absent" THEN 0 ELSE op)
                   \/ /\ ~(op # 0 /\ g \notin closed /\ entry[g] = [st |-> "removing", op |-> op])
                      /\ entry' = entry
BY DEF Reserve, Commit, EndRemove, registry

(* An entry written by an operation is within the range of sessions and operations. *)
LEMMA PutRange ==
    ASSUME TypeOK, \A g \in Gens : EntryRange(g), NEW h \in Gens, NEW st, NEW op \in Nat, Put(h, st, op),
           op = 0 \/ (op = nextOp + 1 /\ nextOp' = nextOp + 1) \/ op = entry[h].op,
           st \in {"attaching", "removing"} => op # 0,
           st # "absent" => h <= gens' /\ h \notin closed',
           gens <= gens', gens' \in Nat, nextOp' = nextOp \/ nextOp' = nextOp + 1,
           closed' \ closed \subseteq {h}
    PROVE  \A g \in Gens : EntryRange(g)'
<1>1. nextOp \in Nat /\ gens \in Nat /\ \A g \in Gens : entry[g].op \in Nat /\ g \in Nat
  <2>1. nextOp \in Nat /\ gens \in Nat
    BY MemberAssumption, SMT DEF TypeOK
  <2>2. \A g \in Gens : g \in Nat
    BY MemberAssumption, SMT DEF Gens
  <2>3. \A g \in Gens : entry[g].op \in 0..MaxOp
    BY DEF TypeOK
  <2>4. 0..MaxOp \subseteq Nat
    BY MemberAssumption, SMT
  <2> QED
    BY <2>1, <2>2, <2>3, <2>4
<1>2. \A g \in Gens : entry'[g] = IF g = h THEN [st |-> st, op |-> op] ELSE entry[g]
  BY DEF TypeOK, Put
<1>3. \A g \in Gens \ {h} : entry[g].op = op /\ op # 0 => FALSE
  <2>1. ASSUME NEW g \in Gens \ {h}, entry[g].op = op, op # 0 PROVE FALSE
    <3>1. EntryRange(g)
      OBVIOUS
    <3>2. entry[g].op <= nextOp /\ op # nextOp + 1
      BY <3>1, <2>1, <1>1, SMT DEF EntryRange
    <3>3. op = entry[h].op
      BY <3>2, <2>1
    <3> QED
      BY <3>1, <3>3, <2>1 DEF EntryRange
  <2> QED
    BY <2>1
<1>4. ASSUME NEW g \in Gens PROVE EntryRange(g)'
  <2>1. EntryRange(g) /\ EntryRange(h)
    OBVIOUS
  <2>2. entry'[g].op <= nextOp'
    BY <2>1, <1>1, <1>2, SMT DEF EntryRange
  <2>3. (entry'[g].st \in {"attaching", "removing"}) => entry'[g].op # 0
    BY <2>1, <1>2 DEF EntryRange
  <2>4. (entry'[g].st # "absent") => g <= gens' /\ g \notin closed'
    <3>1. CASE g = h
      BY <3>1, <1>2
    <3>2. CASE g # h
      <4>1. (entry[g].st # "absent") => g <= gens /\ g \notin closed
        BY <2>1 DEF EntryRange
      <4>2. entry'[g] = entry[g]
        BY <3>2, <1>2
      <4>3. g <= gens => g <= gens'
        BY <1>1, SMT
      <4> QED
        BY <3>2, <4>1, <4>2, <4>3
    <3> QED
      BY <3>1, <3>2
  <2>5. ASSUME NEW k \in Gens, entry'[g].op = entry'[k].op, entry'[g].op # 0 PROVE g = k
    BY <2>1, <2>5, <1>2, <1>3 DEF EntryRange
  <2> QED
    BY <2>2, <2>3, <2>4, <2>5 DEF EntryRange
<1> QED
  BY <1>4

(* A request spawns the attach task of its operation and its session. *)
SpawnedBy(r) ==
    \A o \in Ops : IF o = rop[r] THEN apc'[o].pc = "config" /\ apc'[o].gen = rgen[r] /\ apc'[o].loop = FALSE
                   ELSE apc'[o] = apc[o]

(* The attach task a request spawns is the one of its operation and its session. *)
LEMMA SpawnForm ==
    ASSUME TypeOK, NEW r, apc' = [apc EXCEPT ![rop[r]] = [NoTask EXCEPT !.pc = "config", !.gen = rgen[r]]]
    PROVE  SpawnedBy(r)
<1> DEFINE w == [NoTask EXCEPT !.pc = "config", !.gen = rgen[r]]
<1>1. w.pc = "config" /\ w.gen = rgen[r] /\ w.loop = FALSE
  BY DEF NoTask
<1>2. apc' = [apc EXCEPT ![rop[r]] = w]
  OBVIOUS
<1> HIDE DEF w
<1> QED
  BY <1>1, <1>2 DEF TypeOK, SpawnedBy

(* Every step names only sessions and operations that exist. *)
LEMMA RangeStep ==
    ASSUME SessionInv, [Next]_vars
    PROVE  RangeInv'
<1>t. TypeOK /\ (\A r \in Reqs : ReqRange(r)) /\ (\A op \in Ops : TaskRange(op)) /\ (\A g \in Gens : EntryRange(g))
  BY DEF SessionInv, TypeInv, RangeInv
<1>n. /\ nextOp \in Nat /\ gens \in Nat /\ published \in 0..gens /\ MaxGen \in Nat /\ MaxOp \in Nat /\ gens <= MaxGen /\ nextOp <= MaxOp
      /\ \A g \in Gens : entry[g].op \in Nat /\ g \in Nat
  BY <1>t, MemberAssumption, SMT DEF TypeOK, Gens
<1>q. ASSUME NEW q \in Reqs
      PROVE  rgen[q] \in 0..gens /\ rop[q] \in 0..nextOp /\ (rpc[q] \in InSession => rgen[q] \in Gens /\ rgen[q] <= gens)
  <2>1. ReqRange(q)
    BY <1>t
  <2> QED
    BY <2>1, <1>n, SMT DEF ReqRange, Gens
<1> DEFINE Grows == (gens' = gens \/ gens' = gens + 1) /\ (nextOp' = nextOp \/ nextOp' = nextOp + 1)
<1>e. ASSUME Grows, entry' = entry, closed' = closed PROVE \A g \in Gens : EntryRange(g)'
  <2>1. ASSUME NEW g \in Gens PROVE EntryRange(g)'
    <3>1. EntryRange(g) /\ entry[g].op \in Nat /\ g \in Nat
      BY <1>t, <1>n
    <3>2. (entry[g].op <= nextOp => entry[g].op <= nextOp') /\ (g <= gens => g <= gens')
      BY <3>1, <1>e, <1>n, SMT
    <3> QED
      BY <3>1, <3>2, <1>e DEF EntryRange
  <2> QED
    BY <2>1
<1>a. ASSUME Grows, NEW o \in Ops, apc'[o] = apc[o] PROVE TaskRange(o)'
  <2>1. TaskRange(o) /\ o \in Nat
    BY <1>t, <1>n, SMT DEF Ops
  <2>2. (o <= nextOp => o <= nextOp') /\ (apc[o].gen \in 0..gens => apc[o].gen \in 0..gens')
    BY <1>a, <1>n, <2>1, SMT
  <2> QED
    BY <2>1, <2>2, <1>a DEF TaskRange
<1>r. ASSUME Grows, NEW q \in Reqs, rpc'[q] = rpc[q], rgen'[q] = rgen[q], rop'[q] = rop[q] PROVE ReqRange(q)'
  <2>1. ReqRange(q)
    BY <1>t
  <2>2. (rop[q] \in 0..nextOp => rop[q] \in 0..nextOp') /\ (rgen[q] \in 0..gens => rgen[q] \in 0..gens')
    BY <1>r, <1>n, SMT
  <2> QED
    BY <2>1, <2>2, <1>r DEF ReqRange
<1>k. ASSUME NEW r \in Reqs, Apart(r), Grows, ReqRange(r)', \A o \in Ops : TaskRange(o)', \A g \in Gens : EntryRange(g)'
      PROVE  RangeInv'
  BY <1>k, <1>r DEF Apart, RangeInv
<1>loc. ASSUME NEW r \in Reqs, Apart(r), ReqRange(r)', UNCHANGED <<entry, closed, gens, nextOp, apc>>
        PROVE  RangeInv'
  BY <1>loc, <1>k, <1>e, <1>a
<1>0. CASE UNCHANGED vars
  BY <1>0, <1>e, <1>a, <1>r DEF RangeInv, vars, req, registry
<1>1. ASSUME NEW r \in Reqs, Request(r) PROVE RangeInv'
  <2>0. Apart(r) /\ ReqRange(r) /\ rgen[r] \in 0..gens /\ rop[r] \in 0..nextOp
    BY <1>1, <1>t, <1>q, RequestApart
  <2> USE DEF registry, evloops, conv, runtime
  <2>f. \A pc : GoTo(r, pc) => rpc'[r] = pc
    BY <1>t DEF TypeOK, GoTo
  <2>v. \A v : (rgen' = [rgen EXCEPT ![r] = v] => rgen'[r] = v) /\ (rop' = [rop EXCEPT ![r] = v] => rop'[r] = v)
    BY <1>t DEF TypeOK
  <2>m. ASSUME UNCHANGED <<entry, closed, gens, nextOp, apc>>,
               rop'[r] = rop[r] \/ (rop'[r] = 0 /\ rpc'[r] # "spawn"),
               rgen'[r] = rgen[r] \/ rgen'[r] = published,
               rpc'[r] \in InSession => rgen'[r] # 0,
               rpc'[r] = "spawn" => rpc[r] = "spawn",
               rpc'[r] # "new",
               rpc'[r] = "begin" => rpc[r] \in {"new", "begin"},
               (rpc'[r] \in {"stopruntime", "persist", "restore"} /\ rgen'[r] = 0) => rop'[r] = 0
        PROVE  RangeInv'
    <3>1. rgen'[r] \in 0..gens' /\ rop'[r] \in 0..nextOp'
      BY <2>m, <2>0, <1>n, SMT
    <3>2. ReqRange(r)'
      BY <3>1, <2>m, <2>0 DEF ReqRange
    <3> QED
      BY <3>2, <2>m, <2>0, <1>loc
  <2>1. CASE EnsureLoad(r)
    BY <2>1, <2>f, <2>v, <2>m DEF EnsureLoad, InSession, Booting
  <2>2. CASE EnsureLook(r)
    BY <2>2, <2>f, <2>m, <2>0 DEF EnsureLook, InSession, Booting, ReqRange
  <2>3. CASE EnsureReserve(r) \/ AddReserve(r)
    <3>1. PICK S : Reserve(r, rgen[r], S)
      BY <2>3 DEF EnsureReserve, AddReserve
    <3>2. /\ gens' = gens /\ apc' = apc /\ rgen' = rgen /\ rgen[r] \in Gens /\ rgen[r] <= gens /\ rgen[r] # 0
          /\ rpc'[r] \in {"spawn", "wait", "done", "welcome"} /\ (rpc'[r] = "spawn" => nextOp' # nextOp)
      BY <2>3, <2>f, <2>0, <1>q DEF EnsureReserve, AddReserve, InSession, ReqRange
    <3>3. CASE /\ rgen[r] \notin closed /\ nextOp' = nextOp + 1 /\ Put(rgen[r], "attaching", nextOp + 1) /\ closed' = closed
               /\ rop' = [rop EXCEPT ![r] = nextOp + 1]
      <4>1. Grows /\ nextOp + 1 \in Nat /\ nextOp + 1 # 0 /\ nextOp + 1 \in 0..nextOp' /\ gens <= gens' /\ gens' \in Nat
            /\ nextOp' = nextOp + 1
        BY <3>2, <3>3, <1>n, SMT
      <4>2. \A g \in Gens : EntryRange(g)'
        BY <3>2, <3>3, <4>1, <1>t, PutRange
      <4>3. ReqRange(r)'
        BY <2>0, <2>v, <3>2, <3>3, <4>1 DEF ReqRange
      <4> QED
        BY <2>0, <3>2, <4>1, <4>2, <4>3, <1>k, <1>a
    <3>4. CASE entry' = entry /\ nextOp' = nextOp /\ closed' = closed
               /\ (rop' = [rop EXCEPT ![r] = 0] \/ rop' = [rop EXCEPT ![r] = entry[rgen[r]].op])
      <4>1. rop'[r] \in 0..nextOp'
        <5>1. entry[rgen[r]].op <= nextOp
          BY <1>t, <3>2 DEF EntryRange
        <5> QED
          BY <5>1, <3>2, <3>4, <2>v, <1>n, SMT
      <4>2. ReqRange(r)'
        BY <2>0, <3>2, <3>4, <4>1 DEF ReqRange, InSession, Booting
      <4> QED
        BY <2>0, <3>2, <3>4, <4>2, <1>loc
    <3> QED
      BY <3>1, <3>3, <3>4, RegistryForms
  <2>4. CASE EnsureSpawn(r) \/ AddWelcome(r)
    <3>1. /\ UNCHANGED <<entry, closed, gens, nextOp, rgen, rop>> /\ rpc'[r] \in {"wait", "done"} /\ rgen[r] # 0
          /\ (apc' = apc \/ (rop[r] # 0 /\ apc' = [apc EXCEPT ![rop[r]] = [NoTask EXCEPT !.pc = "config", !.gen = rgen[r]]]))
      BY <2>4, <2>f, <2>0 DEF EnsureSpawn, AddWelcome, ReqRange, InSession
    <3>2. ReqRange(r)'
      BY <2>0, <3>1 DEF ReqRange, InSession, Booting
    <3>3. \A o \in Ops : TaskRange(o)'
      <4>1. ASSUME NEW o \in Ops PROVE TaskRange(o)'
        <5>1. CASE apc'[o] = apc[o]
          BY <5>1, <3>1, <1>a
        <5>2. CASE apc'[o] # apc[o]
          <6>1. o = rop[r] /\ apc'[o].gen = rgen[r]
            <7>1. apc' = [apc EXCEPT ![rop[r]] = [NoTask EXCEPT !.pc = "config", !.gen = rgen[r]]]
              BY <5>2, <3>1
            <7>2. TypeOK
              BY <1>t
            <7>3. SpawnedBy(r)
              BY <7>1, <7>2, SpawnForm
            <7> QED
              BY <7>3, <5>2 DEF SpawnedBy
          <6>2. o <= nextOp
            BY <6>1, <2>0, <1>n, SMT
          <6> QED
            BY <6>1, <6>2, <2>0, <3>1 DEF TaskRange
        <5> QED
          BY <5>1, <5>2
      <4> QED
        BY <4>1
    <3> QED
      BY <2>0, <3>1, <3>2, <3>3, <1>k, <1>e
  <2>5. CASE Wait(r)
    BY <2>5, <2>f, <2>m DEF Wait, InSession, Booting
  <2>6. CASE Boot(r)
    <3>1. /\ UNCHANGED <<entry, closed, nextOp, rop, apc>> /\ gens' = gens + 1 /\ rgen'[r] = gens + 1 /\ rpc'[r] \in {"config", "publish"}
      BY <2>6, <2>f, <2>v DEF Boot
    <3>2. Grows /\ rgen'[r] \in 0..gens' /\ rgen'[r] # 0
      BY <3>1, <1>n, SMT
    <3>3. ReqRange(r)'
      BY <2>0, <3>1, <3>2 DEF ReqRange, InSession
    <3> QED
      BY <2>0, <3>1, <3>2, <3>3, <1>k, <1>e, <1>a
  <2>7. CASE BootConfig(r) \/ BootKill(r) \/ BootWarm(r) \/ BootBuild(r)
    <3>1. UNCHANGED <<entry, closed, gens, nextOp, apc, rgen, rop>> /\ rpc'[r] \in Booting /\ rpc[r] \in Booting
      BY <2>7, <2>f DEF BootConfig, BootKill, BootWarm, BootBuild, Booting
    <3> QED
      BY <3>1, <2>m, <2>0 DEF ReqRange, InSession, Booting
  <2>8. CASE BootPublish(r)
    <3>1. /\ UNCHANGED <<closed, gens, nextOp, apc, rgen, rop>> /\ rpc'[r] = "done"
          /\ (entry' = entry \/ Put(rgen[r], "ready", 0))
      BY <2>8, <2>f DEF BootPublish
    <3>2. ReqRange(r)'
      BY <2>0, <3>1 DEF ReqRange, InSession, Booting
    <3>3. rgen[r] \in Gens /\ rgen[r] <= gens /\ rgen[r] \notin closed
      BY <2>8, <1>q DEF BootPublish, InSession, Booting, SessionInv, BootInv, Private
    <3>4. \A g \in Gens : EntryRange(g)'
      <4>1. CASE Put(rgen[r], "ready", 0)
        <5>1. gens <= gens' /\ gens' \in Nat /\ 0 \in Nat
          BY <3>1, <1>n, SMT
        <5> QED
          BY <3>1, <3>3, <4>1, <5>1, <1>t, PutRange
      <4> QED
        BY <3>1, <4>1, <1>e
    <3> QED
      BY <2>0, <3>1, <3>2, <3>4, <1>k, <1>a
  <2>9. CASE BootAbandon(r)
    <3>1. UNCHANGED <<entry, gens, nextOp, apc, rgen, rop>> /\ rpc'[r] = "done" /\ closed' = closed \cup {rgen[r]}
          /\ entry[rgen[r]].st = "absent"
      BY <2>9, <2>f DEF BootAbandon, SessionInv, BootInv, Private, Booting
    <3>2. ReqRange(r)'
      BY <2>0, <3>1 DEF ReqRange, InSession, Booting
    <3>3. \A g \in Gens : EntryRange(g)'
      BY <3>1, <1>t DEF EntryRange
    <3> QED
      BY <2>0, <3>1, <3>2, <3>3, <1>k, <1>a
  <2>10. CASE AddStore(r)
    BY <2>10, <2>f, <2>m DEF AddStore, InSession, Booting
  <2>11. CASE AddSession(r)
    BY <2>11, <2>f, <2>v, <2>m DEF AddSession, InSession, Booting
  <2>12. CASE RemoveLoad(r)
    <3>1. rop'[r] = 0
      BY <2>12, <2>0 DEF RemoveLoad, ReqRange
    <3> QED
      BY <2>12, <3>1, <2>f, <2>v, <2>m DEF RemoveLoad, InSession, Booting
  <2>13. CASE RemoveBegin(r)
    <3>1. /\ UNCHANGED <<closed, gens, apc, rgen>> /\ rgen[r] # 0 /\ rgen[r] \in Gens /\ rgen[r] <= gens
          /\ rpc'[r] \in {"unloop", "unloop2", "wait", "join"}
      BY <2>13, <2>f, <2>0, <1>q DEF RemoveBegin, StartRemove, ReqRange, InSession
    <3>2. CASE StartRemove(r, rgen[r]) /\ rgen[r] \notin closed
      <4>1. Put(rgen[r], "removing", nextOp + 1) /\ nextOp' = nextOp + 1 /\ rop'[r] = nextOp + 1
        BY <3>2, <2>v DEF StartRemove
      <4>2. Grows /\ nextOp + 1 \in Nat /\ nextOp + 1 # 0 /\ nextOp + 1 \in 0..nextOp' /\ gens <= gens' /\ gens' \in Nat
        BY <3>1, <4>1, <1>n, SMT
      <4>3. \A g \in Gens : EntryRange(g)'
        BY <3>1, <3>2, <4>1, <4>2, <1>t, PutRange
      <4>4. ReqRange(r)'
        BY <2>0, <3>1, <4>1, <4>2 DEF ReqRange
      <4> QED
        BY <2>0, <3>1, <4>2, <4>3, <4>4, <1>k, <1>a
    <3>3. CASE UNCHANGED registry /\ (rop' = [rop EXCEPT ![r] = 0] \/ rop' = [rop EXCEPT ![r] = entry[rgen[r]].op])
      <4>1. rop'[r] \in 0..nextOp'
        <5>1. entry[rgen[r]].op <= nextOp
          BY <1>t, <3>1 DEF EntryRange
        <5> QED
          BY <5>1, <3>1, <3>3, <2>v, <1>n, SMT
      <4>2. ReqRange(r)'
        BY <2>0, <3>1, <3>3, <4>1 DEF ReqRange
      <4> QED
        BY <2>0, <3>1, <3>3, <4>2, <1>loc
    <3> QED
      BY <2>13, <3>2, <3>3 DEF RemoveBegin, BeginRemoveStarts
  <2>14. CASE RemoveLoop(r) \/ RemoveKill(r) \/ RemoveDelete(r) \/ IdleKill(r)
    <3>1. UNCHANGED <<entry, closed, gens, nextOp, apc, rgen, rop>>
      BY <2>14 DEF RemoveLoop, RemoveKill, RemoveDelete, IdleKill
    <3>2. /\ rpc'[r] \in {"stopruntime", "kill2", "finish", "persist", "done"}
          /\ rpc'[r] \in {"stopruntime", "kill2", "finish"} => rgen[r] # 0
          /\ rpc'[r] = "persist" => rpc[r] = "stopruntime"
      BY <2>14, <2>f, <2>0 DEF RemoveLoop, RemoveKill, RemoveDelete, IdleKill, ReqRange, InSession
    <3> QED
      BY <3>1, <3>2, <2>0, <2>m DEF InSession, Booting, ReqRange
  <2>21. CASE RemovePersist(r)
    <3>1. UNCHANGED <<entry, closed, gens, nextOp, apc, rgen, rop>> /\ rpc[r] = "persist" /\ rpc'[r] \in {"current", "restore", "done"}
      BY <2>21, <2>f DEF RemovePersist
    <3> QED
      BY <3>1, <2>0, <2>m DEF InSession, Booting, ReqRange
  <2>15. CASE RemoveRestore(r) \/ RemoveFinish(r)
    <3>1. /\ UNCHANGED <<gens, apc, rgen, rop>> /\ rpc'[r] \in {"done", "delete"}
          /\ \E st \in {"absent", "failed"} : EndRemove(rgen[r], rop[r], st)
      BY <2>15, <2>f DEF RemoveRestore, RemoveFinish
    <3>2. ReqRange(r)' \/ nextOp' # nextOp
      BY <2>0, <3>1 DEF ReqRange, InSession, Booting
    <3>3. CASE UNCHANGED <<entry, closed, nextOp>>
      BY <2>0, <3>1, <3>2, <3>3, <1>loc
    <3>4. ASSUME NEW st \in {"absent", "failed"}, rop[r] # 0, rgen[r] \notin closed, entry[rgen[r]] = [st |-> "removing", op |-> rop[r]],
                 Put(rgen[r], st, IF st = "absent" THEN 0 ELSE rop[r]), nextOp' = nextOp, closed' = closed
          PROVE  RangeInv'
      <4>1. rgen[r] # 0
        BY <2>15, <2>0, <3>4 DEF RemoveRestore, RemoveFinish, ReqRange, InSession
      <4>2. rgen[r] \in Gens /\ rgen[r] <= gens
        BY <4>1, <2>0, <1>n, SMT DEF Gens
      <4> DEFINE o == IF st = "absent" THEN 0 ELSE rop[r]
      <4>3. o \in Nat /\ (o = 0 \/ o = entry[rgen[r]].op) /\ gens <= gens' /\ gens' \in Nat
        BY <2>0, <3>1, <3>4, <1>n, SMT
      <4>4. Put(rgen[r], st, o)
        BY <3>4
      <4> HIDE DEF o
      <4>5. \A g \in Gens : EntryRange(g)'
        BY <3>1, <3>4, <4>2, <4>3, <4>4, <1>t, PutRange
      <4> QED
        BY <2>0, <3>1, <3>2, <3>4, <4>5, <1>k, <1>a
    <3> QED
      BY <3>1, <3>3, <3>4, RegistryForms
  <2>16. CASE RemoveCurrent(r)
    BY <2>16, <2>f, <2>v, <2>0, <2>m DEF RemoveCurrent, InSession, Booting
  <2>17. CASE RemoveJoined(r)
    <3>1. rgen[r] # 0
      BY <2>17, <2>0 DEF RemoveJoined, ReqRange, InSession
    <3> QED
      BY <2>17, <3>1, <2>f, <2>v, <2>m DEF RemoveJoined
  <2>18. CASE StopUnpublish(r)
    BY <2>18, <2>f, <2>v, <2>m DEF StopUnpublish, InSession, Booting
  <2>19. CASE StopRuntimes(r)
    <3>1. /\ UNCHANGED <<gens, apc, rgen, rop, nextOp>> /\ rpc'[r] = "shutdown" /\ Put(rgen[r], "absent", 0)
          /\ closed' = closed \cup {rgen[r]} /\ rgen[r] \in Gens /\ rgen[r] # 0
      BY <2>19, <2>f, <2>0, <1>q DEF StopRuntimes, StopRegistry, ReqRange, InSession
    <3>2. ReqRange(r)'
      BY <2>0, <3>1 DEF ReqRange
    <3>3. \A g \in Gens : EntryRange(g)'
      <4>1. gens <= gens' /\ gens' \in Nat /\ 0 \in Nat /\ closed' \ closed \subseteq {rgen[r]}
        BY <3>1, <1>n, SMT
      <4> QED
        BY <3>1, <4>1, <1>t, PutRange
    <3> QED
      BY <2>0, <3>1, <3>2, <3>3, <1>k, <1>a
  <2>20. CASE StopLoops(r)
    <3>1. rpc'[r] \in {"cleanup", "done"}
      BY <2>20, <2>f DEF StopLoops
    <3> QED
      BY <2>20, <3>1, <2>m DEF StopLoops, InSession, Booting
  <2> QED
    BY <1>1, <2>1, <2>2, <2>3, <2>4, <2>5, <2>6, <2>7, <2>8, <2>9, <2>10, <2>11, <2>12, <2>13, <2>14, <2>15, <2>16, <2>17,
       <2>18, <2>19, <2>20, <2>21 DEF Request
<1>2. ASSUME NEW op \in Ops, Attach(op) PROVE RangeInv'
  <2>1. /\ UNCHANGED <<published, gens, nextOp, closed, req>> /\ \A o \in Ops \ {op} : apc'[o] = apc[o]
        /\ apc[op].pc # "none" /\ (apc'[op].gen = apc[op].gen \/ apc'[op] = NoTask)
    BY <1>2, <1>t, AttachApart
  <2>2. \A r \in Reqs : ReqRange(r)'
    BY <2>1, <1>r DEF req
  <2>3. TaskRange(op)
    BY <1>t
  <2>4. TaskRange(op)'
    BY <2>1, <2>3, <1>n, SMT DEF TaskRange, NoTask
  <2>5. \A o \in Ops : TaskRange(o)'
    BY <2>1, <2>4, <1>a
  <2>6. \A g \in Gens : EntryRange(g)'
    <3> DEFINE g == apc[op].gen
    <3>1. CASE entry' = entry
      BY <2>1, <3>1, <1>e
    <3>2. ASSUME NEW st \in {"ready", "failed"}, OwnsAttach(g, op), Put(g, st, IF st = "ready" THEN 0 ELSE op)
          PROVE  \A h \in Gens : EntryRange(h)'
      <4>1. g \in Gens /\ g <= gens /\ op \in Nat
        BY <2>1, <2>3, <1>n, SMT DEF TaskRange, Gens, Ops
      <4>2. entry[g].op = op /\ g \notin closed
        BY <3>2 DEF OwnsAttach
      <4> DEFINE o == IF st = "ready" THEN 0 ELSE op
      <4>3. o \in Nat /\ (o = 0 \/ o = entry[g].op) /\ gens <= gens' /\ gens' \in Nat
        BY <2>1, <4>1, <4>2, <1>n, SMT
      <4>4. Put(g, st, o)
        BY <3>2
      <4> HIDE DEF o, g
      <4> QED
        BY <2>1, <4>1, <4>2, <4>3, <4>4, <1>t, PutRange
    <3>3. entry' = entry \/ \E st \in {"ready", "failed"} : OwnsAttach(g, op) /\ Put(g, st, IF st = "ready" THEN 0 ELSE op)
      BY <1>2, RegistryForms DEF Attach, AttachConfig, AttachKill, AttachWarm, AttachBuild, AttachCheck, AttachRegister, AttachCommit, AttachPublish,
         AttachUnloop, AttachCleanup, AttachFail, registry
    <3> QED
      BY <3>1, <3>2, <3>3
  <2> QED
    BY <2>2, <2>5, <2>6 DEF RangeInv
<1>3. CASE Vanish
  BY <1>3, <1>e, <1>a, <1>r DEF RangeInv, Vanish, req, registry
<1>4. ASSUME NEW r \in Reqs, Drop(r) PROVE RangeInv'
  <2>1. /\ Apart(r) /\ UNCHANGED <<gens, entry, nextOp, rgen, apc>> /\ rpc'[r] \in {"done", "lost"} /\ rop'[r] \in {0, rop[r]}
        /\ (closed' = closed \/ (rpc[r] \in Booting /\ closed' \subseteq closed \cup {rgen[r]}))
    BY <1>4, <1>t, DropForm
  <2>2. ReqRange(r)'
    <3>1. rgen[r] \in 0..gens /\ rop'[r] \in 0..nextOp
      BY <2>1, <1>q, <1>n, SMT
    <3> QED
      BY <3>1, <2>1 DEF ReqRange, InSession, Booting
  <2>3. \A g \in Gens : EntryRange(g)'
    <3>1. (rpc[r] \in Booting) => entry[rgen[r]].st = "absent"
      BY DEF SessionInv, BootInv, Private
    <3> QED
      BY <2>1, <3>1, <1>t DEF EntryRange
  <2> QED
    BY <2>1, <2>2, <2>3, <1>k, <1>a
<1> QED
  BY <1>0, <1>1, <1>2, <1>3, <1>4 DEF Next

-----------------------------------------------------------------------------
(* Sessions *)

(* what a step of request r may do to the sessions *)
Kept(r) ==
    /\ rgen'[r] \in {rgen[r], published, gens + 1}
    /\ published' \in {published, rgen[r], 0}
    /\ closed \subseteq closed' /\ closed' \subseteq closed \cup {rgen[r]}
    /\ looping' \subseteq looping \cup {rgen[r]}
    /\ \A o \in Ops : apc'[o] = apc[o] \/ (o = rop[r] /\ apc'[o].pc = "config" /\ apc'[o].gen = rgen[r] /\ apc'[o].loop = FALSE
                                           /\ rpc[r] \in {"spawn", "welcome"} /\ rop[r] # 0)
    /\ nextOp' = nextOp \/ nextOp' = nextOp + 1
    /\ faults \subseteq faults'
    /\ \A g \in Gens : \/ entry'[g] = entry[g]
                       \/ /\ g = rgen[r]
                          /\ entry'[g].op \in {0, entry[g].op} \/ (entry'[g].op = nextOp + 1 /\ nextOp' = nextOp + 1)

(* Writing an entry changes that entry only. *)
LEMMA PutForm ==
    ASSUME TypeOK, NEW h, NEW st, NEW op, Put(h, st, op)
    PROVE  \A g \in Gens : entry'[g] = IF g = h THEN [st |-> st, op |-> op] ELSE entry[g]
BY DEF TypeOK, Put

(* A step of a request changes at most its own session. *)
LEMMA RequestKeeps ==
    ASSUME TypeOK, NEW r \in Reqs, Request(r)
    PROVE  Kept(r)
<1>f. NoFault => faults' = faults
  BY DEF NoFault
<1>ff. \A x : Fault(x) => faults \subseteq faults'
  BY DEF Fault
<1>v. \A v : rgen' = [rgen EXCEPT ![r] = v] => rgen'[r] = v
  BY DEF TypeOK
<1>k. ASSUME UNCHANGED <<closed, apc, entry, nextOp>>, rgen'[r] \in {rgen[r], published, gens + 1},
             published' \in {published, rgen[r], 0}, looping' \subseteq looping \cup {rgen[r]}, faults \subseteq faults'
      PROVE  Kept(r)
  BY <1>k DEF Kept
<1>e. ASSUME NEW st, NEW o, Put(rgen[r], st, o), o \in {0, entry[rgen[r]].op} \/ (o = nextOp + 1 /\ nextOp' = nextOp + 1),
             UNCHANGED <<apc, rgen, looping>>, faults' = faults \/ faults \subseteq faults',
             published' \in {published, rgen[r], 0}, nextOp' = nextOp \/ nextOp' = nextOp + 1,
             closed \subseteq closed' /\ closed' \subseteq closed \cup {rgen[r]}
      PROVE  Kept(r)
  <2>1. \A g \in Gens : entry'[g] = IF g = rgen[r] THEN [st |-> st, op |-> o] ELSE entry[g]
    BY <1>e, PutForm
  <2> QED
    BY <2>1, <1>e DEF Kept
<1> USE DEF registry, evloops, conv, runtime, locks
<1>1. CASE EnsureLoad(r) \/ EnsureLook(r) \/ Wait(r) \/ Boot(r)
  BY <1>1, <1>k, <1>f, <1>ff, <1>v DEF EnsureLoad, EnsureLook, Wait, Boot
<1>2. CASE BootConfig(r) \/ BootKill(r) \/ BootWarm(r) \/ BootBuild(r)
  BY <1>2, <1>k, <1>f, <1>ff DEF BootConfig, BootKill, BootWarm, BootBuild
<1>3. CASE AddStore(r) \/ AddSession(r) \/ RemoveLoad(r) \/ RemoveLoop(r) \/ RemoveKill(r)
  BY <1>3, <1>k, <1>f, <1>ff, <1>v DEF AddStore, AddSession, RemoveLoad, RemoveLoop, RemoveKill
<1>4. CASE RemoveCurrent(r) \/ RemoveJoined(r) \/ RemoveDelete(r) \/ StopUnpublish(r) \/ StopLoops(r) \/ IdleKill(r)
  BY <1>4, <1>k, <1>f, <1>ff, <1>v DEF RemoveCurrent, RemoveJoined, RemoveDelete, StopUnpublish, StopLoops, IdleKill
<1>5. CASE EnsureReserve(r) \/ AddReserve(r)
  <2>1. (\E S : Reserve(r, rgen[r], S)) /\ UNCHANGED <<apc, rgen, looping, published, faults>>
    BY <1>5, <1>f DEF EnsureReserve, AddReserve
  <2>2. closed' = closed /\ ((Put(rgen[r], "attaching", nextOp + 1) /\ nextOp' = nextOp + 1) \/ UNCHANGED <<entry, nextOp>>)
    BY <2>1, RegistryForms
  <2> QED
    BY <2>1, <2>2, <1>e, <1>k
<1>6. CASE EnsureSpawn(r) \/ AddWelcome(r)
  <2>1. /\ UNCHANGED <<closed, entry, nextOp, rgen, published, looping>> /\ faults \subseteq faults' /\ rpc[r] \in {"spawn", "welcome"}
        /\ (apc' = apc \/ apc' = [apc EXCEPT ![rop[r]] = [NoTask EXCEPT !.pc = "config", !.gen = rgen[r]]])
    BY <1>6, <1>f, <1>ff DEF EnsureSpawn, AddWelcome
  <2>2. \A o \in Ops : apc'[o] = apc[o] \/ (o = rop[r] /\ apc'[o].pc = "config" /\ apc'[o].gen = rgen[r] /\ apc'[o].loop = FALSE)
    <3>1. CASE apc' = apc
      BY <3>1
    <3>2. CASE apc' = [apc EXCEPT ![rop[r]] = [NoTask EXCEPT !.pc = "config", !.gen = rgen[r]]]
      <4>1. SpawnedBy(r)
        BY <3>2, SpawnForm
      <4> QED
        BY <4>1 DEF SpawnedBy
    <3> QED
      BY <2>1, <3>1, <3>2
  <2>3. \A o \in Ops : o # 0
    BY SMT DEF Ops
  <2> QED
    BY <2>1, <2>2, <2>3 DEF Kept
<1>7. CASE BootPublish(r)
  <2>1. /\ UNCHANGED <<closed, apc, rgen, nextOp, faults>> /\ published' = rgen[r] /\ looping' \subseteq looping \cup {rgen[r]}
        /\ (entry' = entry \/ Put(rgen[r], "ready", 0))
    BY <1>7, <1>f DEF BootPublish
  <2>2. \A g \in Gens : entry'[g] = entry[g] \/ (g = rgen[r] /\ entry'[g] = [st |-> "ready", op |-> 0])
    BY <2>1, PutForm
  <2> QED
    BY <2>1, <2>2 DEF Kept
<1>8. CASE BootAbandon(r)
  BY <1>8, <1>f DEF BootAbandon, Kept
<1>9. CASE RemoveBegin(r)
  <2>1. /\ UNCHANGED <<apc, rgen, looping, published, faults, closed>>
        /\ ((Put(rgen[r], "removing", nextOp + 1) /\ nextOp' = nextOp + 1) \/ UNCHANGED <<entry, nextOp>>)
    BY <1>9, <1>f DEF RemoveBegin, StartRemove
  <2> QED
    BY <2>1, <1>e, <1>k
<1>10. CASE RemovePersist(r) \/ RemoveRestore(r) \/ RemoveFinish(r)
  <2>1. /\ UNCHANGED <<apc, rgen, looping, published>> /\ faults \subseteq faults'
        /\ (UNCHANGED registry \/ \E st \in {"absent", "failed"} : EndRemove(rgen[r], rop[r], st))
    BY <1>10, <1>f, <1>ff DEF RemovePersist, RemoveRestore, RemoveFinish
  <2>2. CASE UNCHANGED registry
    BY <2>1, <2>2, <1>k
  <2>3. ASSUME NEW st \in {"absent", "failed"}, EndRemove(rgen[r], rop[r], st) PROVE Kept(r)
    <3>1. /\ nextOp' = nextOp /\ closed' = closed
          /\ entry' = entry \/ (entry[rgen[r]].op = rop[r] /\ Put(rgen[r], st, IF st = "absent" THEN 0 ELSE rop[r]))
      <4>1. /\ nextOp' = nextOp /\ closed' = closed
            /\ \/ entry' = entry
               \/ entry[rgen[r]] = [st |-> "removing", op |-> rop[r]] /\ Put(rgen[r], st, IF st = "absent" THEN 0 ELSE rop[r])
        BY <2>3, RegistryForms
      <4> QED
        BY <4>1
    <3> QED
      BY <2>1, <3>1, <1>e, <1>k
  <2> QED
    BY <2>1, <2>2, <2>3
<1>11. CASE StopRuntimes(r)
  <2>1. /\ UNCHANGED <<apc, rgen, looping, published, faults, nextOp>> /\ Put(rgen[r], "absent", 0) /\ closed' = closed \cup {rgen[r]}
    BY <1>11, <1>f DEF StopRuntimes, StopRegistry
  <2> QED
    BY <2>1, <1>e
<1> QED
  BY <1>1, <1>2, <1>3, <1>4, <1>5, <1>6, <1>7, <1>8, <1>9, <1>10, <1>11 DEF Request

(* So does a dropped handler. *)
LEMMA DropKeeps ==
    ASSUME TypeOK, NEW r \in Reqs, Drop(r)
    PROVE  Kept(r)
<1>1. /\ UNCHANGED <<published, entry, nextOp, looping, rgen, apc, faults>>
      /\ closed \subseteq closed' /\ closed' \subseteq closed \cup {rgen[r]}
  BY DropForm
<1> QED
  BY <1>1 DEF Kept

(* A step of an attach task changes at most the entry it owns and the loop of its session. *)
LEMMA AttachKeeps ==
    ASSUME TypeOK, NEW op \in Ops, Attach(op)
    PROVE  /\ faults \subseteq faults'
           /\ looping' \subseteq looping \cup {apc[op].gen} /\ (looping' \ looping) \cap loopsClosed = {}
           /\ \A g \in Gens : \/ entry'[g] = entry[g]
                              \/ /\ g = apc[op].gen /\ OwnsAttach(g, op) /\ apc[op].pc \in {"commit", "failed"}
                                 /\ IF apc[op].pc = "commit" THEN entry'[g] = [st |-> "ready", op |-> 0]
                                    ELSE entry'[g] = [st |-> "failed", op |-> op]
<1>f. NoFault => faults' = faults
  BY DEF NoFault
<1>ff. \A x : Fault(x) => faults \subseteq faults'
  BY DEF Fault
<1> USE DEF registry, evloops
<1>1. CASE AttachConfig(op) \/ AttachKill(op) \/ AttachWarm(op) \/ AttachBuild(op) \/ AttachCheck(op)
  BY <1>1, <1>f, <1>ff DEF AttachConfig, AttachKill, AttachWarm, AttachBuild, AttachCheck
<1>2. CASE AttachRegister(op)
  BY <1>2, <1>f DEF AttachRegister
<1>3. CASE AttachPublish(op) \/ AttachUnloop(op) \/ AttachCleanup(op)
  BY <1>3, <1>f DEF AttachPublish, AttachUnloop, AttachCleanup
<1>4. CASE AttachCommit(op)
  <2>1. /\ UNCHANGED <<looping, faults>> /\ apc[op].pc = "commit"
        /\ (entry' = entry \/ (OwnsAttach(apc[op].gen, op) /\ Put(apc[op].gen, "ready", 0)))
    <3>1. Commit(apc[op].gen, op, "ready") /\ UNCHANGED <<looping, faults>> /\ Task(op, "commit")
      BY <1>4, <1>f DEF AttachCommit
    <3>2. entry' = entry \/ (OwnsAttach(apc[op].gen, op) /\ Put(apc[op].gen, "ready", 0))
      BY <3>1 DEF Commit
    <3> QED
      BY <3>1, <3>2 DEF Task
  <2> QED
    BY <2>1, PutForm
<1>5. CASE AttachFail(op)
  <2>1. /\ UNCHANGED <<looping, faults>> /\ apc[op].pc = "failed"
        /\ (entry' = entry \/ (OwnsAttach(apc[op].gen, op) /\ Put(apc[op].gen, "failed", op)))
    <3>1. Commit(apc[op].gen, op, "failed") /\ UNCHANGED <<looping, faults>> /\ Task(op, "failed")
      BY <1>5, <1>f DEF AttachFail
    <3>2. entry' = entry \/ (OwnsAttach(apc[op].gen, op) /\ Put(apc[op].gen, "failed", op))
      BY <3>1 DEF Commit
    <3> QED
      BY <3>1, <3>2 DEF Task
  <2> QED
    BY <2>1, PutForm
<1> QED
  BY <1>1, <1>2, <1>3, <1>4, <1>5 DEF Attach

(* A session that is being started stays private until it is published. *)
LEMMA BootStep ==
    ASSUME SessionInv, [Next]_vars
    PROVE  BootInv'
<1>t. TypeOK /\ BootInv /\ (\A r \in Reqs : ReqRange(r)) /\ (\A op \in Ops : TaskRange(op)) /\ (\A g \in Gens : EntryRange(g))
  BY DEF SessionInv, TypeInv, RangeInv
<1>n. gens \in Nat /\ published \in 0..gens /\ MaxGen \in Nat /\ gens <= MaxGen /\ closed \subseteq 1..gens /\ looping \subseteq 1..gens
  BY <1>t, MemberAssumption, SMT DEF TypeOK
<1>q. ASSUME NEW q \in Reqs, rpc[q] \in Booting
      PROVE  rgen[q] \in Gens /\ rgen[q] # 0 /\ rgen[q] # gens + 1 /\ rgen[q] # published /\ Private(q)
  <2>1. ReqRange(q) /\ Private(q)
    BY <1>t, <1>q DEF BootInv
  <2>2. rgen[q] # 0 /\ rgen[q] \in 0..gens
    BY <2>1, <1>q DEF ReqRange, InSession
  <2> QED
    BY <2>1, <2>2, <1>n, SMT DEF Private, Gens
<1>0. CASE UNCHANGED vars
  BY <1>0, <1>t DEF BootInv, Private, vars, req, registry, evloops
<1>k. ASSUME NEW r \in Reqs, Apart(r), Kept(r), rpc'[r] \in Booting => Private(r)' PROVE BootInv'
  <2>k. ASSUME NEW q \in Reqs \ {r}, rpc'[q] \in Booting PROVE Private(q)'
    <3>1. rpc[q] \in Booting /\ rgen'[q] = rgen[q]
      BY <2>k, <1>k DEF Apart
    <3>2. Private(q) /\ rgen[q] \in Gens /\ rgen[q] \notin {0, gens + 1, published, rgen[r]}
      BY <3>1, <1>q DEF Private
    <3>3. entry'[rgen[q]] = entry[rgen[q]]
      BY <3>2, <1>k DEF Kept
    <3>4. \A o \in Ops : apc'[o].gen # rgen[q]
      BY <3>2, <1>k DEF Private, Kept
    <3>5. \A p \in Reqs \ {q} : rgen'[p] # rgen[q]
      BY <3>2, <1>k DEF Private, Kept, Apart
    <3> QED
      BY <3>1, <3>2, <3>3, <3>4, <3>5, <1>k DEF Private, Kept
  <2> QED
    BY <1>k, <2>k DEF BootInv
<1>1. ASSUME NEW r \in Reqs, Request(r) PROVE BootInv'
  <2>0. Apart(r) /\ Kept(r)
    BY <1>1, <1>t, RequestApart, RequestKeeps
  <2>m. ASSUME rpc'[r] \in Booting => Private(r)' PROVE BootInv'
    BY <2>m, <2>0, <1>k
  <2>f. \A pc : GoTo(r, pc) => rpc'[r] = pc
    BY <1>t DEF TypeOK, GoTo
  <2>1. CASE Boot(r)
    <3> DEFINE g == gens + 1
    <3>1. UNCHANGED <<published, closed, looping, entry, apc>> /\ rgen'[r] = g
      BY <2>1, <1>t DEF Boot, registry, evloops, TypeOK
    <3>2. g \in Gens /\ g \notin closed \cup looping \cup {published}
      BY <2>1, <1>n, SMT DEF Boot, Gens
    <3>3. entry[g].st = "absent"
      <4>1. EntryRange(g) /\ ~(g <= gens)
        BY <3>2, <1>t, <1>n, SMT
      <4> QED
        BY <4>1 DEF EntryRange
    <3>4. \A q \in Reqs : rgen[q] # g
      <4>1. ASSUME NEW q \in Reqs, rgen[q] = g PROVE FALSE
        <5>1. ReqRange(q)
          BY <1>t
        <5>2. rgen[q] \in 0..gens
          BY <5>1 DEF ReqRange
        <5> QED
          BY <5>2, <4>1, <1>n, SMT
      <4> QED
        BY <4>1
    <3>5. \A o \in Ops : apc[o].gen # g
      <4>1. ASSUME NEW o \in Ops, apc[o].gen = g PROVE FALSE
        <5>1. TaskRange(o)
          BY <1>t
        <5>2. apc[o].gen \in 0..gens
          BY <5>1 DEF TaskRange
        <5> QED
          BY <5>2, <4>1, <1>n, SMT
      <4> QED
        BY <4>1
    <3> HIDE DEF g
    <3>6. Private(r)'
      BY <3>1, <3>2, <3>3, <3>4, <3>5, <2>0 DEF Private, Apart
    <3> QED
      BY <3>6, <2>m
  <2>2. CASE BootConfig(r) \/ BootKill(r) \/ BootWarm(r) \/ BootBuild(r)
    <3>1. UNCHANGED <<published, closed, looping, entry, apc, rgen>> /\ rpc[r] \in Booting
      BY <2>2 DEF BootConfig, BootKill, BootWarm, BootBuild, Booting, registry, evloops
    <3>2. Private(r)'
      BY <3>1, <1>q DEF Private
    <3> QED
      BY <3>2, <2>m
  <2>3. CASE EnsureLoad(r) \/ EnsureLook(r) \/ EnsureReserve(r) \/ EnsureSpawn(r) \/ Wait(r) \/ BootPublish(r) \/ BootAbandon(r)
    BY <2>3, <2>f, <2>m DEF EnsureLoad, EnsureLook, EnsureReserve, EnsureSpawn, Wait, BootPublish, BootAbandon, Booting
  <2>4. CASE AddStore(r) \/ AddSession(r) \/ AddReserve(r) \/ AddWelcome(r)
    BY <2>4, <2>f, <2>m DEF AddStore, AddSession, AddReserve, AddWelcome, Booting
  <2>5. CASE RemoveLoad(r) \/ RemoveBegin(r) \/ RemoveLoop(r) \/ RemoveKill(r) \/ RemovePersist(r) \/ RemoveRestore(r)
    BY <2>5, <2>f, <2>m DEF RemoveLoad, RemoveBegin, RemoveLoop, RemoveKill, RemovePersist, RemoveRestore, Booting
  <2>6. CASE RemoveCurrent(r) \/ RemoveJoined(r) \/ RemoveFinish(r) \/ RemoveDelete(r)
    BY <2>6, <2>f, <2>m DEF RemoveCurrent, RemoveJoined, RemoveFinish, RemoveDelete, Booting
  <2>7. CASE StopUnpublish(r) \/ StopRuntimes(r) \/ StopLoops(r) \/ IdleKill(r)
    BY <2>7, <2>f, <2>m DEF StopUnpublish, StopRuntimes, StopLoops, IdleKill, Booting
  <2> QED
    BY <1>1, <2>1, <2>2, <2>3, <2>4, <2>5, <2>6, <2>7 DEF Request
<1>2. ASSUME NEW op \in Ops, Attach(op) PROVE BootInv'
  <2>1. /\ UNCHANGED <<published, closed, req>> /\ (\A o \in Ops \ {op} : apc'[o] = apc[o])
        /\ (apc'[op].gen = apc[op].gen \/ apc'[op].gen = 0)
    BY <1>2, <1>t, AttachApart DEF NoTask
  <2>2. /\ looping' \subseteq looping \cup {apc[op].gen}
        /\ \A g \in Gens : entry'[g] = entry[g] \/ g = apc[op].gen
    BY <1>2, <1>t, AttachKeeps
  <2>3. ASSUME NEW q \in Reqs, rpc[q] \in Booting PROVE Private(q)'
    <3>1. Private(q) /\ rgen[q] \in Gens /\ rgen[q] # 0
      BY <2>3, <1>q
    <3> QED
      BY <3>1, <2>1, <2>2 DEF Private, req
  <2> QED
    BY <2>1, <2>3 DEF BootInv, req
<1>3. CASE Vanish
  BY <1>3, <1>t DEF Vanish, BootInv, Private, req, registry, evloops
<1>4. ASSUME NEW r \in Reqs, Drop(r) PROVE BootInv'
  <2>1. Apart(r) /\ Kept(r) /\ rpc'[r] \notin Booting
    BY <1>4, <1>t, DropForm, DropKeeps DEF Booting
  <2> QED
    BY <2>1, <1>k
<1> QED
  BY <1>0, <1>1, <1>2, <1>3, <1>4 DEF Next

(* The membership lock has one holder, and nothing is published while it starts a session. *)
LEMMA HoldStep ==
    ASSUME SessionInv, [Next]_vars
    PROVE  HoldInv'
<1>t. TypeOK /\ HoldInv /\ Free \notin Reqs
  BY MemberAssumption DEF SessionInv, TypeInv
<1>0. CASE UNCHANGED vars
  BY <1>0, <1>t DEF HoldInv, vars, req, locks, Kind
<1>1. ASSUME NEW r \in Reqs, Request(r) PROVE HoldInv'
  <2>0. Apart(r) /\ scn' = scn
    BY <1>1, <1>t, RequestApart DEF Apart
  <2>f. \A pc : GoTo(r, pc) => rpc'[r] = pc
    BY <1>t DEF TypeOK, GoTo
  <2>h. /\ rpc[r] \in Holding => mem = r
        /\ rpc[r] \in Booting \cup {"boot"} => published = 0
        /\ rpc[r] = "session" => Kind(r) = "add"
        /\ rpc[r] \in {"look", "repair"} => Kind(r) = "ensure"
        /\ rpc[r] = "reserve" => Kind(r) \in {"ensure", "add"}
    BY <1>t DEF HoldInv
  <2>k. ASSUME mem' = mem \/ mem = Free \/ rpc[r] \in Holding,
               published' \in {published, 0} \/ rpc[r] \in Holding,
               rpc'[r] \in Holding => mem' = r,
               rpc'[r] \in Booting \cup {"boot"} => published' = 0,
               rpc'[r] = "session" => Kind(r) = "add",
               rpc'[r] \in {"look", "repair"} => Kind(r) = "ensure",
               rpc'[r] = "reserve" => Kind(r) \in {"ensure", "add"}
        PROVE  HoldInv'
    <3>1. ASSUME NEW q \in Reqs \ {r}, rpc[q] \in Holding PROVE mem' = q /\ rpc[r] \notin Holding
      BY <3>1, <2>k, <2>h, <1>t DEF HoldInv
    <3>2. ASSUME NEW q \in Reqs \ {r}, rpc[q] \in Booting \cup {"boot"} PROVE published' = 0
      <4>1. rpc[q] \in Holding /\ published = 0
        BY <3>2, <1>t DEF HoldInv, Holding
      <4> QED
        BY <4>1, <3>1, <2>k
    <3> QED
      BY <3>1, <3>2, <2>k, <2>0, <1>t DEF HoldInv, Apart, Kind
  <2> USE DEF Holding, Booting, locks, conv, runtime
  <2>1. CASE EnsureLoad(r)
    BY <2>1, <2>f, <2>k DEF EnsureLoad
  <2>2. CASE EnsureLook(r)
    <3>1. UNCHANGED published /\ rpc[r] = "look"
      BY <2>2 DEF EnsureLook
    <3>2. CASE rpc'[r] = "done"
      BY <3>1, <3>2, <2>k
    <3>3. CASE rpc'[r] \in {"repair", "reserve"} /\ mem' = mem
      BY <3>1, <3>3, <2>k, <2>h
    <3>4. rpc'[r] \in {"repair", "reserve"} => mem' = mem
      BY <2>2, <2>f DEF EnsureLook
    <3>5. rpc'[r] \in {"repair", "reserve", "done"}
      BY <2>2, <2>f DEF EnsureLook
    <3> QED
      BY <3>2, <3>3, <3>4, <3>5
  <2>3. CASE EnsureReserve(r) \/ EnsureSpawn(r)
    <3>1. UNCHANGED published /\ rpc'[r] \in {"spawn", "done", "wait"} /\ (mem' = mem \/ rpc[r] \in Holding)
      BY <2>3, <2>f DEF EnsureReserve, EnsureSpawn
    <3> QED
      BY <3>1, <2>k
  <2>4. CASE Wait(r) \/ Boot(r) \/ BootConfig(r) \/ BootKill(r) \/ BootWarm(r) \/ BootBuild(r)
    <3>1. UNCHANGED <<published, mem>> /\ (rpc'[r] = "done" \/ (rpc'[r] \in Booting /\ rpc[r] \in Booting \cup {"boot"}))
      BY <2>4, <2>f DEF Wait, Boot, BootConfig, BootKill, BootWarm, BootBuild
    <3> QED
      BY <3>1, <2>k, <2>h
  <2>5. CASE BootPublish(r) \/ BootAbandon(r)
    BY <2>5, <2>f, <2>k DEF BootPublish, BootAbandon
  <2>6. CASE AddStore(r) \/ AddReserve(r) \/ AddWelcome(r)
    <3>1. UNCHANGED published /\ (mem' = mem \/ mem = Free \/ rpc[r] \in Holding)
          /\ (rpc'[r] = "done" \/ (rpc'[r] \in {"session", "welcome"} /\ Kind(r) = "add" /\ (mem' = r \/ (rpc[r] \in Holding /\ mem' = mem))))
      BY <2>6, <2>f DEF AddStore, AddReserve, AddWelcome
    <3> QED
      BY <3>1, <2>k, <2>h
  <2>7. CASE AddSession(r)
    <3>1. /\ UNCHANGED published /\ rpc[r] = "session" /\ rpc'[r] \in {"done", "reserve"}
          /\ (rpc'[r] = "reserve" => mem' = mem)
      BY <2>7, <2>f DEF AddSession
    <3> QED
      BY <3>1, <2>k, <2>h
  <2>8. CASE RemoveLoad(r)
    BY <2>8, <2>f, <2>k DEF RemoveLoad
  <2>9. CASE RemoveBegin(r)
    <3>1. /\ UNCHANGED published /\ rpc'[r] \in {"unloop", "unloop2", "wait", "join"} /\ (mem' = mem \/ rpc[r] = "begin")
      BY <2>9, <2>f DEF RemoveBegin
    <3> QED
      BY <3>1, <2>k
  <2>10. CASE RemoveLoop(r) \/ RemoveKill(r) \/ RemovePersist(r) \/ RemoveRestore(r) \/ RemoveCurrent(r)
    <3>1. /\ UNCHANGED <<published, mem>>
          /\ rpc'[r] \in {"stopruntime", "kill2", "finish", "persist", "restore", "current", "done", "delete", "unloop2", "begin2"}
      BY <2>10, <2>f DEF RemoveLoop, RemoveKill, RemovePersist, RemoveRestore, RemoveCurrent
    <3> QED
      BY <3>1, <2>k
  <2>11. CASE RemoveJoined(r) \/ RemoveFinish(r) \/ RemoveDelete(r)
    BY <2>11, <2>f, <2>k DEF RemoveJoined, RemoveFinish, RemoveDelete
  <2>12. CASE StopUnpublish(r) \/ StopRuntimes(r) \/ StopLoops(r) \/ IdleKill(r)
    <3>1. mem' = mem /\ published' \in {published, 0} /\ rpc'[r] \in {"done", "halt", "shutdown", "cleanup"}
      BY <2>12, <2>f DEF StopUnpublish, StopRuntimes, StopLoops, IdleKill
    <3> QED
      BY <3>1, <2>k
  <2> QED
    BY <1>1, <2>1, <2>2, <2>3, <2>4, <2>5, <2>6, <2>7, <2>8, <2>9, <2>10, <2>11, <2>12 DEF Request
<1>2. ASSUME NEW op \in Ops, Attach(op) PROVE HoldInv'
  <2>1. UNCHANGED <<scn, published, locks, req>>
    BY <1>2, <1>t, AttachApart
  <2> QED
    BY <2>1, <1>t DEF HoldInv, locks, req, Kind
<1>3. CASE Vanish
  BY <1>3, <1>t DEF Vanish, HoldInv, locks, req, Kind, Fault
<1>4. ASSUME NEW r \in Reqs, Drop(r) PROVE HoldInv'
  <2>1. /\ Apart(r) /\ published' = published /\ rpc'[r] \in {"done", "lost"}
        /\ \A q \in Reqs \ {r} : mem = q => mem' = q
    BY <1>4, <1>t, DropForm
  <2> QED
    BY <2>1, <1>t DEF HoldInv, Holding, Booting, Apart, Kind
<1> QED
  BY <1>0, <1>1, <1>2, <1>3, <1>4 DEF Next

(* A session that leaves the map is stopped: its registry, then its loops. *)
LEMMA StopStep ==
    ASSUME SessionInv, [Next]_vars
    PROVE  StopInv'
<1>t. TypeOK /\ StopInv /\ BootInv /\ HoldInv /\ (\A r \in Reqs : ReqRange(r))
  BY DEF SessionInv, TypeInv, RangeInv
<1>n. gens \in Nat /\ published \in 0..gens /\ closed \subseteq 1..gens /\ looping \subseteq 1..gens /\ loopsClosed \subseteq closed
      /\ 0 \notin closed
  BY <1>t, MemberAssumption, SMT DEF TypeOK
<1>s. /\ \A q \in Reqs : rpc[q] \in {"halt", "shutdown"} => rgen[q] # published /\ rgen[q] # 0
      /\ \A q \in Reqs : rpc[q] = "shutdown" => rgen[q] \in closed
      /\ published \notin closed /\ looping \cap loopsClosed = {} /\ \A g \in 1..gens : Known(g)
  BY <1>t DEF StopInv, ReqRange, InSession
<1>0. CASE UNCHANGED vars
  BY <1>0, <1>t DEF StopInv, Known, vars, req, registry, evloops
<1>1. ASSUME NEW r \in Reqs, Request(r) PROVE StopInv'
  <2>0. Apart(r) /\ Kept(r) /\ scn' = scn /\ closed \subseteq closed'
    BY <1>1, <1>t, RequestApart, RequestKeeps DEF Apart, Kept
  <2>f. \A pc : GoTo(r, pc) => rpc'[r] = pc
    BY <1>t DEF TypeOK, GoTo
  <2>v. \A v : rgen' = [rgen EXCEPT ![r] = v] => rgen'[r] = v
    BY <1>t DEF TypeOK
  <2>b. rpc[r] \in Booting => published = 0 /\ Private(r)
    BY <1>t DEF HoldInv, BootInv
  <2>k. ASSUME UNCHANGED <<published, gens, closed, loopsClosed>>, looping' \subseteq looping,
               (rpc[r] \in Booting /\ rpc'[r] \in Booting /\ rgen'[r] = rgen[r]) \/ (rpc[r] \notin Booting /\ rpc[r] \notin {"halt", "shutdown"}),
               rpc'[r] \notin {"halt", "shutdown"}
        PROVE  StopInv'
    <3>1. ASSUME NEW g \in 1..gens PROVE Known(g)'
      BY <3>1, <1>s, <2>k, <2>0 DEF Known, Apart
    <3> QED
      BY <3>1, <1>s, <2>k, <2>0 DEF StopInv, Apart
  <2> USE DEF Booting, registry, evloops, conv, runtime, locks
  <2>1. CASE EnsureLoad(r) \/ EnsureLook(r) \/ EnsureSpawn(r) \/ Wait(r)
    <3>1. UNCHANGED <<published, gens, closed, evloops>> /\ rpc[r] \in {"new", "look", "spawn", "wait"} /\ rpc'[r] \notin {"halt", "shutdown"}
      BY <2>1, <2>f DEF EnsureLoad, EnsureLook, EnsureSpawn, Wait
    <3> QED
      BY <3>1, <2>k
  <2>2. CASE EnsureReserve(r) \/ AddReserve(r)
    <3>1. UNCHANGED <<published, gens, evloops>> /\ rpc[r] \in {"repair", "reserve"} /\ rpc'[r] \notin {"halt", "shutdown"}
      BY <2>2, <2>f DEF EnsureReserve, AddReserve
    <3>2. closed' = closed
      BY <2>2, RegistryForms DEF EnsureReserve, AddReserve
    <3> QED
      BY <3>1, <3>2, <2>k
  <2>3. CASE Boot(r)
    <3>1. /\ UNCHANGED <<published, closed, evloops>> /\ gens' = gens + 1 /\ rgen'[r] = gens + 1 /\ rpc'[r] \in {"config", "publish"}
          /\ rpc[r] = "boot"
      BY <2>3, <2>f, <2>v DEF Boot
    <3>2. ASSUME NEW g \in 1..gens PROVE Known(g)'
      BY <3>1, <3>2, <1>s, <2>0 DEF Known, Apart
    <3>3. \A g : g = gens + 1 => Known(g)'
      BY <3>1 DEF Known
    <3>4. \A g \in 1..gens' : g \in 1..gens \/ g = gens + 1
      BY <3>1, <1>n, SMT
    <3> QED
      BY <3>1, <3>2, <3>3, <3>4, <1>s, <2>0 DEF StopInv, Apart
  <2>4. CASE BootConfig(r) \/ BootKill(r) \/ BootWarm(r) \/ BootBuild(r)
    <3>1. UNCHANGED <<published, gens, closed, evloops, rgen>> /\ rpc[r] \in Booting /\ rpc'[r] \in Booting
      BY <2>4, <2>f DEF BootConfig, BootKill, BootWarm, BootBuild
    <3> QED
      BY <3>1, <2>k
  <2>5. CASE BootPublish(r)
    <3>1. UNCHANGED <<gens, closed, loopsClosed, rgen>> /\ published' = rgen[r] /\ rpc[r] = "publish" /\ rpc'[r] = "done"
          /\ looping' \subseteq looping \cup {rgen[r]}
      BY <2>5, <2>f DEF BootPublish
    <3>2. published = 0 /\ rgen[r] \notin closed /\ (\A q \in Reqs \ {r} : rgen[q] # rgen[r])
      BY <3>1, <2>b DEF Private
    <3>3. ASSUME NEW g \in 1..gens PROVE Known(g)'
      <4>1. Known(g) /\ g # published
        BY <1>s, <3>2, <1>n, SMT
      <4> QED
        BY <4>1, <3>1, <2>0 DEF Known, Apart
    <3> QED
      BY <3>1, <3>2, <3>3, <1>s, <1>n, <2>0 DEF StopInv, Apart
  <2>6. CASE BootAbandon(r)
    <3>1. /\ UNCHANGED <<published, gens, looping, rgen>> /\ closed' = closed \cup {rgen[r]} /\ loopsClosed' = loopsClosed \cup {rgen[r]}
          /\ rpc[r] = "abandon" /\ rpc'[r] = "done"
      BY <2>6, <2>f DEF BootAbandon
    <3>2. rgen[r] # published /\ rgen[r] \notin looping /\ (\A q \in Reqs \ {r} : rgen[q] # rgen[r])
      BY <3>1, <2>b DEF Private
    <3>3. ASSUME NEW g \in 1..gens PROVE Known(g)'
      BY <3>1, <1>s, <2>0 DEF Known, Apart
    <3> QED
      BY <3>1, <3>2, <3>3, <1>s, <2>0 DEF StopInv, Apart
  <2>7. CASE AddStore(r) \/ AddSession(r) \/ AddWelcome(r) \/ RemoveLoad(r)
    <3>1. UNCHANGED <<published, gens, closed, evloops>> /\ rpc[r] \in {"new", "session", "welcome"} /\ rpc'[r] \notin {"halt", "shutdown"}
      BY <2>7, <2>f DEF AddStore, AddSession, AddWelcome, RemoveLoad
    <3> QED
      BY <3>1, <2>k
  <2>8. CASE RemoveBegin(r)
    <3>1. UNCHANGED <<published, gens, closed, evloops>> /\ rpc[r] \in {"begin", "begin2"} /\ rpc'[r] \notin {"halt", "shutdown"}
      BY <2>8, <2>f DEF RemoveBegin, StartRemove
    <3> QED
      BY <3>1, <2>k
  <2>9. CASE RemoveLoop(r) \/ RemoveKill(r) \/ RemoveCurrent(r)
    <3>1. /\ UNCHANGED <<published, gens, closed, loopsClosed>> /\ rpc[r] \in {"unloop", "unloop2", "stopruntime", "kill2", "current"}
          /\ rpc'[r] \notin {"halt", "shutdown"} /\ looping' \subseteq looping
      BY <2>9, <2>f DEF RemoveLoop, RemoveKill, RemoveCurrent
    <3> QED
      BY <3>1, <2>k
  <2>10. CASE RemoveJoined(r) \/ RemoveDelete(r) \/ IdleKill(r)
    <3>1. /\ UNCHANGED <<published, gens, closed, evloops>> /\ rpc[r] \in {"join", "delete", "cleanup"} /\ rpc'[r] \notin {"halt", "shutdown"}
      BY <2>10, <2>f DEF RemoveJoined, RemoveDelete, IdleKill
    <3> QED
      BY <3>1, <2>k
  <2>11. CASE RemovePersist(r) \/ RemoveRestore(r) \/ RemoveFinish(r)
    <3>1. /\ UNCHANGED <<published, gens, evloops>> /\ rpc[r] \in {"persist", "restore", "finish"} /\ rpc'[r] \notin {"halt", "shutdown"}
      BY <2>11, <2>f DEF RemovePersist, RemoveRestore, RemoveFinish
    <3>2. closed' = closed
      BY <2>11, RegistryForms DEF RemovePersist, RemoveRestore, RemoveFinish
    <3> QED
      BY <3>1, <3>2, <2>k
  <2>12. CASE StopUnpublish(r)
    <3>1. /\ UNCHANGED <<gens, closed, evloops>> /\ published' = 0 /\ rgen'[r] = published /\ rpc[r] = "new"
          /\ rpc'[r] = IF published = 0 THEN "done" ELSE "halt"
      BY <2>12, <2>f, <2>v DEF StopUnpublish
    <3>2. ASSUME NEW g \in 1..gens PROVE Known(g)'
      <4>1. Known(g) /\ g # 0
        BY <1>s, <1>n, SMT
      <4>2. CASE g = published
        BY <4>1, <4>2, <3>1 DEF Known
      <4>3. CASE g # published
        BY <4>1, <4>3, <3>1, <2>0 DEF Known, Apart
      <4> QED
        BY <4>2, <4>3
    <3> QED
      BY <3>1, <3>2, <1>s, <1>n, <2>0 DEF StopInv, Apart
  <2>13. CASE StopRuntimes(r)
    <3>1. /\ UNCHANGED <<published, gens, evloops, rgen>> /\ closed' = closed \cup {rgen[r]} /\ rpc[r] = "halt" /\ rpc'[r] = "shutdown"
      BY <2>13, <2>f DEF StopRuntimes, StopRegistry
    <3>2. ASSUME NEW g \in 1..gens PROVE Known(g)'
      BY <3>1, <1>s, <2>0 DEF Known, Apart
    <3> QED
      BY <3>1, <3>2, <1>s, <2>0 DEF StopInv, Apart
  <2>14. CASE StopLoops(r)
    <3>1. /\ UNCHANGED <<published, gens, closed, rgen>> /\ loopsClosed' = loopsClosed \cup {rgen[r]} /\ looping' = looping \ {rgen[r]}
          /\ rpc[r] = "shutdown" /\ rpc'[r] \in {"cleanup", "done"}
      BY <2>14, <2>f DEF StopLoops
    <3>2. ASSUME NEW g \in 1..gens PROVE Known(g)'
      BY <3>1, <1>s, <2>0 DEF Known, Apart
    <3> QED
      BY <3>1, <3>2, <1>s, <2>0 DEF StopInv, Apart
  <2> QED
    BY <1>1, <2>1, <2>2, <2>3, <2>4, <2>5, <2>6, <2>7, <2>8, <2>9, <2>10, <2>11, <2>12, <2>13, <2>14 DEF Request
<1>2. ASSUME NEW op \in Ops, Attach(op) PROVE StopInv'
  <2>1. UNCHANGED <<published, gens, closed, loopsClosed, req>>
    BY <1>2, <1>t, AttachApart
  <2>2. (looping' \ looping) \cap loopsClosed = {}
    BY <1>2, <1>t, AttachKeeps
  <2>3. ASSUME NEW g \in 1..gens PROVE Known(g)'
    BY <2>1, <1>s DEF Known, req
  <2> QED
    BY <2>1, <2>2, <2>3, <1>s DEF StopInv, req
<1>3. CASE Vanish
  BY <1>3, <1>t DEF Vanish, StopInv, Known, req, registry, evloops
<1>4. ASSUME NEW r \in Reqs, Drop(r) PROVE StopInv'
  <2>1. /\ Apart(r) /\ UNCHANGED <<published, gens, looping, rgen>> /\ rpc'[r] \in {"done", "lost"}
        /\ closed \subseteq closed' /\ loopsClosed \subseteq loopsClosed'
        /\ closed' \subseteq closed \cup {rgen[r]} /\ loopsClosed' \subseteq loopsClosed \cup {rgen[r]}
        /\ rpc[r] \in Booting => rgen[r] \in loopsClosed'
        /\ rpc[r] \notin Booting => closed' = closed /\ loopsClosed' = loopsClosed
    BY <1>4, <1>t, DropForm
  <2>2. rpc[r] \notin {"halt", "shutdown"}
    BY <1>4, <1>t, DropForm DEF Awaiting, Booting
  <2>3. rpc[r] \in Booting => rgen[r] \notin looping \cup {published}
    BY <1>t DEF BootInv, Private
  <2>4. ASSUME NEW g \in 1..gens PROVE Known(g)'
    <3>1. Known(g)
      BY <1>s
    <3>2. CASE \E q \in Reqs : rgen[q] = g /\ rpc[q] \in Booting
      <4>1. PICK q \in Reqs : rgen[q] = g /\ rpc[q] \in Booting
        BY <3>2
      <4>2. CASE q = r
        BY <4>1, <4>2, <2>1 DEF Known
      <4>3. CASE q # r
        BY <4>1, <4>3, <2>1 DEF Known, Apart
      <4> QED
        BY <4>2, <4>3
    <3>3. CASE ~\E q \in Reqs : rgen[q] = g /\ rpc[q] \in Booting
      BY <3>1, <3>3, <2>1, <2>2 DEF Known, Apart
    <3> QED
      BY <3>2, <3>3
  <2>5. published \notin closed' /\ looping \cap loopsClosed' = {}
    BY <2>1, <2>3, <1>s
  <2> QED
    BY <2>1, <2>2, <2>4, <2>5, <1>s DEF StopInv, Apart
<1> QED
  BY <1>0, <1>1, <1>2, <1>3, <1>4 DEF Next

(* An operation belongs to one session, a removal to one request. *)
LEMMA OwnStep ==
    ASSUME SessionInv, [Next]_vars
    PROVE  OwnInv'
<1> DEFINE Owning == Removing \cup {"spawn", "welcome"}
<1>t. TypeOK /\ OwnInv /\ (\A r \in Reqs : ReqRange(r)) /\ (\A op \in Ops : TaskRange(op)) /\ (\A g \in Gens : EntryRange(g))
  BY DEF SessionInv, TypeInv, RangeInv
<1>n. nextOp \in Nat /\ (\A q \in Reqs : rop[q] # nextOp + 1) /\ \A g \in Gens : entry[g].op # nextOp + 1
  <2>1. nextOp \in Nat
    BY <1>t, MemberAssumption, SMT DEF TypeOK
  <2>2. ASSUME NEW q \in Reqs PROVE rop[q] # nextOp + 1
    <3>1. ReqRange(q)
      BY <1>t
    <3> QED
      BY <3>1, <2>1, SMT DEF ReqRange
  <2>3. ASSUME NEW g \in Gens PROVE entry[g].op # nextOp + 1
    <3>1. EntryRange(g) /\ entry[g].op \in 0..MaxOp
      BY <1>t DEF TypeOK
    <3> QED
      BY <3>1, <2>1, SMT DEF EntryRange
  <2> QED
    BY <2>1, <2>2, <2>3
<1>o. /\ \A q \in Reqs : rpc[q] \in Owning /\ rop[q] # 0 => \A g \in Gens : entry[g].op = rop[q] => g = rgen[q]
      /\ \A p, q \in Reqs : rpc[p] \in Removing /\ rpc[q] \in Removing /\ rop[p] = rop[q] /\ rop[q] # 0 => p = q
  BY <1>t DEF OwnInv
<1>w. ASSUME /\ \A q \in Reqs : rpc'[q] \in Owning /\ rop'[q] # 0 => \A g \in Gens : entry'[g].op = rop'[q] => g = rgen'[q],
             \A p, q \in Reqs : rpc'[p] \in Removing /\ rpc'[q] \in Removing /\ rop'[p] = rop'[q] /\ rop'[q] # 0 => p = q
      PROVE  OwnInv'
  BY <1>w DEF OwnInv
<1>0. CASE UNCHANGED vars
  BY <1>0, <1>t DEF OwnInv, vars, req, registry
<1> HIDE DEF Owning
<1>1. ASSUME NEW r \in Reqs, Request(r) PROVE OwnInv'
  <2>0. Apart(r) /\ Kept(r)
    BY <1>1, <1>t, RequestApart, RequestKeeps
  <2>f. \A pc : GoTo(r, pc) => rpc'[r] = pc
    BY <1>t DEF TypeOK, GoTo
  <2>v. \A v : (rgen' = [rgen EXCEPT ![r] = v] => rgen'[r] = v) /\ (rop' = [rop EXCEPT ![r] = v] => rop'[r] = v)
    BY <1>t DEF TypeOK
  <2>e. \A g \in Gens : entry'[g].op \in {0, entry[g].op} \/ (entry'[g].op = nextOp + 1 /\ g = rgen[r])
    BY <2>0 DEF Kept
  <2>k. ASSUME \/ rpc'[r] \notin Owning
               \/ rop'[r] = 0
               \/ rop'[r] = nextOp + 1 /\ rgen'[r] = rgen[r]
               \/ rpc[r] \in Removing /\ rop'[r] = rop[r] /\ rgen'[r] = rgen[r]
               \/ /\ rpc'[r] \notin Removing /\ rop'[r] = entry[rgen[r]].op /\ rgen'[r] = rgen[r] /\ rgen[r] \in Gens
                  /\ \A g \in Gens : entry'[g] = entry[g]
        PROVE  OwnInv'
    <3>1. ASSUME NEW q \in Reqs \ {r}, rpc'[q] \in Owning, rop'[q] # 0, NEW g \in Gens, entry'[g].op = rop'[q] PROVE g = rgen'[q]
      BY <3>1, <1>o, <1>n, <2>0, <2>e DEF Apart
    <3>2. ASSUME rpc'[r] \in Owning, rop'[r] # 0, NEW g \in Gens, entry'[g].op = rop'[r] PROVE g = rgen'[r]
      <4>1. CASE rop'[r] = nextOp + 1 /\ rgen'[r] = rgen[r]
        BY <4>1, <3>2, <2>e, <1>n
      <4>2. CASE rpc[r] \in Removing /\ rop'[r] = rop[r] /\ rgen'[r] = rgen[r]
        BY <4>2, <3>2, <2>e, <1>n, <1>o DEF Owning
      <4>3. CASE /\ rop'[r] = entry[rgen[r]].op /\ rgen'[r] = rgen[r] /\ rgen[r] \in Gens
                 /\ \A h \in Gens : entry'[h] = entry[h]
        <5>1. EntryRange(g)
          BY <1>t
        <5> QED
          BY <4>3, <3>2, <5>1 DEF EntryRange
      <4> QED
        BY <3>2, <2>k, <4>1, <4>2, <4>3
    <3>3. ASSUME NEW p \in Reqs, NEW q \in Reqs, rpc'[p] \in Removing, rpc'[q] \in Removing, rop'[p] = rop'[q], rop'[q] # 0 PROVE p = q
      <4>1. CASE p # r /\ q # r
        BY <4>1, <3>3, <1>o, <2>0 DEF Apart
      <4>2. CASE p = r /\ q # r
        <5>1. rop'[q] = rop[q] /\ rpc[q] \in Removing
          BY <4>2, <3>3, <2>0 DEF Apart
        <5>2. rpc[r] \in Removing /\ rop'[r] = rop[r]
          BY <5>1, <4>2, <3>3, <2>k, <1>n DEF Owning
        <5> QED
          BY <5>1, <5>2, <4>2, <3>3, <1>o
      <4>3. CASE p # r /\ q = r
        <5>1. rop'[p] = rop[p] /\ rpc[p] \in Removing
          BY <4>3, <3>3, <2>0 DEF Apart
        <5>2. rpc[r] \in Removing /\ rop'[r] = rop[r]
          BY <5>1, <4>3, <3>3, <2>k, <1>n DEF Owning
        <5> QED
          BY <5>1, <5>2, <4>3, <3>3, <1>o
      <4> QED
        BY <4>1, <4>2, <4>3
    <3> QED
      BY <3>1, <3>2, <3>3, <1>w
  <2>p. ASSUME rpc'[r] \in {"new", "look", "repair", "reserve", "wait", "boot", "session", "begin", "begin2", "join", "halt", "shutdown",
                            "cleanup", "delete", "done"} \cup Booting PROVE OwnInv'
    BY <2>p, <2>k DEF Owning, Removing, Booting
  <2> USE DEF registry
  <2>1. CASE EnsureLoad(r) \/ EnsureLook(r) \/ EnsureSpawn(r) \/ Wait(r) \/ Boot(r)
    BY <2>1, <2>f, <2>p DEF EnsureLoad, EnsureLook, EnsureSpawn, Wait, Boot, Booting
  <2>2. CASE BootConfig(r) \/ BootKill(r) \/ BootWarm(r) \/ BootBuild(r) \/ BootPublish(r) \/ BootAbandon(r)
    BY <2>2, <2>f, <2>p DEF BootConfig, BootKill, BootWarm, BootBuild, BootPublish, BootAbandon, Booting
  <2>3. CASE AddStore(r) \/ AddSession(r) \/ AddWelcome(r) \/ RemoveDelete(r) \/ RemoveFinish(r) \/ RemoveRestore(r)
    BY <2>3, <2>f, <2>p DEF AddStore, AddSession, AddWelcome, RemoveDelete, RemoveFinish, RemoveRestore
  <2>4. CASE StopUnpublish(r) \/ StopRuntimes(r) \/ StopLoops(r) \/ IdleKill(r)
    BY <2>4, <2>f, <2>p DEF StopUnpublish, StopRuntimes, StopLoops, IdleKill
  <2>5. CASE EnsureReserve(r) \/ AddReserve(r)
    <3>1. PICK S : Reserve(r, rgen[r], S)
      BY <2>5 DEF EnsureReserve, AddReserve
    <3>2. rgen' = rgen /\ rpc[r] \in {"repair", "reserve"} /\ rpc'[r] \in {"spawn", "wait", "done", "welcome"}
      BY <2>5, <2>f DEF EnsureReserve, AddReserve
    <3>3. rgen[r] \in Gens
      <4>1. ReqRange(r) /\ rgen[r] \in 0..MaxGen
        BY <1>t DEF TypeOK
      <4> QED
        BY <4>1, <3>2, MemberAssumption, SMT DEF ReqRange, InSession, Gens
    <3>4. \/ rop'[r] = nextOp + 1
          \/ rop'[r] = 0
          \/ rop'[r] = entry[rgen[r]].op /\ entry' = entry
      BY <3>1, <2>v, RegistryForms
    <3> QED
      BY <3>2, <3>3, <3>4, <2>k DEF Removing
  <2>6. CASE RemoveLoad(r)
    <3>1. rop'[r] = 0
      <4>1. ReqRange(r)
        BY <1>t
      <4> QED
        BY <4>1, <2>6 DEF RemoveLoad, ReqRange
    <3> QED
      BY <3>1, <2>k
  <2>7. CASE RemoveBegin(r)
    <3>1. rgen' = rgen /\ (rop'[r] = nextOp + 1 \/ rop'[r] = 0 \/ rpc'[r] \in {"wait", "join"})
      BY <2>7, <2>f, <2>v DEF RemoveBegin, StartRemove
    <3> QED
      BY <3>1, <2>k, <2>p
  <2>8. CASE RemoveLoop(r) \/ RemoveKill(r) \/ RemovePersist(r)
    <3>1. rgen' = rgen /\ rop' = rop /\ rpc[r] \in Removing
      BY <2>8 DEF RemoveLoop, RemoveKill, RemovePersist, Removing
    <3> QED
      BY <3>1, <2>k
  <2>9. CASE RemoveCurrent(r)
    <3>1. rop' = rop /\ rpc[r] \in Removing /\ (rgen' = rgen \/ rpc'[r] = "begin2")
      BY <2>9, <2>f DEF RemoveCurrent, Removing
    <3> QED
      BY <3>1, <2>k, <2>p
  <2>10. CASE RemoveJoined(r)
    BY <2>10, <2>v, <2>k DEF RemoveJoined
  <2> QED
    BY <1>1, <2>1, <2>2, <2>3, <2>4, <2>5, <2>6, <2>7, <2>8, <2>9, <2>10 DEF Request
<1>2. ASSUME NEW op \in Ops, Attach(op) PROVE OwnInv'
  <2>1. UNCHANGED <<rpc, rgen, rop>>
    BY <1>2, <1>t, AttachApart DEF req
  <2>2. \A g \in Gens : entry'[g].op \in {0, entry[g].op}
    <3>1. ASSUME NEW g \in Gens PROVE entry'[g].op \in {0, entry[g].op}
      <4>1. \/ entry'[g] = entry[g]
            \/ /\ OwnsAttach(g, op)
               /\ entry'[g] = [st |-> "ready", op |-> 0] \/ entry'[g] = [st |-> "failed", op |-> op]
        BY <1>2, <1>t, AttachKeeps
      <4> QED
        BY <4>1 DEF OwnsAttach
    <3> QED
      BY <3>1
  <2> QED
    BY <2>1, <2>2, <1>o, <1>w
<1>3. CASE Vanish
  BY <1>3, <1>t DEF Vanish, OwnInv, req, registry
<1>4. ASSUME NEW r \in Reqs, Drop(r) PROVE OwnInv'
  <2>1. Apart(r) /\ UNCHANGED <<entry, rgen>> /\ rpc'[r] \notin Owning /\ rpc'[r] \notin Removing
    BY <1>4, <1>t, DropForm DEF Owning, Removing
  <2>2. ASSUME NEW q \in Reqs, rpc'[q] \in Owning, rop'[q] # 0, NEW g \in Gens, entry'[g].op = rop'[q] PROVE g = rgen'[q]
    BY <2>1, <2>2, <1>o DEF Apart
  <2>3. ASSUME NEW o \in Reqs, NEW q \in Reqs, rpc'[o] \in Removing, rpc'[q] \in Removing, rop'[o] = rop'[q], rop'[q] # 0 PROVE o = q
    <3>1. o # r /\ q # r
      BY <2>1, <2>3
    <3>2. rpc[o] \in Removing /\ rpc[q] \in Removing /\ rop[o] = rop[q] /\ rop[q] # 0
      BY <3>1, <2>1, <2>3 DEF Apart
    <3> QED
      BY <3>2, <1>o
  <2> QED
    BY <2>2, <2>3, <1>w
<1> QED
  BY <1>0, <1>1, <1>2, <1>3, <1>4 DEF Next

(* Only a failed write sends a removal to restore the entry. *)
LEMMA RestoreStep ==
    ASSUME SessionInv, [Next]_vars
    PROVE  RestoreInv'
<1>t. TypeOK /\ RestoreInv
  BY DEF SessionInv, TypeInv
<1>0. CASE UNCHANGED vars
  BY <1>0, <1>t DEF RestoreInv, vars, req
<1>k. ASSUME NEW r \in Reqs, Apart(r), faults \subseteq faults', rpc'[r] = "restore" => "db" \in faults' PROVE RestoreInv'
  BY <1>k, <1>t DEF RestoreInv, Apart
<1>1. ASSUME NEW r \in Reqs, Request(r) PROVE RestoreInv'
  <2>0. Apart(r) /\ faults \subseteq faults'
    BY <1>1, <1>t, RequestApart, RequestKeeps DEF Kept
  <2>f. \A pc : GoTo(r, pc) => rpc'[r] = pc
    BY <1>t DEF TypeOK, GoTo
  <2>1. CASE EnsureLoad(r) \/ EnsureLook(r) \/ EnsureReserve(r) \/ EnsureSpawn(r) \/ Wait(r) \/ Boot(r)
    <3>1. rpc'[r] # "restore"
      BY <2>1, <2>f DEF EnsureLoad, EnsureLook, EnsureReserve, EnsureSpawn, Wait, Boot
    <3> QED
      BY <3>1, <2>0, <1>k
  <2>2. CASE BootConfig(r) \/ BootKill(r) \/ BootWarm(r) \/ BootBuild(r) \/ BootPublish(r) \/ BootAbandon(r)
    <3>1. rpc'[r] # "restore"
      BY <2>2, <2>f DEF BootConfig, BootKill, BootWarm, BootBuild, BootPublish, BootAbandon
    <3> QED
      BY <3>1, <2>0, <1>k
  <2>3. CASE AddStore(r) \/ AddSession(r) \/ AddReserve(r) \/ AddWelcome(r)
    <3>1. rpc'[r] # "restore"
      BY <2>3, <2>f DEF AddStore, AddSession, AddReserve, AddWelcome
    <3> QED
      BY <3>1, <2>0, <1>k
  <2>4. CASE RemoveLoad(r) \/ RemoveBegin(r) \/ RemoveLoop(r) \/ RemoveKill(r) \/ RemoveRestore(r)
    <3>1. rpc'[r] # "restore"
      BY <2>4, <2>f DEF RemoveLoad, RemoveBegin, RemoveLoop, RemoveKill, RemoveRestore
    <3> QED
      BY <3>1, <2>0, <1>k
  <2>5. CASE RemovePersist(r)
    <3>1. rpc'[r] = "restore" => "db" \in faults'
      BY <2>5, <2>f DEF RemovePersist, Fault
    <3> QED
      BY <3>1, <2>0, <1>k
  <2>6. CASE RemoveCurrent(r) \/ RemoveJoined(r) \/ RemoveFinish(r) \/ RemoveDelete(r)
    <3>1. rpc'[r] # "restore"
      BY <2>6, <2>f DEF RemoveCurrent, RemoveJoined, RemoveFinish, RemoveDelete
    <3> QED
      BY <3>1, <2>0, <1>k
  <2>7. CASE StopUnpublish(r) \/ StopRuntimes(r) \/ StopLoops(r) \/ IdleKill(r)
    <3>1. rpc'[r] # "restore"
      BY <2>7, <2>f DEF StopUnpublish, StopRuntimes, StopLoops, IdleKill
    <3> QED
      BY <3>1, <2>0, <1>k
  <2> QED
    BY <1>1, <2>1, <2>2, <2>3, <2>4, <2>5, <2>6, <2>7 DEF Request
<1>2. ASSUME NEW op \in Ops, Attach(op) PROVE RestoreInv'
  BY <1>2, <1>t, AttachApart, AttachKeeps DEF RestoreInv, req
<1>3. CASE Vanish
  BY <1>3, <1>t DEF Vanish, Fault, RestoreInv, req
<1>4. ASSUME NEW r \in Reqs, Drop(r) PROVE RestoreInv'
  <2>1. Apart(r) /\ faults' = faults /\ rpc'[r] # "restore"
    BY <1>4, <1>t, DropForm
  <2> QED
    BY <2>1, <1>k
<1> QED
  BY <1>0, <1>1, <1>2, <1>3, <1>4 DEF Next

(* the sessions whose registry is about to be stopped *)
Halting == {rgen[r] : r \in {q \in Reqs : rpc[q] = "halt"}}

(* the operation of the entry of session g has the task that ends it *)
Attended(g) ==
    /\ entry[g].st = "attaching" =>
         \/ apc[entry[g].op].gen = g /\ apc[entry[g].op].pc \notin {"none", "stale", "publish"}
         \/ \E r \in Reqs : rgen[r] = g /\ rop[r] = entry[g].op /\ rpc[r] \in {"spawn", "welcome"}
         \/ Lost(entry[g].op, "db")
    /\ entry[g].st = "removing" =>
         \/ \E r \in Reqs : rgen[r] = g /\ rop[r] = entry[g].op /\ rpc[r] \in Removing
         \/ Lost(entry[g].op, "load")

(* the step leaves the operation o to nobody *)
Loses(o, f) == f \in faults' \/ \E q \in Reqs : rpc'[q] = "lost" /\ rop'[q] = o

(* An operation keeps its task when a request moves. *)
LEMMA AttendedByRequests ==
    ASSUME SessionInv, NEW r \in Reqs, Apart(r), Kept(r), rpc[r] \notin {"halt", "lost"},
           rpc[r] \in {"spawn", "welcome"} /\ rop[r] # 0 =>
               (apc'[rop[r]].gen = rgen[r] /\ apc'[rop[r]].pc = "config") \/ Loses(rop[r], "db"),
           rpc[r] \in Removing =>
               \/ rpc'[r] \in Removing /\ rop'[r] = rop[r] /\ rgen'[r] = rgen[r]
               \/ Loses(rop[r], "load")
               \/ \A g \in Gens \ Halting : rgen[r] = g /\ entry[g].st = "removing" /\ entry[g].op = rop[r] => entry'[g] # entry[g],
           \A g \in Gens : entry'[g] = entry[g] \/ entry'[g].st \notin {"attaching", "removing"} \/ Attended(g)'
    PROVE  NoOrphanOperation'
<1>0. /\ TypeOK /\ (\A g \in Gens : EntryRange(g)) /\ \A g \in Gens \ Halting : Attended(g)
  BY DEF SessionInv, TypeInv, RangeInv, NoOrphanOperation, Attended, Halting, Removing
<1>1. SUFFICES ASSUME NEW g \in Gens, g \notin Halting' PROVE Attended(g)'
  BY <1>1 DEF NoOrphanOperation, Attended, Halting, Removing
<1>2. g \notin Halting
  BY <1>1 DEF Halting, Apart
<1>3. Attended(g) /\ (entry'[g] = entry[g] \/ entry'[g].st \notin {"attaching", "removing"} \/ Attended(g)')
  BY <1>0, <1>2
<1>4. CASE entry'[g] = entry[g]
  <2> DEFINE op == entry[g].op
  <2>e. entry'[g].op = op
    BY <1>4
  <2>1. entry[g].st \in {"attaching", "removing"} => op # 0 /\ op \in Ops
    <3>1. EntryRange(g) /\ op \in 0..MaxOp
      BY <1>0 DEF TypeOK
    <3> QED
      BY <3>1, MemberAssumption, SMT DEF EntryRange, Ops
  <2>f. \A f : Lost(op, f) => Loses(op, f)
    <3>1. faults \subseteq faults'
      BY DEF Kept
    <3>2. \A q \in Reqs : rpc[q] = "lost" /\ rop[q] = op => rpc'[q] = "lost" /\ rop'[q] = op
      BY DEF Apart
    <3> QED
      BY <3>1, <3>2 DEF Lost, Loses
  <2>2. ASSUME entry[g].st = "attaching"
        PROVE  \/ apc'[op].gen = g /\ apc'[op].pc \notin {"none", "stale", "publish"}
               \/ \E q \in Reqs : rgen'[q] = g /\ rop'[q] = op /\ rpc'[q] \in {"spawn", "welcome"}
               \/ Loses(op, "db")
    <3>1. CASE apc[op].gen = g /\ apc[op].pc \notin {"none", "stale", "publish"}
      <4>1. \/ apc'[op] = apc[op]
            \/ op = rop[r] /\ apc'[op].pc = "config" /\ apc'[op].gen = rgen[r] /\ rpc[r] \in {"spawn", "welcome"} /\ rop[r] # 0
        BY <2>1, <2>2 DEF Kept
      <4>2. op = rop[r] /\ rpc[r] \in {"spawn", "welcome"} /\ rop[r] # 0 => g = rgen[r]
        BY DEF SessionInv, OwnInv
      <4> QED
        BY <3>1, <4>1, <4>2
    <3>2. ASSUME NEW q \in Reqs, rgen[q] = g, rop[q] = op, rpc[q] \in {"spawn", "welcome"}
          PROVE  \/ apc'[op].gen = g /\ apc'[op].pc \notin {"none", "stale", "publish"}
                 \/ \E p \in Reqs : rgen'[p] = g /\ rop'[p] = op /\ rpc'[p] \in {"spawn", "welcome"}
                 \/ Loses(op, "db")
      <4>1. CASE q = r
        BY <4>1, <3>2, <2>1, <2>2
      <4>2. CASE q # r
        BY <4>2, <3>2 DEF Apart
      <4> QED
        BY <4>1, <4>2
    <3> QED
      BY <1>3, <2>2, <2>f, <3>1, <3>2 DEF Attended
  <2>3. ASSUME entry[g].st = "removing"
        PROVE  \/ \E q \in Reqs : rgen'[q] = g /\ rop'[q] = op /\ rpc'[q] \in Removing
               \/ Loses(op, "load")
    <3>1. ASSUME NEW q \in Reqs, rgen[q] = g, rop[q] = op, rpc[q] \in Removing
          PROVE  \/ \E p \in Reqs : rgen'[p] = g /\ rop'[p] = op /\ rpc'[p] \in Removing
                 \/ Loses(op, "load")
      <4>1. CASE q = r
        <5>1. ~\A h \in Gens \ Halting : rgen[r] = h /\ entry[h].st = "removing" /\ entry[h].op = rop[r] => entry'[h] # entry[h]
          BY <4>1, <3>1, <2>3, <1>4, <1>2
        <5> QED
          BY <5>1, <4>1, <3>1
      <4>2. CASE q # r
        BY <4>2, <3>1 DEF Apart
      <4> QED
        BY <4>1, <4>2
    <3> QED
      BY <1>3, <2>3, <2>f, <3>1 DEF Attended
  <2> QED
    BY <1>4, <2>e, <2>2, <2>3 DEF Attended, Lost, Loses
<1> QED
  BY <1>3, <1>4 DEF Attended

(* No step leaves an operation without the task that ends it. *)
LEMMA OrphanStep ==
    ASSUME SessionInv, [Next]_vars
    PROVE  NoOrphanOperation'
<1>t. /\ TypeOK /\ BootInv /\ StopInv /\ OwnInv /\ (\A r \in Reqs : ReqRange(r)) /\ (\A g \in Gens : EntryRange(g))
      /\ \A g \in Gens \ Halting : Attended(g)
  BY DEF SessionInv, TypeInv, RangeInv, NoOrphanOperation, Attended, Halting, Removing
<1>w. ASSUME \A g \in Gens \ Halting' : Attended(g)' PROVE NoOrphanOperation'
  BY <1>w DEF NoOrphanOperation, Attended, Halting, Removing
<1>c. \A g \in Gens : entry[g].st # "absent" => g \notin closed
  BY <1>t DEF EntryRange
<1>p. \A h, st, op : Put(h, st, op) => \A g \in Gens : entry'[g] = IF g = h THEN [st |-> st, op |-> op] ELSE entry[g]
  BY <1>t, PutForm
<1>0. CASE UNCHANGED vars
  BY <1>0, <1>t, <1>w DEF Halting, Attended, Lost, vars, req, registry
<1>1. ASSUME NEW r \in Reqs, Request(r) PROVE NoOrphanOperation'
  <2>0. Apart(r) /\ Kept(r)
    BY <1>1, <1>t, RequestApart, RequestKeeps
  <2>f. \A pc : GoTo(r, pc) => rpc'[r] = pc
    BY <1>t DEF TypeOK, GoTo
  <2>v. \A v : rop' = [rop EXCEPT ![r] = v] => rop'[r] = v
    BY <1>t DEF TypeOK
  <2>g. rpc[r] \in InSession => rgen[r] \in Gens
    <3>1. ReqRange(r) /\ rgen[r] \in 0..MaxGen
      BY <1>t DEF TypeOK
    <3> QED
      BY <3>1, MemberAssumption, SMT DEF ReqRange, Gens
  <2>k. ASSUME rpc[r] \notin {"halt", "lost", "spawn", "welcome"} \cup Removing,
               \A g \in Gens : entry'[g] = entry[g] \/ entry'[g].st \notin {"attaching", "removing"} \/ Attended(g)'
        PROVE  NoOrphanOperation'
    BY <2>k, <2>0, AttendedByRequests
  <2>m. ASSUME rpc[r] \in Removing, entry' = entry, rpc'[r] \in Removing, UNCHANGED <<rgen, rop>>
        PROVE  NoOrphanOperation'
    <3>1. rpc[r] \notin {"halt", "lost"} /\ rpc[r] \notin {"spawn", "welcome"}
      BY <2>m DEF Removing
    <3> QED
      BY <3>1, <2>m, <2>0, AttendedByRequests
  <2> USE DEF registry
  <2>1. CASE EnsureLoad(r) \/ EnsureLook(r) \/ Wait(r) \/ Boot(r)
    <3>1. entry' = entry /\ rpc[r] \in {"new", "look", "wait", "boot"}
      BY <2>1 DEF EnsureLoad, EnsureLook, Wait, Boot
    <3> QED
      BY <3>1, <2>k DEF Removing
  <2>2. CASE BootConfig(r) \/ BootKill(r) \/ BootWarm(r) \/ BootBuild(r) \/ BootAbandon(r)
    <3>1. entry' = entry /\ rpc[r] \in Booting
      BY <2>2 DEF BootConfig, BootKill, BootWarm, BootBuild, BootAbandon, Booting
    <3> QED
      BY <3>1, <2>k DEF Removing, Booting
  <2>3. CASE BootPublish(r)
    <3>1. (entry' = entry \/ Put(rgen[r], "ready", 0)) /\ rpc[r] = "publish"
      BY <2>3 DEF BootPublish
    <3>2. \A g \in Gens : entry'[g] = entry[g] \/ entry'[g].st = "ready"
      <4>1. CASE Put(rgen[r], "ready", 0)
        <5>1. \A g \in Gens : entry'[g] = IF g = rgen[r] THEN [st |-> "ready", op |-> 0] ELSE entry[g]
          BY <4>1, <1>p
        <5> QED
          BY <5>1
      <4> QED
        BY <3>1, <4>1
    <3> QED
      BY <3>1, <3>2, <2>k DEF Removing
  <2>4. CASE AddStore(r) \/ AddSession(r) \/ RemoveLoad(r) \/ RemoveJoined(r) \/ RemoveDelete(r)
    <3>1. entry' = entry /\ rpc[r] \in {"new", "session", "join", "delete"}
      BY <2>4 DEF AddStore, AddSession, RemoveLoad, RemoveJoined, RemoveDelete
    <3> QED
      BY <3>1, <2>k DEF Removing
  <2>5. CASE StopUnpublish(r) \/ StopLoops(r) \/ IdleKill(r)
    <3>1. entry' = entry /\ rpc[r] \in {"new", "shutdown", "cleanup"}
      BY <2>5 DEF StopUnpublish, StopLoops, IdleKill
    <3> QED
      BY <3>1, <2>k DEF Removing
  <2>6. CASE EnsureReserve(r) \/ AddReserve(r)
    <3>1. PICK S : Reserve(r, rgen[r], S)
      BY <2>6 DEF EnsureReserve, AddReserve
    <3>2. /\ rgen' = rgen /\ rpc[r] \in {"repair", "reserve"}
          /\ (nextOp' # nextOp => rpc'[r] \in {"spawn", "welcome"})
      BY <2>6, <2>f DEF EnsureReserve, AddReserve
    <3>3. CASE entry' = entry
      BY <3>2, <3>3, <2>k DEF Removing
    <3>4. CASE nextOp' = nextOp + 1 /\ Put(rgen[r], "attaching", nextOp + 1) /\ rop' = [rop EXCEPT ![r] = nextOp + 1]
      <4>1. nextOp' # nextOp
        BY <3>4, <1>t, MemberAssumption, SMT DEF TypeOK
      <4>2. rpc'[r] \in {"spawn", "welcome"} /\ rop'[r] = nextOp + 1
        BY <4>1, <3>2, <3>4, <2>v
      <4>3. ASSUME NEW g \in Gens PROVE entry'[g] = entry[g] \/ Attended(g)'
        <5>1. entry'[g] = IF g = rgen[r] THEN [st |-> "attaching", op |-> nextOp + 1] ELSE entry[g]
          BY <3>4, <1>p
        <5> QED
          BY <5>1, <4>2, <3>2 DEF Attended
      <4> QED
        BY <4>3, <3>2, <2>k DEF Removing
    <3> QED
      BY <3>1, <3>3, <3>4, RegistryForms
  <2>7. CASE EnsureSpawn(r) \/ AddWelcome(r)
    <3>1. /\ entry' = entry /\ rpc[r] \in {"spawn", "welcome"}
          /\ \/ rop[r] # 0 /\ apc' = [apc EXCEPT ![rop[r]] = [NoTask EXCEPT !.pc = "config", !.gen = rgen[r]]]
             \/ rop[r] = 0
             \/ Fault("db")
      BY <2>7, <1>t DEF EnsureSpawn, AddWelcome
    <3>2. rop[r] # 0 => rop[r] \in Ops
      <4>1. rop[r] \in 0..MaxOp
        BY <1>t DEF TypeOK
      <4> QED
        BY <4>1, MemberAssumption, SMT DEF Ops
    <3>3. rop[r] # 0 => (apc'[rop[r]].gen = rgen[r] /\ apc'[rop[r]].pc = "config") \/ Loses(rop[r], "db")
      <4>1. CASE rop[r] # 0 /\ apc' = [apc EXCEPT ![rop[r]] = [NoTask EXCEPT !.pc = "config", !.gen = rgen[r]]]
        <5>1. SpawnedBy(r)
          <6>1. TypeOK /\ apc' = [apc EXCEPT ![rop[r]] = [NoTask EXCEPT !.pc = "config", !.gen = rgen[r]]]
            BY <4>1, <1>t
          <6> QED
            BY <6>1, SpawnForm
        <5> QED
          BY <5>1, <4>1, <3>2 DEF SpawnedBy
      <4>2. CASE Fault("db")
        BY <4>2 DEF Fault, Loses
      <4> QED
        BY <3>1, <4>1, <4>2
    <3>4. rpc[r] \notin {"halt", "lost"} /\ rpc[r] \notin Removing
      BY <3>1 DEF Removing
    <3> QED
      BY <3>1, <3>3, <3>4, <2>0, AttendedByRequests
  <2>8. CASE RemoveBegin(r)
    <3>1. rgen' = rgen /\ rpc[r] \in {"begin", "begin2"}
      BY <2>8 DEF RemoveBegin
    <3>2. CASE entry' = entry
      BY <3>1, <3>2, <2>k DEF Removing
    <3>3. CASE StartRemove(r, rgen[r]) /\ rpc'[r] \in {"unloop", "unloop2"}
      <4>1. Put(rgen[r], "removing", nextOp + 1) /\ rop'[r] = nextOp + 1
        BY <3>3, <2>v DEF StartRemove
      <4>2. ASSUME NEW g \in Gens PROVE entry'[g] = entry[g] \/ Attended(g)'
        <5>1. entry'[g] = IF g = rgen[r] THEN [st |-> "removing", op |-> nextOp + 1] ELSE entry[g]
          BY <4>1, <1>p
        <5> QED
          BY <5>1, <4>1, <3>1, <3>3 DEF Attended, Removing
      <4> QED
        BY <4>2, <3>1, <2>k DEF Removing
    <3> QED
      BY <2>8, <2>f, <3>2, <3>3 DEF RemoveBegin
  <2>9. CASE RemoveLoop(r) \/ RemoveKill(r)
    <3>1. entry' = entry /\ rpc[r] \in Removing /\ rpc'[r] \in Removing /\ UNCHANGED <<rgen, rop>>
      BY <2>9, <2>f DEF RemoveLoop, RemoveKill, Removing
    <3> QED
      BY <3>1, <2>m
  <2>10. CASE RemovePersist(r) \/ RemoveRestore(r) \/ RemoveFinish(r)
    <3>1. /\ UNCHANGED <<rgen, rop>> /\ rpc[r] \in {"persist", "restore", "finish"} /\ rpc[r] \in Removing
          /\ \/ entry' = entry /\ rpc'[r] \in {"current", "restore"}
             \/ \E st \in {"absent", "failed"} : EndRemove(rgen[r], rop[r], st)
             \/ entry' = entry /\ Fault("load")
      BY <2>10, <2>f DEF RemovePersist, RemoveRestore, RemoveFinish, Removing
    <3>2. CASE entry' = entry /\ rpc'[r] \in {"current", "restore"}
      BY <3>1, <3>2, <2>m DEF Removing
    <3>3. CASE entry' = entry /\ Fault("load")
      <4>1. Loses(rop[r], "load")
        BY <3>3 DEF Fault, Loses
      <4> QED
        BY <3>1, <3>3, <4>1, <2>0, AttendedByRequests
    <3>4. ASSUME NEW st \in {"absent", "failed"}, EndRemove(rgen[r], rop[r], st) PROVE NoOrphanOperation'
      <4>1. \/ Put(rgen[r], st, IF st = "absent" THEN 0 ELSE rop[r])
            \/ ~(rop[r] # 0 /\ rgen[r] \notin closed /\ entry[rgen[r]] = [st |-> "removing", op |-> rop[r]]) /\ entry' = entry
        BY <3>4, RegistryForms
      <4> DEFINE o == IF st = "absent" THEN 0 ELSE rop[r]
      <4>5. ASSUME Put(rgen[r], st, o), NEW g \in Gens PROVE entry'[g] = IF g = rgen[r] THEN [st |-> st, op |-> o] ELSE entry[g]
        <5> HIDE DEF o
        <5> QED
          BY <4>5, <1>p
      <4>2. \A g \in Gens : entry'[g] = entry[g] \/ (g = rgen[r] /\ entry'[g].st = st)
        <5>1. CASE Put(rgen[r], st, o)
          <6> HIDE DEF o
          <6> QED
            BY <4>5, <5>1
        <5> QED
          BY <4>1, <5>1
      <4>3. ASSUME NEW g \in Gens, rgen[r] = g, entry[g].st = "removing", entry[g].op = rop[r] PROVE entry'[g] # entry[g]
        <5>1. entry[g] = [st |-> "removing", op |-> rop[r]]
          BY <4>3, <1>t DEF TypeOK
        <5>2. rop[r] # 0 /\ g \notin closed
          <6>1. EntryRange(g)
            BY <1>t
          <6> QED
            BY <6>1, <4>3 DEF EntryRange
        <5>3. Put(rgen[r], st, o)
          BY <5>1, <5>2, <4>1, <4>3
        <5> HIDE DEF o
        <5>4. entry'[g].st = st
          BY <5>3, <4>3, <4>5
        <5> QED
          BY <5>4, <4>3
      <4>4. \A g \in Gens : entry'[g] = entry[g] \/ entry'[g].st \notin {"attaching", "removing"}
        BY <4>2
      <4> QED
        BY <3>1, <4>3, <4>4, <2>0, AttendedByRequests
    <3> QED
      BY <3>1, <3>2, <3>3, <3>4
  <2>11. CASE RemoveCurrent(r)
    <3>1. entry' = entry /\ rop' = rop /\ rpc[r] = "current"
      BY <2>11 DEF RemoveCurrent
    <3>2. CASE rpc'[r] = "unloop2" /\ rgen' = rgen
      BY <3>1, <3>2, <2>m DEF Removing
    <3>3. CASE published # rgen[r] \/ rgen[r] = 0
      <4>1. ASSUME NEW g \in Gens \ Halting, rgen[r] = g, entry[g].st = "removing" PROVE FALSE
        <5>0. 0 \notin Gens
          BY SMT DEF Gens
        <5>1. EntryRange(g) /\ g # published
          BY <1>t, <4>1, <3>3, <5>0
        <5>2. g \in 1..gens /\ g \notin closed
          BY <5>1, <4>1, <1>t, MemberAssumption, SMT DEF EntryRange, TypeOK, Gens
        <5>3. Known(g)
          BY <5>2, <1>t DEF StopInv
        <5>4. g \notin loopsClosed
          BY <5>2, <1>t DEF TypeOK
        <5>5. ~\E q \in Reqs : rgen[q] = g /\ rpc[q] = "halt"
          BY <4>1 DEF Halting
        <5>6. ~\E q \in Reqs : rgen[q] = g /\ rpc[q] \in Booting
          BY <4>1, <1>t DEF BootInv, Private
        <5> QED
          BY <5>1, <5>2, <5>3, <5>4, <5>5, <5>6 DEF Known
      <4>2. rpc[r] \notin {"halt", "lost"} /\ rpc[r] \notin {"spawn", "welcome"}
        BY <3>1
      <4> QED
        BY <3>1, <4>1, <4>2, <2>0, AttendedByRequests
    <3> QED
      BY <2>11, <2>f, <3>2, <3>3 DEF RemoveCurrent
  <2>12. CASE StopRuntimes(r)
    <3>1. UNCHANGED <<apc, rgen, rop, faults>> /\ Put(rgen[r], "absent", 0) /\ rpc[r] = "halt"
      BY <2>12 DEF StopRuntimes, StopRegistry, NoFault
    <3>2. ASSUME NEW g \in Gens \ Halting' PROVE Attended(g)'
      <4>1. entry'[g] = IF g = rgen[r] THEN [st |-> "absent", op |-> 0] ELSE entry[g]
        BY <3>1, <1>p
      <4>2. CASE g = rgen[r]
        BY <4>1, <4>2 DEF Attended
      <4>3. CASE g # rgen[r]
        <5>1. g \notin Halting
          BY <3>2, <4>3, <3>1, <2>0 DEF Halting, Apart
        <5>2. Attended(g) /\ entry'[g] = entry[g]
          BY <5>1, <4>1, <4>3, <1>t
        <5>3. \A o, f : Lost(o, f) => Lost(o, f)'
          BY <3>1, <2>0 DEF Lost, Apart
        <5> QED
          BY <5>2, <5>3, <4>3, <3>1, <2>0 DEF Attended, Apart, Lost
      <4> QED
        BY <4>2, <4>3
    <3> QED
      BY <3>2, <1>w
  <2> QED
    BY <1>1, <2>1, <2>2, <2>3, <2>4, <2>5, <2>6, <2>7, <2>8, <2>9, <2>10, <2>11, <2>12 DEF Request
<1>2. ASSUME NEW op \in Ops, Attach(op) PROVE NoOrphanOperation'
  <2>1. UNCHANGED <<published, closed, req>> /\ (\A o \in Ops \ {op} : apc'[o] = apc[o]) /\ apc[op].pc # "none"
    BY <1>2, <1>t, AttachApart
  <2>2. /\ faults \subseteq faults'
        /\ \A g \in Gens : \/ entry'[g] = entry[g]
                           \/ entry'[g].st \in {"ready", "failed"}
    <3>1. /\ faults \subseteq faults'
          /\ \A g \in Gens : \/ entry'[g] = entry[g]
                             \/ entry'[g] = [st |-> "ready", op |-> 0] \/ entry'[g] = [st |-> "failed", op |-> op]
      BY <1>2, <1>t, AttachKeeps
    <3> QED
      BY <3>1
  <2>3. ASSUME NEW g \in Gens \ Halting' PROVE Attended(g)'
    <3>1. Attended(g)
      BY <2>3, <2>1, <1>t DEF Halting, req
    <3>2. CASE entry'[g] = entry[g] /\ entry[g].st = "attaching"
      <4>1. CASE apc[entry[g].op].gen = g /\ apc[entry[g].op].pc \notin {"none", "stale", "publish"}
        <5>1. CASE entry[g].op # op
          <6>1. entry[g].op \in Ops
            <7>1. EntryRange(g) /\ entry[g].op \in 0..MaxOp
              BY <1>t DEF TypeOK
            <7> QED
              BY <7>1, <3>2, MemberAssumption, SMT DEF EntryRange, Ops
          <6> QED
            BY <6>1, <5>1, <4>1, <3>2, <2>1 DEF Attended
        <5>2. CASE entry[g].op = op
          <6>1. OwnsAttach(apc[op].gen, op)
            BY <5>2, <4>1, <3>2, <1>c, <1>t DEF OwnsAttach, TypeOK
          <6>2. apc'[op].gen = g /\ apc'[op].pc \notin {"none", "stale", "publish"}
            <7>1. apc \in [Ops -> [pc : TaskPcs, gen : 0..MaxGen, cfg : 0..MaxGen, loop : BOOLEAN]] /\ apc[op].pc \notin {"none", "stale", "publish"}
              BY <4>1, <5>2, <1>t DEF TypeOK, TaskPcs
            <7>2. CASE AttachConfig(op) \/ AttachKill(op) \/ AttachWarm(op) \/ AttachBuild(op) \/ AttachCheck(op)
              BY <7>2, <7>1, <6>1, <5>2, <4>1 DEF AttachConfig, AttachKill, AttachWarm, AttachBuild, AttachCheck, Step
            <7>3. CASE AttachRegister(op)
              BY <7>3, <7>1, <5>2, <4>1 DEF AttachRegister, Step
            <7>4. CASE AttachCommit(op) \/ AttachFail(op)
              <8>1. \E st \in {"ready", "failed"} : Put(g, st, IF st = "ready" THEN 0 ELSE op)
                BY <7>4, <6>1, <5>2, <4>1, RegistryForms DEF AttachCommit, AttachFail
              <8>2. entry'[g].st \in {"ready", "failed"}
                BY <8>1, <1>t DEF Put, TypeOK
              <8> QED
                BY <8>2, <3>2
            <7>5. CASE AttachPublish(op) \/ AttachUnloop(op) \/ AttachCleanup(op)
              <8>1. Step(op, "failed")
                BY <7>5, <7>1 DEF AttachPublish, AttachUnloop, AttachCleanup, Task
              <8> QED
                BY <8>1, <7>1, <5>2, <4>1 DEF Step
            <7> QED
              BY <1>2, <7>2, <7>3, <7>4, <7>5 DEF Attach
          <6> QED
            BY <6>2, <5>2, <3>2 DEF Attended
        <5> QED
          BY <5>1, <5>2
      <4>2. CASE \E r \in Reqs : rgen[r] = g /\ rop[r] = entry[g].op /\ rpc[r] \in {"spawn", "welcome"}
        BY <4>2, <3>2, <2>1 DEF Attended, req
      <4>3. CASE Lost(entry[g].op, "db")
        <5>1. "db" \in faults' \/ \E r \in Reqs : rpc'[r] = "lost" /\ rop'[r] = entry'[g].op
          BY <4>3, <3>2, <2>1, <2>2 DEF Lost, req
        <5> QED
          BY <5>1, <3>2 DEF Attended, Lost
      <4> QED
        BY <4>1, <4>2, <4>3, <3>1, <3>2 DEF Attended
    <3>3. CASE entry'[g] = entry[g] /\ entry[g].st # "attaching"
      <4>1. UNCHANGED <<rpc, rop, rgen>> /\ faults \subseteq faults'
        BY <2>1, <2>2 DEF req
      <4>2. CASE \E r \in Reqs : rgen[r] = g /\ rop[r] = entry[g].op /\ rpc[r] \in Removing
        <5>1. \E r \in Reqs : rgen'[r] = g /\ rop'[r] = entry'[g].op /\ rpc'[r] \in Removing
          BY <4>1, <4>2, <3>3
        <5> QED
          BY <5>1, <3>3 DEF Attended
      <4>3. CASE Lost(entry[g].op, "load")
        <5>1. "load" \in faults' \/ \E r \in Reqs : rpc'[r] = "lost" /\ rop'[r] = entry'[g].op
          BY <4>1, <4>3, <3>3 DEF Lost
        <5> QED
          BY <5>1, <3>3 DEF Attended, Lost
      <4>4. CASE entry[g].st # "removing"
        BY <4>4, <3>3 DEF Attended
      <4> QED
        BY <4>2, <4>3, <4>4, <3>1 DEF Attended
    <3>4. CASE entry'[g].st \in {"ready", "failed"}
      BY <3>4 DEF Attended
    <3> QED
      BY <2>2, <3>2, <3>3, <3>4
  <2> QED
    BY <2>3, <1>w
<1>3. CASE Vanish
  <2>1. UNCHANGED <<entry, apc, req>> /\ faults \subseteq faults'
    BY <1>3 DEF Vanish, Fault, registry
  <2>l. \A o, f : Lost(o, f) => Lost(o, f)'
    BY <2>1 DEF Lost, req
  <2>2. ASSUME NEW g \in Gens \ Halting' PROVE Attended(g)'
    <3>1. Attended(g)
      BY <2>1, <2>2, <1>t DEF Halting, req
    <3> QED
      BY <2>1, <2>l, <3>1 DEF Attended, Lost, req
  <2> QED
    BY <2>2, <1>w
<1>4. ASSUME NEW r \in Reqs, Drop(r) PROVE NoOrphanOperation'
  <2>1. /\ Apart(r) /\ Kept(r) /\ UNCHANGED <<entry, rgen, apc>> /\ rpc[r] \in Awaiting
        /\ Owns(r) => rop'[r] = rop[r] /\ rpc'[r] = "lost"
    BY <1>4, <1>t, DropForm, DropKeeps DEF Undone
  <2>2. rpc[r] \notin {"halt", "lost"}
    BY <2>1 DEF Awaiting, Booting
  <2>3. \A f : Owns(r) => Loses(rop[r], f)
    BY <2>1 DEF Loses
  <2>4. rpc[r] \in {"spawn", "welcome"} /\ rop[r] # 0 => Owns(r)
    BY DEF Owns
  <2>5. rpc[r] \in Removing /\ rop[r] # 0 => Owns(r)
    BY <2>1 DEF Owns, Removing, Awaiting, Booting
  <2>6. \A g \in Gens : entry[g].st = "removing" => entry[g].op # 0
    BY <1>t DEF EntryRange
  <2> QED
    BY <2>1, <2>2, <2>3, <2>4, <2>5, <2>6, AttendedByRequests
<1> QED
  BY <1>0, <1>1, <1>2, <1>3, <1>4 DEF Next

-----------------------------------------------------------------------------
(* The sessions and operations of a team *)

(* Requests, tasks and entries name sessions and operations that exist, a  *)
(* session is private until it is published and stopped once it leaves the *)
(* map, and every operation has one session and the task that ends it.     *)
THEOREM SessionsAreOwned == Spec => []SessionInv
<1>1. Init => SessionInv
  <2> SUFFICES ASSUME Init PROVE SessionInv
    OBVIOUS
  <2>1. MaxGen \in Nat /\ MaxOp \in Nat /\ 0 \in 0..MaxGen /\ 0 \in 0..MaxOp /\ 1..0 = {} /\ 0 \in 0..0
    BY MemberAssumption, SMT
  <2>2. scn.stored \in BOOLEAN
    BY MemberAssumption DEF Init, Workloads
  <2>3. NoTask \in [pc : TaskPcs, gen : 0..MaxGen, cfg : 0..MaxGen, loop : BOOLEAN]
    BY <2>1 DEF NoTask, TaskPcs
  <2>4. TypeInv
    BY <2>1, <2>2, <2>3 DEF Init, TypeInv, TypeOK, NoProc, TaskPcs
  <2>5. RangeInv
    <3>1. \A r \in Reqs : ReqRange(r)
      <4>1. ASSUME NEW r \in Reqs PROVE ReqRange(r)
        <5>1. rpc[r] = "new" /\ rgen[r] = 0 /\ rop[r] = 0 /\ gens = 0 /\ nextOp = 0
          BY DEF Init
        <5> QED
          BY <5>1, <2>1 DEF ReqRange, InSession, Booting
      <4> QED
        BY <4>1
    <3>2. \A op \in Ops : TaskRange(op)
      BY <2>1 DEF Init, TaskRange, NoTask
    <3>3. \A g \in Gens : EntryRange(g)
      BY <2>1, SMT DEF Init, EntryRange
    <3> QED
      BY <3>1, <3>2, <3>3 DEF RangeInv
  <2>6. HoldInv /\ BootInv
    BY DEF Init, HoldInv, BootInv, Holding, Booting
  <2>7. StopInv /\ OwnInv /\ RestoreInv
    BY <2>1 DEF Init, StopInv, OwnInv, Removing, RestoreInv
  <2>8. NoOrphanOperation
    BY DEF Init, NoOrphanOperation
  <2> QED
    BY <2>4, <2>5, <2>6, <2>7, <2>8 DEF SessionInv
<1>2. SessionInv /\ [Next]_vars => SessionInv'
  BY TypeStep, RangeStep, HoldStep, BootStep, StopStep, OwnStep, RestoreStep, OrphanStep DEF SessionInv
<1> QED
  BY <1>1, <1>2, PTL DEF Spec

(* Type correctness. *)
THEOREM TypesCorrect == Spec => []TypeOK
<1>1. SessionInv => TypeOK
  BY DEF SessionInv, TypeInv
<1> QED
  BY <1>1, SessionsAreOwned, PTL

(* No operation of a member registry is left without the request or the    *)
(* attach task that ends it, unless the handler of its own request was     *)
(* dropped or an error return lost it.                                     *)
THEOREM OperationsAreEnded == Spec => []NoOrphanOperation
<1>1. SessionInv => NoOrphanOperation
  BY DEF SessionInv
<1> QED
  BY <1>1, SessionsAreOwned, PTL

-----------------------------------------------------------------------------
(* The row, the entry and the loop *)

(* what a step of request r may do to the row, the map, the loops and the entries *)
Moved(r) ==
    /\ \/ stored' = stored
       \/ rpc[r] = "persist" /\ mem = Free /\ stored' = FALSE /\ rpc'[r] = "current"
       \/ rpc[r] = "new" /\ Kind(r) = "add" /\ mem = Free /\ stored = FALSE /\ stored' = TRUE /\ rpc'[r] = "session"
    /\ \/ published' = published
       \/ rpc[r] = "new" /\ published' = 0
       \/ rpc[r] = "publish" /\ published' = rgen[r]
    /\ \/ looping' = looping
       \/ rpc[r] \in {"unloop", "unloop2", "shutdown"} /\ looping' = looping \ {rgen[r]} /\ entry' = entry
       \/ rpc[r] = "publish" /\ stored = TRUE /\ looping' = looping \cup {rgen[r]} /\ published' = rgen[r]
    /\ \A g \in Gens :
          \/ entry'[g] = entry[g] /\ (rpc[r] = "publish" => g # rgen[r] \/ stored = FALSE)
          \/ /\ g = rgen[r]
             /\ \/ /\ rpc[r] \in {"repair", "reserve"} /\ entry[g].st \in {"absent", "ready", "failed"}
                   /\ entry'[g] = [st |-> "attaching", op |-> nextOp + 1] /\ rop'[r] = nextOp + 1 /\ rgen'[r] = g
                   /\ rpc'[r] \in {"spawn", "welcome"}
                \/ /\ rpc[r] \in {"begin", "begin2"} /\ entry[g].st \in {"attaching", "ready", "failed"}
                   /\ entry'[g] = [st |-> "removing", op |-> nextOp + 1] /\ rop'[r] = nextOp + 1 /\ rgen'[r] = g
                \/ rpc[r] = "finish" /\ entry[g] = [st |-> "removing", op |-> rop[r]] /\ entry'[g] = [st |-> "absent", op |-> 0]
                \/ rpc[r] = "halt" /\ entry'[g] = [st |-> "absent", op |-> 0]
                \/ rpc[r] = "publish" /\ stored = TRUE /\ entry'[g] = [st |-> "ready", op |-> 0] /\ g \in looping'

(* While no read or write fails, a request changes the row, the map, the loops and the entries in these ways only. *)
LEMMA RequestMoves ==
    ASSUME TypeOK, NEW r \in Reqs, Request(r), rpc[r] # "restore", Sound'
    PROVE  Moved(r)
<1>s. ~Fault("db") /\ ~Fault("load") /\ stored \in BOOLEAN
  BY DEF Sound, Fault, TypeOK
<1>p. \A h, st, op : Put(h, st, op) => \A g \in Gens : entry'[g] = IF g = h THEN [st |-> st, op |-> op] ELSE entry[g]
  BY PutForm
<1>f. \A pc : GoTo(r, pc) => rpc'[r] = pc
  BY DEF TypeOK, GoTo
<1>v. \A v : rop' = [rop EXCEPT ![r] = v] => rop'[r] = v
  BY DEF TypeOK
<1>k. ASSUME UNCHANGED <<stored, published, looping, entry>>, rpc[r] # "publish" PROVE Moved(r)
  BY <1>k DEF Moved
<1> USE DEF conv, registry, evloops
<1>1. CASE EnsureLoad(r) \/ EnsureLook(r) \/ EnsureSpawn(r) \/ Wait(r) \/ Boot(r)
  BY <1>1, <1>k DEF EnsureLoad, EnsureLook, EnsureSpawn, Wait, Boot
<1>2. CASE BootConfig(r) \/ BootKill(r) \/ BootWarm(r) \/ BootBuild(r) \/ BootAbandon(r)
  BY <1>2, <1>k DEF BootConfig, BootKill, BootWarm, BootBuild, BootAbandon
<1>3. CASE AddSession(r) \/ AddWelcome(r) \/ RemoveLoad(r) \/ RemoveKill(r) \/ RemoveCurrent(r) \/ RemoveJoined(r) \/ RemoveDelete(r) \/ IdleKill(r)
  BY <1>3, <1>k DEF AddSession, AddWelcome, RemoveLoad, RemoveKill, RemoveCurrent, RemoveJoined, RemoveDelete, IdleKill
<1>4. CASE AddStore(r)
  <2>1. UNCHANGED <<published, looping, entry>> /\ rpc[r] = "new" /\ Kind(r) = "add" /\ mem = Free /\ ~stored /\ stored' = TRUE /\ rpc'[r] = "session"
    BY <1>4, <1>f DEF AddStore
  <2> QED
    BY <2>1, <1>s DEF Moved
<1>5. CASE RemoveLoop(r) \/ StopLoops(r)
  <2>1. UNCHANGED <<stored, published, entry>> /\ rpc[r] \in {"unloop", "unloop2", "shutdown"} /\ looping' = looping \ {rgen[r]}
    BY <1>5 DEF RemoveLoop, StopLoops
  <2> QED
    BY <2>1 DEF Moved
<1>6. CASE StopUnpublish(r)
  BY <1>6 DEF StopUnpublish, Moved
<1>7. CASE RemovePersist(r)
  <2>1. UNCHANGED <<published, looping, entry>> /\ rpc[r] = "persist" /\ mem = Free /\ stored' = FALSE /\ rpc'[r] = "current"
    BY <1>7, <1>f, <1>s DEF RemovePersist
  <2> QED
    BY <2>1 DEF Moved
<1>8. CASE StopRuntimes(r)
  <2>1. UNCHANGED <<stored, published, looping>> /\ rpc[r] = "halt" /\ Put(rgen[r], "absent", 0)
    BY <1>8 DEF StopRuntimes, StopRegistry
  <2>2. \A g \in Gens : entry'[g] = IF g = rgen[r] THEN [st |-> "absent", op |-> 0] ELSE entry[g]
    BY <2>1, <1>p
  <2> QED
    BY <2>1, <2>2 DEF Moved
<1>9. CASE RemoveFinish(r)
  <2>1. UNCHANGED <<stored, published, looping>> /\ rpc[r] = "finish" /\ EndRemove(rgen[r], rop[r], "absent")
    BY <1>9 DEF RemoveFinish
  <2>2. entry' = entry \/ (entry[rgen[r]] = [st |-> "removing", op |-> rop[r]] /\ Put(rgen[r], "absent", 0))
    BY <2>1 DEF EndRemove
  <2>3. CASE entry' = entry
    BY <2>1, <2>3, <1>k
  <2>4. CASE entry[rgen[r]] = [st |-> "removing", op |-> rop[r]] /\ Put(rgen[r], "absent", 0)
    <3>1. \A g \in Gens : entry'[g] = IF g = rgen[r] THEN [st |-> "absent", op |-> 0] ELSE entry[g]
      BY <2>4, <1>p
    <3> QED
      BY <2>1, <2>4, <3>1 DEF Moved
  <2> QED
    BY <2>2, <2>3, <2>4
<1>10. CASE BootPublish(r)
  <2>1. UNCHANGED stored /\ rpc[r] = "publish" /\ published' = rgen[r]
    BY <1>10 DEF BootPublish
  <2>2. CASE stored = FALSE
    <3>1. UNCHANGED <<looping, entry>>
      BY <1>10, <2>2 DEF BootPublish
    <3> QED
      BY <2>1, <2>2, <3>1 DEF Moved
  <2>3. CASE stored = TRUE
    <3>1. looping' = looping \cup {rgen[r]} /\ Put(rgen[r], "ready", 0)
      BY <1>10, <2>3 DEF BootPublish
    <3>2. \A g \in Gens : entry'[g] = IF g = rgen[r] THEN [st |-> "ready", op |-> 0] ELSE entry[g]
      BY <3>1, <1>p
    <3> QED
      BY <2>1, <2>3, <3>1, <3>2 DEF Moved
  <2> QED
    BY <2>2, <2>3, <1>s
<1>11. CASE RemoveBegin(r)
  <2>1. UNCHANGED <<stored, published, looping, rgen>> /\ rpc[r] \in {"begin", "begin2"}
    BY <1>11 DEF RemoveBegin
  <2>2. entry' = entry \/ (BeginRemoveStarts(rgen[r]) /\ StartRemove(r, rgen[r]))
    BY <1>11 DEF RemoveBegin
  <2>3. CASE entry' = entry
    BY <2>1, <2>3, <1>k
  <2>4. CASE BeginRemoveStarts(rgen[r]) /\ StartRemove(r, rgen[r])
    <3>1. Put(rgen[r], "removing", nextOp + 1) /\ rop'[r] = nextOp + 1 /\ entry[rgen[r]].st \in {"attaching", "ready", "failed"}
      BY <2>4, <1>v DEF BeginRemoveStarts, StartRemove
    <3>2. \A g \in Gens : entry'[g] = IF g = rgen[r] THEN [st |-> "removing", op |-> nextOp + 1] ELSE entry[g]
      BY <3>1, <1>p
    <3> QED
      BY <2>1, <3>1, <3>2 DEF Moved
  <2> QED
    BY <2>2, <2>3, <2>4
<1>12. CASE EnsureReserve(r) \/ AddReserve(r)
  <2>1. PICK S : Reserve(r, rgen[r], S) /\ S \subseteq {"absent", "ready", "failed"}
    BY <1>12 DEF EnsureReserve, AddReserve
  <2>2. UNCHANGED <<stored, published, looping, rgen>> /\ rpc[r] \in {"repair", "reserve"} /\ (nextOp' # nextOp => rpc'[r] \in {"spawn", "welcome"})
    BY <1>12, <1>f DEF EnsureReserve, AddReserve
  <2>3. CASE entry' = entry
    BY <2>2, <2>3, <1>k
  <2>4. CASE nextOp' = nextOp + 1 /\ Put(rgen[r], "attaching", nextOp + 1) /\ rop' = [rop EXCEPT ![r] = nextOp + 1] /\ entry[rgen[r]].st \in S
    <3>1. nextOp' # nextOp
      BY <2>4, MemberAssumption, SMT DEF TypeOK
    <3>2. \A g \in Gens : entry'[g] = IF g = rgen[r] THEN [st |-> "attaching", op |-> nextOp + 1] ELSE entry[g]
      BY <2>4, <1>p
    <3>3. rop'[r] = nextOp + 1 /\ rpc'[r] \in {"spawn", "welcome"} /\ entry[rgen[r]].st \in {"absent", "ready", "failed"}
      BY <2>1, <2>2, <2>4, <3>1, <1>v
    <3> QED
      BY <2>2, <3>2, <3>3 DEF Moved
  <2> QED
    BY <2>1, <2>3, <2>4, RegistryForms
<1> QED
  BY <1>1, <1>2, <1>3, <1>4, <1>5, <1>6, <1>7, <1>8, <1>9, <1>10, <1>11, <1>12 DEF Request, RemoveRestore

(* the steps between the program points of a request that the invariant names *)
Stays(r) == rgen'[r] = rgen[r] /\ rop'[r] = rop[r]
CameAttach(r) ==
    /\ rpc'[r] # "new"
    /\ rpc'[r] = "look" => rpc[r] = "new" /\ stored /\ mem = Free /\ rgen'[r] = published
    /\ rpc'[r] = "repair" => rpc[r] = "look" /\ Stays(r)
    /\ rpc'[r] = "reserve" => (rpc[r] = "look" /\ Stays(r)) \/ (rpc[r] = "session" /\ rgen'[r] = published)
    /\ rpc'[r] = "session" => rpc[r] = "new" /\ stored' = TRUE
    /\ rpc'[r] = "welcome" => rpc[r] = "reserve" /\ Kind(r) = "add"
    /\ rpc'[r] = "spawn" => /\ rpc[r] \in {"repair", "reserve"} /\ Kind(r) = "ensure"
                            /\ rgen'[r] = rgen[r] /\ rop'[r] = nextOp + 1 /\ Put(rgen[r], "attaching", nextOp + 1)
    /\ rpc'[r] = "wait" => rpc[r] \in {"repair", "spawn", "begin"} \/ (rpc[r] = "reserve" /\ Kind(r) = "ensure")
    /\ rpc[r] = "session" => rpc'[r] = "reserve" \/ (rpc'[r] = "done" /\ published = 0)
    /\ rpc[r] = "reserve" /\ Kind(r) = "add" =>
          /\ rpc'[r] = "welcome" /\ rgen'[r] = rgen[r]
          /\ \/ rgen[r] \in closed /\ rop'[r] = 0
             \/ rgen[r] \notin closed /\ entry[rgen[r]].st = "absent" /\ rop'[r] = nextOp + 1 /\ Put(rgen[r], "attaching", nextOp + 1)
             \/ rgen[r] \notin closed /\ entry[rgen[r]].st # "absent"
CameRemove(r) ==
    /\ rpc'[r] = "begin" => rpc[r] = "new" /\ stored /\ mem = Free
    /\ rpc'[r] = "unloop" => /\ rpc[r] = "begin" /\ rgen'[r] = rgen[r]
                             /\ \/ rgen[r] \in closed \/ entry[rgen[r]].st = "absent"
                                \/ Put(rgen[r], "removing", nextOp + 1) /\ rop'[r] = nextOp + 1
    /\ rpc'[r] = "stopruntime" => (rpc[r] = "unloop" /\ Stays(r)) \/ (rpc[r] = "new" /\ stored /\ mem = Free /\ rgen'[r] = 0)
    /\ rpc'[r] = "persist" => rpc[r] = "stopruntime" /\ Stays(r)
    /\ rpc'[r] = "current" => rpc[r] = "persist" /\ Stays(r) /\ stored' = FALSE
    /\ rpc'[r] = "begin2" => rpc[r] = "current" /\ rgen'[r] = published
    /\ rpc'[r] = "join" => rpc[r] = "begin2" /\ rgen'[r] = rgen[r] /\ entry' = entry /\ entry[rgen[r]].st = "removing"
    /\ rpc'[r] = "unloop2" =>
          /\ rgen'[r] = rgen[r]
          /\ \/ rpc[r] = "join"
             \/ rpc[r] = "current" /\ rop'[r] = rop[r] /\ entry' = entry
             \/ /\ rpc[r] = "begin2"
                /\ \/ rgen[r] \in closed \/ (entry' = entry /\ entry[rgen[r]].st = "absent")
                   \/ Put(rgen[r], "removing", nextOp + 1)
    /\ rpc'[r] = "kill2" => rpc[r] = "unloop2" /\ Stays(r)
    /\ rpc'[r] = "finish" => rpc[r] = "kill2" /\ Stays(r)
    /\ rpc'[r] = "delete" => rpc[r] \in {"finish", "current"}
    /\ rpc[r] = "current" => published = 0 \/ (rpc'[r] = "unloop2" /\ rgen[r] = published) \/ rpc'[r] = "begin2"
    /\ rpc[r] = "begin2" => rpc'[r] \in {"unloop2", "join"}
    /\ rpc[r] = "join" => rpc'[r] = "unloop2"
    /\ rpc[r] = "unloop2" => looping' = looping \ {rgen[r]}

(* A request moves between its program points in these ways only, while no read or write fails. *)
LEMMA RequestCame ==
    ASSUME TypeOK, NEW r \in Reqs, ReqRange(r), Request(r), rpc[r] # "restore", Sound'
    PROVE  CameAttach(r) /\ CameRemove(r)
<1>s. ~Fault("db") /\ ~Fault("load") /\ stored \in BOOLEAN
  BY DEF Sound, Fault, TypeOK
<1>f. \A pc : GoTo(r, pc) => rpc'[r] = pc
  BY DEF TypeOK, GoTo
<1>v. \A v : (rop' = [rop EXCEPT ![r] = v] => rop'[r] = v) /\ (rgen' = [rgen EXCEPT ![r] = v] => rgen'[r] = v)
  BY DEF TypeOK
<1>rg. rpc[r] \in InSession => rgen[r] \in Gens
  BY MemberAssumption, SMT DEF ReqRange, Gens, TypeOK
<1> DEFINE Named == {"look", "repair", "reserve", "session", "welcome", "spawn", "begin", "unloop", "stopruntime", "persist", "current",
                     "begin2", "join", "unloop2", "kill2", "finish", "delete"}
           Left == {"session", "reserve", "current", "begin2", "join", "unloop2"}
<1>k. ASSUME rpc[r] \notin Left, rpc'[r] \notin Named \cup {"new", "wait"} PROVE CameAttach(r) /\ CameRemove(r)
  BY <1>k DEF CameAttach, CameRemove
<1> USE DEF registry, evloops, conv
<1>1. CASE EnsureLoad(r)
  <2>1. rpc[r] = "new" /\ (rpc'[r] \in {"boot", "done"} \/ (rpc'[r] = "look" /\ stored /\ mem = Free /\ rgen'[r] = published))
    BY <1>1, <1>f, <1>v DEF EnsureLoad
  <2> QED
    BY <2>1 DEF CameAttach, CameRemove
<1>2. CASE EnsureLook(r)
  <2>1. rpc[r] = "look" /\ rpc'[r] \in {"repair", "reserve", "done"} /\ Stays(r)
    BY <1>2, <1>f DEF EnsureLook, Stays
  <2> QED
    BY <2>1 DEF CameAttach, CameRemove
<1>3. CASE EnsureReserve(r)
  <2>1. /\ rpc[r] \in {"repair", "reserve"} /\ Kind(r) = "ensure"
        /\ rpc'[r] \in {"spawn", "wait", "done"} /\ (rpc'[r] = "spawn" => nextOp' # nextOp)
        /\ rgen' = rgen /\ \E S : Reserve(r, rgen[r], S)
    BY <1>3, <1>f DEF EnsureReserve
  <2>2. nextOp' # nextOp => rop'[r] = nextOp + 1 /\ Put(rgen[r], "attaching", nextOp + 1)
    BY <2>1, <1>v, RegistryForms
  <2> QED
    BY <2>1, <2>2 DEF CameAttach, CameRemove
<1>4. CASE EnsureSpawn(r) \/ Wait(r)
  <2>1. (rpc[r] = "spawn" /\ rpc'[r] = "wait") \/ (rpc[r] = "wait" /\ rpc'[r] = "done")
    BY <1>4, <1>f DEF EnsureSpawn, Wait
  <2> QED
    BY <2>1 DEF CameAttach, CameRemove
<1>5. CASE Boot(r) \/ BootConfig(r) \/ BootKill(r) \/ BootWarm(r) \/ BootBuild(r) \/ BootPublish(r) \/ BootAbandon(r)
  <2>1. rpc[r] \in Booting \cup {"boot"} /\ rpc'[r] \in Booting \cup {"done"}
    BY <1>5, <1>f DEF Boot, BootConfig, BootKill, BootWarm, BootBuild, BootPublish, BootAbandon, Booting
  <2> QED
    BY <2>1, <1>k DEF Booting
<1>6. CASE AddStore(r)
  <2>1. rpc[r] = "new" /\ rpc'[r] = "session" /\ stored' = TRUE
    BY <1>6, <1>f DEF AddStore
  <2> QED
    BY <2>1 DEF CameAttach, CameRemove
<1>7. CASE AddSession(r)
  <2>1. rpc[r] = "session" /\ rgen'[r] = published /\ (rpc'[r] = "reserve" \/ (rpc'[r] = "done" /\ published = 0))
    BY <1>7, <1>f, <1>v DEF AddSession
  <2> QED
    BY <2>1 DEF CameAttach, CameRemove
<1>8. CASE AddReserve(r)
  <2>1. rpc[r] = "reserve" /\ rpc'[r] = "welcome" /\ Kind(r) = "add" /\ rgen' = rgen /\ Reserve(r, rgen[r], {"absent"})
    BY <1>8, <1>f DEF AddReserve
  <2>2. \/ rgen[r] \in closed /\ rop'[r] = 0
        \/ rgen[r] \notin closed /\ entry[rgen[r]].st = "absent" /\ rop'[r] = nextOp + 1 /\ Put(rgen[r], "attaching", nextOp + 1)
        \/ rgen[r] \notin closed /\ entry[rgen[r]].st # "absent"
    BY <2>1, <1>v DEF Reserve
  <2> QED
    BY <2>1, <2>2 DEF CameAttach, CameRemove
<1>9. CASE AddWelcome(r) \/ RemoveDelete(r) \/ RemoveFinish(r)
  <2>1. rpc[r] \in {"welcome", "delete", "finish"} /\ (rpc'[r] = "done" \/ (rpc'[r] = "delete" /\ rpc[r] = "finish"))
    BY <1>9, <1>f DEF AddWelcome, RemoveDelete, RemoveFinish
  <2> QED
    BY <2>1 DEF CameAttach, CameRemove
<1>10. CASE RemoveLoad(r)
  <2>1. /\ rpc[r] = "new"
        /\ \/ rpc'[r] = "done"
           \/ rpc'[r] = "begin" /\ stored /\ mem = Free
           \/ rpc'[r] = "stopruntime" /\ stored /\ mem = Free /\ rgen'[r] = 0
    BY <1>10, <1>f, <1>v DEF RemoveLoad
  <2> QED
    BY <2>1 DEF CameAttach, CameRemove
<1>11. CASE RemoveBegin(r)
  <2>1. rgen' = rgen
    BY <1>11 DEF RemoveBegin
  <2>2. CASE rpc[r] = "begin"
    <3>1. \/ rpc'[r] = "wait"
          \/ /\ rpc'[r] = "unloop"
             /\ \/ rgen[r] \in closed \/ entry[rgen[r]].st = "absent"
                \/ Put(rgen[r], "removing", nextOp + 1) /\ rop'[r] = nextOp + 1
      <4>1. rgen[r] \in closed \/ entry[rgen[r]].st = "absent" \/ BeginRemoveStarts(rgen[r]) \/ BeginRemoveJoins(rgen[r])
        <5>1. CASE rgen[r] \in Gens
          BY <5>1 DEF BeginRemoveStarts, BeginRemoveJoins, TypeOK
        <5> QED
          BY <5>1, <1>11, <2>2, <1>rg DEF InSession
      <4> QED
        BY <1>11, <2>2, <4>1, <1>f, <1>v DEF RemoveBegin, StartRemove
    <3> QED
      BY <2>1, <2>2, <3>1 DEF CameAttach, CameRemove
  <2>3. CASE rpc[r] = "begin2"
    <3>1. \/ rpc'[r] = "join" /\ entry' = entry /\ entry[rgen[r]].st = "removing"
          \/ /\ rpc'[r] = "unloop2"
             /\ \/ rgen[r] \in closed \/ (entry' = entry /\ entry[rgen[r]].st = "absent")
                \/ Put(rgen[r], "removing", nextOp + 1)
      <4>1. rgen[r] \in closed \/ entry[rgen[r]].st = "absent" \/ BeginRemoveStarts(rgen[r]) \/ BeginRemoveJoins(rgen[r])
        <5>1. CASE rgen[r] \in Gens
          BY <5>1 DEF BeginRemoveStarts, BeginRemoveJoins, TypeOK
        <5> QED
          BY <5>1, <1>11, <2>3, <1>rg DEF InSession
      <4>2. \/ BeginRemoveStarts(rgen[r]) /\ StartRemove(r, rgen[r]) /\ rpc'[r] = "unloop2"
            \/ BeginRemoveJoins(rgen[r]) /\ rpc'[r] = "join" /\ entry' = entry
            \/ ~BeginRemoveStarts(rgen[r]) /\ ~BeginRemoveJoins(rgen[r]) /\ rpc'[r] = "unloop2" /\ entry' = entry
        BY <1>11, <2>3, <1>f DEF RemoveBegin
      <4> QED
        BY <4>1, <4>2 DEF StartRemove, BeginRemoveJoins
    <3> QED
      BY <2>1, <2>3, <3>1 DEF CameAttach, CameRemove
  <2> QED
    BY <1>11, <2>2, <2>3 DEF RemoveBegin
<1>12. CASE RemoveLoop(r)
  <2>1. /\ (rpc[r] = "unloop" /\ rpc'[r] = "stopruntime") \/ (rpc[r] = "unloop2" /\ rpc'[r] = "kill2")
        /\ Stays(r) /\ looping' = looping \ {rgen[r]}
    BY <1>12, <1>f DEF RemoveLoop, Stays
  <2> QED
    BY <2>1 DEF CameAttach, CameRemove
<1>13. CASE RemoveKill(r) \/ RemovePersist(r)
  <2>1. /\ Stays(r)
        /\ \/ rpc[r] = "stopruntime" /\ rpc'[r] = "persist"
           \/ rpc[r] = "kill2" /\ rpc'[r] = "finish"
           \/ rpc[r] = "persist" /\ rpc'[r] = "current" /\ stored' = FALSE
    BY <1>13, <1>f, <1>s DEF RemoveKill, RemovePersist, Stays
  <2> QED
    BY <2>1 DEF CameAttach, CameRemove
<1>14. CASE RemoveCurrent(r)
  <2>1. /\ rpc[r] = "current" /\ rop' = rop /\ entry' = entry
        /\ \/ rpc'[r] = "delete" /\ published = 0
           \/ rpc'[r] = "unloop2" /\ published = rgen[r] /\ rgen' = rgen
           \/ rpc'[r] = "begin2" /\ rgen'[r] = published
    BY <1>14, <1>f, <1>v DEF RemoveCurrent
  <2> QED
    BY <2>1 DEF CameAttach, CameRemove
<1>15. CASE RemoveJoined(r)
  <2>1. rpc[r] = "join" /\ rpc'[r] = "unloop2" /\ rgen' = rgen
    BY <1>15, <1>f DEF RemoveJoined
  <2> QED
    BY <2>1 DEF CameAttach, CameRemove
<1>16. CASE StopUnpublish(r) \/ StopRuntimes(r) \/ StopLoops(r) \/ IdleKill(r)
  <2>1. rpc[r] \in {"new", "halt", "shutdown", "cleanup"} /\ rpc'[r] \in {"halt", "shutdown", "cleanup", "done"}
    BY <1>16, <1>f DEF StopUnpublish, StopRuntimes, StopLoops, IdleKill
  <2> QED
    BY <2>1, <1>k
<1> QED
  BY <1>1, <1>2, <1>3, <1>4, <1>5, <1>6, <1>7, <1>8, <1>9, <1>10, <1>11, <1>12, <1>13, <1>14, <1>15, <1>16 DEF Request, RemoveRestore

Row == LockInv /\ BeforeInv /\ RemoveInv /\ AttachInv /\ FollowInv

(* What the steps below use of the invariant of the sessions, of the row and of a step of a request. *)
LEMMA RowFacts ==
    ASSUME SessionInv, NEW r \in Reqs, Request(r), Sound'
    PROVE  /\ Apart(r) /\ Kept(r) /\ Moved(r) /\ CameAttach(r) /\ CameRemove(r)
           /\ rpc[r] \in InSession => rgen[r] \in Gens
           /\ (rpc[r] = "publish" => mem = r /\ Private(r) /\ published = 0 /\ rgen[r] # 0)
           /\ (rpc[r] \in {"halt", "shutdown"} => rgen[r] # published)
<1>1. TypeOK /\ ReqRange(r)
  BY DEF SessionInv, TypeInv, RangeInv
<1>2. rpc[r] \in InSession => rgen[r] \in Gens
  BY <1>1, MemberAssumption, SMT DEF ReqRange, Gens, TypeOK
<1>3. /\ (rpc[r] = "publish" => mem = r /\ Private(r) /\ published = 0 /\ rgen[r] # 0)
      /\ (rpc[r] \in {"halt", "shutdown"} => rgen[r] # published)
  BY <1>1 DEF SessionInv, HoldInv, BootInv, StopInv, Booting, Holding, ReqRange, InSession
<1>4. Apart(r) /\ Kept(r)
  BY <1>1, RequestApart, RequestKeeps
<1>5. rpc[r] # "restore"
  BY <1>4 DEF SessionInv, RestoreInv, Sound, Kept
<1> QED
  BY <1>1, <1>2, <1>3, <1>4, <1>5, RequestMoves, RequestCame

(* A handler that is dropped without losing anything leaves the row, the map, the entries and the loops as they are, *)
(* and nobody relied on its request.                                                                               *)
LEMMA DropFacts ==
    ASSUME SessionInv, NEW r \in Reqs, Drop(r), Sound'
    PROVE  /\ Apart(r) /\ UNCHANGED <<conv, published, entry, looping, rgen, apc>>
           /\ rpc'[r] = "done"
           /\ rpc[r] \in {"look", "wait", "boot", "welcome", "persist", "finish", "delete"} \cup Booting
<1>1. TypeOK /\ ReqRange(r)
  BY DEF SessionInv, TypeInv, RangeInv
<1>2. /\ Apart(r) /\ UNCHANGED <<conv, published, entry, looping, rgen, apc>> /\ rpc[r] \in Awaiting
      /\ rpc'[r] \in {"done", "lost"} /\ (Undone(r) => rpc'[r] = "lost")
  BY <1>1, DropForm
<1>3. ~Undone(r) /\ rpc'[r] = "done"
  BY <1>2 DEF Sound
<1> QED
  BY <1>1, <1>2, <1>3 DEF Undone, Owns, Awaiting, ReqRange

(* A request that was dropped takes no step. *)
LEMMA RequestGoes ==
    ASSUME NEW r \in Reqs, Request(r)
    PROVE  rpc[r] # "lost"
<1>1. CASE EnsureLoad(r) \/ EnsureLook(r) \/ EnsureReserve(r) \/ EnsureSpawn(r) \/ Wait(r) \/ Boot(r)
  BY <1>1 DEF EnsureLoad, EnsureLook, EnsureReserve, EnsureSpawn, Wait, Boot
<1>2. CASE BootConfig(r) \/ BootKill(r) \/ BootWarm(r) \/ BootBuild(r) \/ BootPublish(r) \/ BootAbandon(r)
  BY <1>2 DEF BootConfig, BootKill, BootWarm, BootBuild, BootPublish, BootAbandon
<1>3. CASE AddStore(r) \/ AddSession(r) \/ AddReserve(r) \/ AddWelcome(r)
  BY <1>3 DEF AddStore, AddSession, AddReserve, AddWelcome
<1>4. CASE RemoveLoad(r) \/ RemoveBegin(r) \/ RemoveLoop(r) \/ RemoveKill(r) \/ RemovePersist(r)
  BY <1>4 DEF RemoveLoad, RemoveBegin, RemoveLoop, RemoveKill, RemovePersist
<1>5. CASE RemoveRestore(r) \/ RemoveCurrent(r) \/ RemoveJoined(r) \/ RemoveFinish(r) \/ RemoveDelete(r)
  BY <1>5 DEF RemoveRestore, RemoveCurrent, RemoveJoined, RemoveFinish, RemoveDelete
<1>6. CASE StopUnpublish(r) \/ StopRuntimes(r) \/ StopLoops(r) \/ IdleKill(r)
  BY <1>6 DEF StopUnpublish, StopRuntimes, StopLoops, IdleKill
<1> QED
  BY <1>1, <1>2, <1>3, <1>4, <1>5, <1>6 DEF Request

(* A step that fails no read and no write and loses no operation starts from a state in which none did. *)
LEMMA SoundStep ==
    ASSUME SessionInv, [Next]_vars, Sound'
    PROVE  Sound
<1>t. TypeOK
  BY DEF SessionInv, TypeInv
<1>1. faults \subseteq faults'
  <2>1. CASE UNCHANGED vars
    BY <2>1 DEF vars
  <2>2. ASSUME NEW r \in Reqs, Request(r) PROVE faults \subseteq faults'
    BY <2>2, <1>t, RequestKeeps DEF Kept
  <2>3. ASSUME NEW op \in Ops, Attach(op) PROVE faults \subseteq faults'
    BY <2>3, <1>t, AttachKeeps
  <2>4. CASE Vanish
    BY <2>4 DEF Vanish, Fault
  <2>5. ASSUME NEW r \in Reqs, Drop(r) PROVE faults \subseteq faults'
    BY <2>5, <1>t, DropForm
  <2> QED
    BY <2>1, <2>2, <2>3, <2>4, <2>5 DEF Next
<1>2. \A q \in Reqs : rpc[q] = "lost" => rpc'[q] = "lost"
  <2>1. CASE UNCHANGED vars
    BY <2>1 DEF vars, req
  <2>2. ASSUME NEW r \in Reqs, Request(r) PROVE \A q \in Reqs : rpc[q] = "lost" => rpc'[q] = "lost"
    <3>1. Apart(r)
      BY <2>2, <1>t, RequestApart
    <3>2. rpc[r] # "lost"
      BY <2>2, RequestGoes
    <3> QED
      BY <3>1, <3>2 DEF Apart
  <2>3. ASSUME NEW op \in Ops, Attach(op) PROVE \A q \in Reqs : rpc[q] = "lost" => rpc'[q] = "lost"
    BY <2>3, <1>t, AttachApart DEF req
  <2>4. CASE Vanish
    BY <2>4 DEF Vanish, req
  <2>5. ASSUME NEW r \in Reqs, Drop(r) PROVE \A q \in Reqs : rpc[q] = "lost" => rpc'[q] = "lost"
    BY <2>5, <1>t, DropForm DEF Apart, Awaiting, Booting
  <2> QED
    BY <2>1, <2>2, <2>3, <2>4, <2>5 DEF Next
<1> QED
  BY <1>1, <1>2 DEF Sound

(* The row says what the requests under way rely on. *)
LEMMA LockStep ==
    ASSUME SessionInv, Row, [Next]_vars, Sound'
    PROVE  LockInv'
<1>t. TypeOK /\ HoldInv /\ LockInv /\ BeforeInv /\ Free \notin Reqs /\ stored \in BOOLEAN
  BY MemberAssumption DEF SessionInv, TypeInv, Row, TypeOK
<1>0. CASE UNCHANGED vars
  BY <1>0, <1>t DEF LockInv, Locked, vars, req, conv
<1>1. ASSUME NEW r \in Reqs, Request(r) PROVE LockInv'
  <2>0. /\ Apart(r) /\ Moved(r) /\ CameAttach(r) /\ CameRemove(r)
        /\ (rpc[r] = "publish" => mem = r)
    BY <1>1, RowFacts
  <2>1. ASSUME NEW q \in Reqs \ {r}
        PROVE  /\ rpc[q] \in {"look", "repair", "reserve", "session", "welcome", "begin"} => stored'
               /\ rpc[q] \in Removed => ~stored'
               /\ rpc[q] \in {"look", "repair", "reserve"} => published' \in {0, rgen[q]}
    <3>1. /\ rpc[q] \in {"look", "repair", "reserve", "session", "welcome", "begin"} => stored /\ mem = q
          /\ rpc[q] \in Removed => ~stored
          /\ rpc[q] \in {"look", "repair", "reserve"} => published \in {0, rgen[q]}
      BY <1>t DEF LockInv, Locked, HoldInv, Holding
    <3>2. rpc[r] = "new" /\ Kind(r) = "add" => rpc[q] \notin Removed
      BY <1>t DEF BeforeInv, Before, Pristine, Removed, Booting
    <3>3. /\ \/ stored' = stored
             \/ mem = Free /\ stored' = FALSE
             \/ rpc[r] = "new" /\ Kind(r) = "add" /\ stored' = TRUE
          /\ published' \in {0, published} \/ mem = r
      BY <2>0 DEF Moved
    <3> QED
      BY <3>1, <3>2, <3>3, <1>t
  <2>2. Locked(r)
    BY <1>t DEF LockInv
  <2>3. /\ (rpc'[r] \in {"look", "repair", "reserve", "session", "welcome", "begin"} => stored')
        /\ (rpc'[r] \in Removed => ~stored')
    BY <2>0, <2>2 DEF Moved, CameAttach, CameRemove, Removed, Locked
  <2>4. rpc'[r] \in {"look", "repair", "reserve"} => published' \in {0, rgen'[r]}
    <3>1. rpc'[r] \in {"look", "repair", "reserve"} => published \in {0, rgen'[r]} /\ rpc[r] # "publish"
      BY <2>0, <2>2 DEF CameAttach, Stays, Locked
    <3> QED
      BY <2>0, <3>1 DEF Moved
  <2>5. ASSUME NEW q \in Reqs PROVE Locked(q)'
    BY <2>0, <2>1, <2>3, <2>4 DEF Apart, Locked
  <2> QED
    BY <2>5 DEF LockInv
<1>2. ASSUME NEW op \in Ops, Attach(op) PROVE LockInv'
  <2>1. UNCHANGED <<conv, published, req>>
    BY <1>2, <1>t, AttachApart
  <2> QED
    BY <2>1, <1>t DEF LockInv, Locked, conv, req
<1>3. CASE Vanish
  BY <1>3, <1>t DEF Vanish, LockInv, Locked, conv, req
<1>4. ASSUME NEW r \in Reqs, Drop(r) PROVE LockInv'
  <2>1. /\ Apart(r) /\ UNCHANGED <<conv, published, entry, looping, rgen, apc>> /\ rpc'[r] = "done"
        /\ rpc[r] \in {"look", "wait", "boot", "welcome", "persist", "finish", "delete"} \cup Booting
    BY <1>4, DropFacts
  <2> QED
    BY <2>1, <1>t DEF LockInv, Locked, Removed, Apart, conv
<1> QED
  BY <1>0, <1>1, <1>2, <1>3, <1>4 DEF Next

(* Until it is added, the member has no entry, no loop and no attach task;  *)
(* from then on it has an entry in the published session while it is stored. *)
LEMMA BeforeStep ==
    ASSUME SessionInv, Row, [Next]_vars, Sound'
    PROVE  BeforeInv'
<1>t. TypeOK /\ HoldInv /\ StopInv /\ LockInv /\ BeforeInv /\ Free \notin Reqs /\ stored \in BOOLEAN /\ scn \in Scenarios
  BY MemberAssumption DEF SessionInv, TypeInv, Row, TypeOK
<1>g. published # 0 => published \in Gens
  BY <1>t, MemberAssumption, SMT DEF TypeOK, Gens
<1>u. \A q, r \in Reqs : Kind(q) = "add" /\ Kind(r) = "add" => q = r
  BY <1>t, MemberAssumption DEF Kind
<1>0. CASE UNCHANGED vars
  BY <1>0, <1>t DEF BeforeInv, Before, Pristine, Kind, vars, req, conv, registry, evloops
<1>1. ASSUME NEW r \in Reqs, Request(r) PROVE BeforeInv'
  <2>0. /\ Apart(r) /\ Kept(r) /\ Moved(r) /\ CameAttach(r) /\ CameRemove(r)
        /\ (rpc[r] = "publish" => mem = r /\ rgen[r] # 0 /\ rgen[r] \in Gens)
        /\ (rpc[r] \in {"halt", "shutdown"} => rgen[r] # published)
    BY <1>1, RowFacts DEF InSession, Booting
  <2>s. scn' = scn /\ \A q \in Reqs : Kind(q)' = Kind(q)
    BY <2>0 DEF Apart, Kind
  <2>h. \A q \in Reqs : /\ rpc[q] \in {"look", "repair"} => Kind(q) = "ensure"
                        /\ rpc[q] = "session" => Kind(q) = "add"
                        /\ rpc[q] \in {"session", "reserve"} => mem = q
    BY <1>t DEF HoldInv, Holding
  <2>p. \A q \in Reqs : rpc[q] \in Pcs /\ rpc'[q] \in Pcs
    BY <1>t, TypeStep DEF TypeInv, TypeOK, Pcs
  <2>a. ASSUME NEW a \in Reqs, Kind(a) = "add", rpc'[a] \in {"new", "session", "reserve"}
        PROVE  rpc[a] \in {"new", "session", "reserve"} /\ (a = r => rpc'[a] # "new")
    BY <2>a, <2>0, <2>h DEF CameAttach, Apart
  <2>1. ASSUME Before' PROVE Pristine'
    <3>1. PICK a \in Reqs : Kind(a) = "add" /\ rpc'[a] \in {"new", "session", "reserve"}
      BY <2>1, <2>s DEF Before
    <3>2. rpc[a] \in {"new", "session", "reserve"} /\ (a = r => rpc'[a] # "new") /\ (a # r => rpc'[a] = rpc[a])
      BY <3>1, <2>a, <2>0 DEF Apart
    <3>3. Pristine
      BY <3>1, <3>2, <1>t DEF BeforeInv, Before
    <3>4. \A q \in Reqs : Kind(q) = "add" => q = a
      BY <3>1, <1>u
    <3>5. stored => mem = a /\ rpc[a] \in {"session", "reserve"}
      BY <3>3, <3>4, <2>h DEF Pristine
    <3>6. (stored => mem # Free) /\ (stored /\ rpc[r] = "publish" => FALSE)
      BY <3>5, <2>0, <1>t
    <3>7. rpc[r] \in {"new", "done", "boot", "session", "reserve", "halt", "shutdown", "cleanup"} \cup Booting /\ (rpc[r] = "reserve" => r = a)
      BY <3>3, <3>4 DEF Pristine
    <3>8. \A g \in Gens : entry'[g].st = "absent"
      <4>1. ASSUME NEW g \in Gens PROVE entry'[g].st = "absent"
        <5>1. entry[g].st = "absent"
          BY <3>3 DEF Pristine
        <5>2. rpc[r] \in {"repair", "reserve"} => rpc'[r] \notin {"spawn", "welcome"}
          BY <3>1, <3>7 DEF Booting
        <5>3. \/ entry'[g] = entry[g]
              \/ rpc[r] \in {"repair", "reserve"} /\ rpc'[r] \in {"spawn", "welcome"}
              \/ rpc[r] \in {"begin", "begin2", "finish"}
              \/ entry'[g] = [st |-> "absent", op |-> 0]
              \/ rpc[r] = "publish" /\ stored = TRUE
          BY <2>0 DEF Moved
        <5> QED
          BY <5>1, <5>2, <5>3, <3>6, <3>7 DEF Booting
      <4> QED
        BY <4>1
    <3>9. looping' = {}
      <4>1. looping = {}
        BY <3>3 DEF Pristine
      <4>2. looping' \subseteq looping \/ (rpc[r] = "publish" /\ stored = TRUE)
        BY <2>0 DEF Moved
      <4> QED
        BY <4>1, <4>2, <3>6
    <3>10. \A o \in Ops : apc'[o].pc = "none"
      <4>1. rpc[r] \notin {"spawn", "welcome"}
        BY <3>7 DEF Booting
      <4> QED
        BY <4>1, <3>3, <2>0 DEF Pristine, Kept
    <3>11. /\ rpc'[r] \in {"new", "done", "boot", "session", "reserve", "halt", "shutdown", "cleanup"} \cup Booting
           /\ (rpc'[r] = "reserve" => Kind(r) = "add")
      <4>1. rpc'[r] \notin {"look", "repair", "spawn", "wait", "welcome"}
        <5>1. rpc[r] = "reserve" => Kind(r) # "ensure"
          BY <3>1, <3>7
        <5>2. rpc'[r] # "welcome"
          BY <3>1, <3>4, <2>0 DEF CameAttach
        <5> QED
          BY <5>1, <5>2, <3>6, <3>7, <2>0 DEF CameAttach, Booting
      <4>2. rpc'[r] \notin {"begin", "unloop", "stopruntime", "persist", "current", "begin2", "join", "unloop2", "kill2", "finish", "delete"}
        BY <3>6, <3>7, <2>0 DEF CameRemove, Booting
      <4>3. rpc'[r] = "reserve" => Kind(r) = "add"
        BY <2>0, <2>h, <3>7 DEF CameAttach, Booting
      <4>4. rpc'[r] \notin {"restore", "lost"}
        BY RestoreStep DEF RestoreInv, Sound
      <4> QED
        BY <4>1, <4>2, <4>3, <4>4, <2>p DEF Pcs, Booting
    <3>12. stored' <=> rpc'[a] \in {"session", "reserve"}
      <4>0. stored <=> rpc[a] \in {"session", "reserve"}
        BY <3>1, <3>3, <3>4 DEF Pristine
      <4>1. CASE stored' = stored
        <5>1. CASE a # r
          BY <5>1, <4>0, <4>1, <3>2
        <5>2. CASE a = r
          BY <5>2, <4>0, <4>1, <3>1, <3>2, <3>7, <2>0 DEF CameAttach, Booting
        <5> QED
          BY <5>1, <5>2
      <4>2. CASE stored' # stored
        <5>1. rpc[r] = "new" /\ Kind(r) = "add" /\ stored' = TRUE /\ rpc'[r] = "session"
          BY <4>2, <3>7, <2>0 DEF Moved, Booting
        <5> QED
          BY <5>1, <3>4
      <4> QED
        BY <4>1, <4>2
    <3>13. stored' <=> \E q \in Reqs : Kind(q)' = "add" /\ rpc'[q] \in {"session", "reserve"}
      BY <3>1, <3>4, <3>12, <2>s
    <3>14. \A q \in Reqs : /\ rpc'[q] \in {"new", "done", "boot", "session", "reserve", "halt", "shutdown", "cleanup"} \cup Booting
                           /\ rpc'[q] = "reserve" => Kind(q)' = "add"
      BY <3>3, <3>11, <2>0, <2>s DEF Pristine, Apart
    <3> QED
      BY <3>8, <3>9, <3>10, <3>13, <3>14 DEF Pristine
  <2>2. ASSUME stored', published' # 0, ~Before' PROVE entry'[published'].st # "absent"
    <3>1. CASE published' = published
      <4>1. published \in Gens /\ published \notin closed
        BY <3>1, <2>2, <1>g, <1>t DEF StopInv
      <4>2. stored /\ stored' = stored
        <5>1. ~(rpc'[r] = "session" /\ Kind(r) = "add")
          BY <2>2, <2>s DEF Before
        <5> QED
          BY <5>1, <2>2, <2>0, <1>t DEF Moved
      <4>3. CASE entry[published].st # "absent"
        <5>1. rpc[r] # "finish"
          BY <4>2, <1>t DEF LockInv, Locked, Removed
        <5>2. \/ entry'[published] = entry[published]
              \/ entry'[published] = [st |-> "attaching", op |-> nextOp + 1]
              \/ entry'[published] = [st |-> "removing", op |-> nextOp + 1]
              \/ entry'[published] = [st |-> "ready", op |-> 0]
          BY <4>1, <5>1, <2>0 DEF Moved
        <5> QED
          BY <5>2, <4>3, <3>1
      <4>4. CASE entry[published].st = "absent"
        <5>1. Before
          BY <4>2, <4>4, <3>1, <2>2, <1>t DEF BeforeInv
        <5>2. PICK a \in Reqs : Kind(a) = "add" /\ rpc[a] \in {"new", "session", "reserve"}
          BY <5>1 DEF Before
        <5>3. a = r
          BY <5>2, <2>2, <2>0, <2>s DEF Before, Apart
        <5>4. rpc[r] \in {"session", "reserve"}
          <6>1. PICK b \in Reqs : Kind(b) = "add" /\ rpc[b] \in {"session", "reserve"}
            BY <5>1, <4>2, <1>t DEF BeforeInv, Pristine
          <6> QED
            BY <6>1, <5>2, <5>3, <1>u
        <5>5. rpc[r] = "reserve"
          BY <5>2, <5>3, <5>4, <3>1, <2>2, <2>0, <2>s DEF CameAttach, Before
        <5>6. rgen[r] = published
          BY <5>5, <3>1, <2>2, <1>t DEF LockInv, Locked
        <5>7. Put(published, "attaching", nextOp + 1)
          BY <5>2, <5>3, <5>5, <5>6, <4>1, <4>4, <2>0 DEF CameAttach
        <5> QED
          BY <5>7, <4>1, <3>1, <1>t DEF Put, TypeOK
      <4> QED
        BY <4>3, <4>4
    <3>2. CASE published' # published
      <4>1. rpc[r] = "publish" /\ published' = rgen[r] /\ rgen[r] \in Gens
        BY <3>2, <2>2, <2>0 DEF Moved
      <4>2. stored = TRUE
        BY <4>1, <2>2, <2>0, <1>t DEF Moved
      <4>3. entry'[rgen[r]] = [st |-> "ready", op |-> 0]
        BY <4>1, <4>2, <2>0 DEF Moved
      <4> QED
        BY <4>1, <4>3
    <3> QED
      BY <3>1, <3>2
  <2> QED
    BY <2>1, <2>2 DEF BeforeInv
<1>2. ASSUME NEW op \in Ops, Attach(op) PROVE BeforeInv'
  <2>1. UNCHANGED <<scn, conv, published, req>> /\ apc[op].pc # "none"
    BY <1>2, <1>t, AttachApart
  <2>2. ~Before
    BY <2>1, <1>t DEF BeforeInv, Pristine
  <2>3. ~Before'
    BY <2>1, <2>2 DEF Before, Kind, req
  <2>4. published # 0 => entry'[published] = entry[published] \/ entry'[published].st \in {"ready", "failed"}
    <3>1. ASSUME published # 0 PROVE \/ entry'[published] = entry[published]
                                     \/ entry'[published] = [st |-> "ready", op |-> 0]
                                     \/ entry'[published] = [st |-> "failed", op |-> op]
      BY <3>1, <1>2, <1>t, <1>g, AttachKeeps
    <3> QED
      BY <3>1
  <2> QED
    BY <2>1, <2>2, <2>3, <2>4, <1>t DEF BeforeInv, conv
<1>3. CASE Vanish
  BY <1>3, <1>t DEF Vanish, Fault, BeforeInv, Before, Pristine, Kind, req, conv, registry, evloops
<1>4. ASSUME NEW r \in Reqs, Drop(r) PROVE BeforeInv'
  <2>1. /\ Apart(r) /\ UNCHANGED <<conv, published, entry, looping, rgen, apc>> /\ rpc'[r] = "done"
        /\ rpc[r] \in {"look", "wait", "boot", "welcome", "persist", "finish", "delete"} \cup Booting
    BY <1>4, DropFacts
  <2>2. \A q \in Reqs : Kind(q)' = Kind(q)
    BY <2>1 DEF Apart, Kind
  <2>3. /\ \A q \in Reqs : rpc'[q] = IF q = r THEN "done" ELSE rpc[q]
        /\ rpc[r] \notin {"new", "session", "reserve"}
    BY <2>1 DEF Apart, Booting
  <2>4. Before' <=> Before
    BY <2>2, <2>3 DEF Before
  <2>5. Pristine => Pristine'
    BY <2>1, <2>2, <2>3 DEF Pristine, conv
  <2> QED
    BY <2>1, <2>4, <2>5, <1>t DEF BeforeInv, conv
<1> QED
  BY <1>0, <1>1, <1>2, <1>3, <1>4 DEF Next

(* A removal finds the entry of the published session as it left it. *)
LEMMA RemoveStep ==
    ASSUME SessionInv, Row, [Next]_vars, Sound'
    PROVE  RemoveInv'
<1>t. TypeOK /\ StopInv /\ OwnInv /\ LockInv /\ BeforeInv /\ RemoveInv /\ \A g \in Gens : EntryRange(g)
  BY DEF SessionInv, TypeInv, RangeInv, Row
<1>g. (published # 0 => published \in Gens) /\ published \notin closed
  BY <1>t, MemberAssumption, SMT DEF TypeOK, Gens, StopInv
<1>0. CASE UNCHANGED vars
  BY <1>0, <1>t DEF RemoveInv, Removes, Out, vars, req, registry
<1>1. ASSUME NEW r \in Reqs, Request(r) PROVE RemoveInv'
  <2>0. /\ Apart(r) /\ Moved(r) /\ CameRemove(r)
        /\ (rpc[r] = "publish" => Private(r) /\ published = 0)
        /\ (rpc[r] \in {"halt", "shutdown"} => rgen[r] # published)
    BY <1>1, RowFacts
  <2>1. ASSUME NEW q \in Reqs \ {r} PROVE Removes(q)'
    <3>0. SUFFICES ASSUME rgen[q] = published', published' # 0
                   PROVE  /\ rpc[q] \in {"unloop", "stopruntime", "persist", "current"} =>
                                entry'[published'] = [st |-> "removing", op |-> rop[q]]
                          /\ rpc[q] \in {"join", "unloop2", "kill2", "finish"} => entry'[published'].st \in {"removing", "absent"}
      BY <2>0 DEF Removes, Out, Apart
    <3>1. published' = published
      BY <3>0, <2>0 DEF Moved, Private
    <3>2. Removes(q) /\ published \in Gens /\ rpc[r] # "publish"
      BY <3>0, <3>1, <2>0, <1>t, <1>g DEF RemoveInv
    <3>3. \/ entry'[published] = entry[published]
          \/ rpc[r] \in {"repair", "reserve"} /\ entry[published].st \in {"absent", "ready", "failed"}
          \/ entry[published].st \in {"attaching", "ready", "failed"} /\ entry'[published].st = "removing"
          \/ rpc[r] = "finish" /\ entry[published] = [st |-> "removing", op |-> rop[r]] /\ entry'[published].st = "absent"
      BY <3>2, <2>0 DEF Moved
    <3>4. ASSUME rpc[q] \in {"unloop", "stopruntime", "persist", "current"}
          PROVE  entry'[published] = [st |-> "removing", op |-> rop[q]]
      <4>1. entry[published] = [st |-> "removing", op |-> rop[q]]
        BY <3>0, <3>1, <3>2, <3>4 DEF Removes
      <4>2. ~(rpc[r] = "finish" /\ entry[published] = [st |-> "removing", op |-> rop[r]])
        <5>1. ASSUME rpc[r] = "finish", entry[published] = [st |-> "removing", op |-> rop[r]] PROVE FALSE
          <6>1. rop[r] = rop[q] /\ entry[published].st = "removing" /\ entry[published].op = rop[r]
            BY <4>1, <5>1
          <6>2. EntryRange(published)
            BY <3>2, <1>t
          <6>3. rop[r] # 0
            BY <6>1, <6>2 DEF EntryRange
          <6> QED
            BY <5>1, <6>1, <6>3, <3>4, <1>t DEF OwnInv, Removing
        <5> QED
          BY <5>1
      <4> QED
        BY <4>1, <4>2, <3>3
    <3>5. ASSUME rpc[q] \in {"join", "unloop2", "kill2", "finish"} PROVE entry'[published].st \in {"removing", "absent"}
      <4>1. entry[published].st \in {"removing", "absent"} /\ ~stored
        BY <3>0, <3>1, <3>2, <3>5, <1>t DEF Removes, Out, LockInv, Locked, Removed
      <4>2. rpc[r] \notin {"repair", "reserve"}
        BY <4>1, <1>t DEF LockInv, Locked
      <4> QED
        BY <4>1, <4>2, <3>3
    <3> QED
      BY <3>1, <3>4, <3>5
  <2>2. Removes(r)'
    <3>0. SUFFICES ASSUME rgen'[r] = published', published' # 0
                   PROVE  /\ rpc'[r] \in {"unloop", "stopruntime", "persist", "current"} =>
                                entry'[published'] = [st |-> "removing", op |-> rop'[r]]
                          /\ rpc'[r] \in {"join", "unloop2", "kill2", "finish"} => entry'[published'].st \in {"removing", "absent"}
      BY DEF Removes, Out
    <3>1. rpc'[r] \in {"unloop", "stopruntime", "persist", "current", "join", "unloop2", "kill2", "finish"} => rpc[r] # "publish" /\ published' = published
      BY <3>0, <2>0 DEF Moved, CameRemove
    <3>2. Removes(r)
      BY <1>t DEF RemoveInv
    <3>e. published' = published /\ rpc[r] \in {"unloop", "stopruntime", "persist", "current", "join", "unloop2", "kill2"} => entry'[published] = entry[published]
      BY <3>0, <2>0, <1>g DEF Moved
    <3>p. ASSUME Put(rgen[r], "removing", nextOp + 1), rgen[r] = published, published # 0
          PROVE  entry'[published] = [st |-> "removing", op |-> nextOp + 1]
      BY <3>p, <1>g, <1>t DEF Put, TypeOK
    <3>3. CASE rpc'[r] = "unloop"
      <4>1. rpc[r] = "begin" /\ rgen[r] = published /\ published' = published /\ published # 0 /\ rgen[r] \notin closed
        BY <3>0, <3>1, <3>3, <2>0, <1>g DEF CameRemove
      <4>2. stored /\ ~Before
        BY <4>1, <1>t DEF LockInv, Locked, BeforeInv, Pristine, Booting
      <4>3. entry[published].st # "absent"
        BY <4>1, <4>2, <1>t DEF BeforeInv
      <4>4. Put(rgen[r], "removing", nextOp + 1) /\ rop'[r] = nextOp + 1
        BY <3>3, <4>1, <4>3, <2>0 DEF CameRemove
      <4> QED
        BY <4>1, <4>4, <3>3, <3>p
    <3>4. CASE rpc'[r] \in {"stopruntime", "persist", "current"}
      <4>1. rpc[r] \in {"unloop", "stopruntime", "persist"} /\ rgen[r] = rgen'[r] /\ rop[r] = rop'[r]
        BY <3>0, <3>4, <2>0 DEF CameRemove, Stays
      <4> QED
        BY <4>1, <3>0, <3>1, <3>2, <3>4, <3>e DEF Removes
    <3>5. CASE rpc'[r] = "join"
      BY <3>0, <3>1, <3>5, <2>0 DEF CameRemove
    <3>6. CASE rpc'[r] = "unloop2"
      <4>1. /\ rgen[r] = published /\ published' = published /\ published # 0 /\ rgen[r] \notin closed
            /\ \/ rpc[r] = "join" \/ rpc[r] = "current"
               \/ rpc[r] = "begin2" /\ entry' = entry /\ entry[rgen[r]].st = "absent"
               \/ rpc[r] = "begin2" /\ Put(rgen[r], "removing", nextOp + 1)
        BY <3>0, <3>1, <3>6, <2>0, <1>g DEF CameRemove
      <4>2. entry'[published].st \in {"removing", "absent"}
        BY <4>1, <3>2, <3>e, <3>p DEF Removes, Out
      <4> QED
        BY <4>1, <4>2, <3>6
    <3>7. CASE rpc'[r] \in {"kill2", "finish"}
      <4>1. rpc[r] \in {"unloop2", "kill2"} /\ rgen[r] = rgen'[r]
        BY <3>7, <2>0 DEF CameRemove, Stays
      <4> QED
        BY <4>1, <3>0, <3>1, <3>2, <3>7, <3>e DEF Removes, Out
    <3> QED
      BY <3>3, <3>4, <3>5, <3>6, <3>7
  <2> QED
    BY <2>1, <2>2 DEF RemoveInv
<1>2. ASSUME NEW op \in Ops, Attach(op) PROVE RemoveInv'
  <2>1. UNCHANGED <<published, req>>
    BY <1>2, <1>t, AttachApart
  <2>2. published # 0 => entry'[published] = entry[published] \/ entry[published].st = "attaching"
    <3>1. ASSUME published # 0 PROVE entry'[published] = entry[published] \/ OwnsAttach(published, op)
      BY <3>1, <1>2, <1>t, <1>g, AttachKeeps
    <3> QED
      BY <3>1 DEF OwnsAttach
  <2> QED
    BY <2>1, <2>2, <1>t DEF RemoveInv, Removes, Out, req
<1>3. CASE Vanish
  BY <1>3, <1>t DEF Vanish, RemoveInv, Removes, Out, req, registry
<1>4. ASSUME NEW r \in Reqs, Drop(r) PROVE RemoveInv'
  <2>1. /\ Apart(r) /\ UNCHANGED <<conv, published, entry, looping, rgen, apc>> /\ rpc'[r] = "done"
        /\ rpc[r] \in {"look", "wait", "boot", "welcome", "persist", "finish", "delete"} \cup Booting
    BY <1>4, DropFacts
  <2> QED
    BY <2>1, <1>t DEF RemoveInv, Removes, Out, Apart
<1> QED
  BY <1>0, <1>1, <1>2, <1>3, <1>4 DEF Next

(* what a step of the attach task of operation op may do to the task and the loops *)
Worked(op) ==
    /\ apc'[op].pc # "none" => apc'[op].gen = apc[op].gen
    /\ apc'[op].pc = "stale" => \/ apc[op].pc \in {"check", "commit"} /\ ~OwnsAttach(apc[op].gen, op)
                                \/ apc[op].pc = "publish" /\ published # apc[op].gen
                                \/ apc[op].pc = "stale"
    /\ apc'[op].pc = "commit" => apc[op].pc = "register" /\ apc[op].gen \in looping'
    /\ apc'[op].pc \notin {"none", "publish"} => apc[op].pc # "publish" \/ published # apc[op].gen
    /\ apc[op].pc = "commit" => \/ OwnsAttach(apc[op].gen, op) /\ apc'[op].pc = "publish"
                                \/ ~OwnsAttach(apc[op].gen, op) /\ apc'[op].pc = "stale" /\ apc'[op].loop = apc[op].loop
    /\ apc[op].pc = "failed" => apc'[op].pc = "none"
    /\ apc'[op].loop => \/ apc[op].loop /\ (apc[op].pc \in {"commit", "publish"} => apc'[op].pc \in {"publish", "stale"}) /\ apc[op].pc # "stale"
                        \/ apc'[op].pc = "commit"
    /\ apc[op].pc = "stale" /\ apc[op].loop => looping' = looping \ {apc[op].gen}
    /\ \/ looping' = looping
       \/ apc[op].pc = "stale" /\ looping' = looping \ {apc[op].gen}
       \/ apc[op].pc = "register" /\ apc'[op].pc = "commit" /\ apc'[op].loop /\ looping' = looping \cup {apc[op].gen}

(* An attach task moves between its program points in these ways only. *)
LEMMA AttachMoves ==
    ASSUME TypeOK, NEW op \in Ops, Attach(op)
    PROVE  Worked(op)
<1>t. apc \in [Ops -> [pc : TaskPcs, gen : 0..MaxGen, cfg : 0..MaxGen, loop : BOOLEAN]]
  BY DEF TypeOK, TaskPcs
<1>s. \A pc : Step(op, pc) => apc'[op].pc = pc /\ apc'[op].gen = apc[op].gen /\ apc'[op].loop = apc[op].loop
  BY <1>t DEF Step
<1>n. apc' = [apc EXCEPT ![op] = NoTask] => apc'[op].pc = "none" /\ apc'[op].loop = FALSE
  BY <1>t DEF NoTask
<1> USE DEF Task, evloops
<1>1. CASE AttachConfig(op) \/ AttachKill(op) \/ AttachBuild(op)
  <2>1. /\ apc[op].pc \in {"config", "kill", "build"} /\ apc'[op].pc \in {"kill", "warm", "check", "broken"}
        /\ apc'[op].gen = apc[op].gen /\ apc'[op].loop = apc[op].loop /\ looping' = looping
    BY <1>1, <1>s DEF AttachConfig, AttachKill, AttachBuild
  <2> QED
    BY <2>1 DEF Worked
<1>2. CASE AttachWarm(op)
  <2>1. PICK pc \in {"broken", "build"} : apc' = [apc EXCEPT ![op].pc = pc, ![op].cfg = config]
    BY <1>2 DEF AttachWarm
  <2>2. apc'[op].pc = pc /\ apc'[op].gen = apc[op].gen /\ apc'[op].loop = apc[op].loop
    BY <2>1, <1>t
  <2>3. apc[op].pc = "warm" /\ looping' = looping
    BY <1>2 DEF AttachWarm
  <2> QED
    BY <2>2, <2>3 DEF Worked
<1>3. CASE AttachCheck(op)
  <2>1. /\ apc[op].pc = "check" /\ apc'[op].gen = apc[op].gen /\ apc'[op].loop = apc[op].loop /\ looping' = looping
        /\ apc'[op].pc = "register" \/ (apc'[op].pc = "stale" /\ ~OwnsAttach(apc[op].gen, op))
    BY <1>3, <1>s DEF AttachCheck
  <2> QED
    BY <2>1 DEF Worked
<1>4. CASE AttachRegister(op)
  <2>1. apc[op].pc = "register"
    BY <1>4 DEF AttachRegister
  <2>2. CASE ((apc[op].gen \in looping /\ Step(op, "commit")) \/ Step(op, "broken")) /\ looping' = looping
    <3>1. /\ apc'[op].gen = apc[op].gen /\ apc'[op].loop = apc[op].loop
          /\ (apc'[op].pc = "commit" /\ apc[op].gen \in looping') \/ apc'[op].pc = "broken"
      BY <2>2, <1>s
    <3> QED
      BY <2>1, <2>2, <3>1 DEF Worked
  <2>3. CASE looping' = looping \cup {apc[op].gen} /\ apc' = [apc EXCEPT ![op].pc = "commit", ![op].loop = TRUE]
    <3>1. apc'[op].gen = apc[op].gen /\ apc'[op].loop = TRUE /\ apc'[op].pc = "commit"
      BY <2>3, <1>t
    <3> QED
      BY <2>1, <2>3, <3>1 DEF Worked
  <2> QED
    BY <1>4, <2>2, <2>3 DEF AttachRegister
<1>5. CASE AttachCommit(op)
  <2>1. /\ apc[op].pc = "commit" /\ looping' = looping /\ apc'[op].gen = apc[op].gen /\ apc'[op].loop = apc[op].loop
        /\ \/ OwnsAttach(apc[op].gen, op) /\ apc'[op].pc = "publish"
           \/ ~OwnsAttach(apc[op].gen, op) /\ apc'[op].pc = "stale"
    BY <1>5, <1>s DEF AttachCommit
  <2> QED
    BY <2>1 DEF Worked
<1>6. CASE AttachPublish(op)
  <2>1. /\ apc[op].pc = "publish" /\ looping' = looping
        /\ \/ apc'[op].pc = "none" /\ apc'[op].loop = FALSE
           \/ apc'[op].pc = "stale" /\ published # apc[op].gen /\ apc'[op].gen = apc[op].gen /\ apc'[op].loop = apc[op].loop
    BY <1>6, <1>s, <1>n DEF AttachPublish
  <2> QED
    BY <2>1 DEF Worked
<1>7. CASE AttachUnloop(op)
  <2>1. apc[op].pc = "stale" /\ looping' = looping \ {apc[op].gen} /\ apc' = [apc EXCEPT ![op].loop = FALSE]
    BY <1>7 DEF AttachUnloop
  <2>2. apc'[op].pc = "stale" /\ apc'[op].gen = apc[op].gen /\ apc'[op].loop = FALSE
    BY <2>1, <1>t
  <2> QED
    BY <2>1, <2>2 DEF Worked
<1>8. CASE AttachCleanup(op)
  <2>1. /\ apc[op].pc \in {"stale", "broken"} /\ ~apc[op].loop /\ looping' = looping
        /\ \/ apc[op].pc = "stale" /\ apc'[op].pc = "none" /\ apc'[op].loop = FALSE
           \/ apc[op].pc = "broken" /\ apc'[op].pc = "failed" /\ apc'[op].gen = apc[op].gen /\ apc'[op].loop = apc[op].loop
    BY <1>8, <1>s, <1>n DEF AttachCleanup
  <2> QED
    BY <2>1 DEF Worked
<1>9. CASE AttachFail(op)
  <2>1. apc[op].pc = "failed" /\ apc'[op].pc = "none" /\ apc'[op].loop = FALSE /\ looping' = looping
    BY <1>9, <1>n DEF AttachFail
  <2> QED
    BY <2>1 DEF Worked
<1> QED
  BY <1>1, <1>2, <1>3, <1>4, <1>5, <1>6, <1>7, <1>8, <1>9 DEF Attach

(* An attach task, and the request about to spawn it, own the entry or find the member removed. *)
LEMMA AttachStep ==
    ASSUME SessionInv, Row, [Next]_vars, Sound'
    PROVE  AttachInv'
<1>t. TypeOK /\ StopInv /\ LockInv /\ BeforeInv /\ RemoveInv /\ AttachInv /\ (\A r \in Reqs : ReqRange(r)) /\ (\A o \in Ops : TaskRange(o))
  BY DEF SessionInv, TypeInv, RangeInv, Row
<1>g. (published # 0 => published \in Gens) /\ published \notin closed /\ nextOp \in Nat
  BY <1>t, MemberAssumption, SMT DEF TypeOK, Gens, StopInv
<1>a. \A o \in Ops : Attaches(o)
  BY <1>t DEF AttachInv
<1>c. \A q \in Reqs : Carries(q) => /\ apc[rop[q]].pc = "none" /\ rop[q] \in Ops /\ rop[q] # 0 /\ rop[q] # nextOp + 1
                                    /\ (rgen[q] = published /\ published # 0 => Out(published) \/ Pends(published, rop[q]))
  <2>1. ASSUME NEW q \in Reqs, Carries(q) PROVE rop[q] \in Ops /\ rop[q] # 0 /\ rop[q] # nextOp + 1
    <3>1. ReqRange(q) /\ rop[q] \in 0..MaxOp
      BY <1>t DEF TypeOK
    <3>2. rop[q] # 0 /\ rop[q] \in 0..nextOp
      BY <2>1, <3>1 DEF ReqRange, Carries
    <3> QED
      BY <3>1, <3>2, <1>g, MemberAssumption, SMT DEF Ops
  <2> QED
    BY <2>1, <1>t DEF AttachInv
<1>u. \A q, r \in Reqs : Carries(q) /\ Carries(r) /\ rop[q] = rop[r] => q = r
  BY <1>t DEF AttachInv
<1>n. \A o \in Ops : apc[o].pc # "none" => o # nextOp + 1
  <2>1. ASSUME NEW o \in Ops, apc[o].pc # "none" PROVE o # nextOp + 1
    <3>1. TaskRange(o) /\ o \in Nat
      BY <1>t, MemberAssumption, SMT DEF Ops
    <3>2. o <= nextOp
      BY <2>1, <3>1 DEF TaskRange
    <3> QED
      BY <3>1, <3>2, <1>g, SMT
  <2> QED
    BY <2>1
<1>w. ASSUME \A o \in Ops : Attaches(o)',
             \A q \in Reqs : Carries(q)' => /\ apc'[rop'[q]].pc = "none"
                                            /\ (rgen'[q] = published' /\ published' # 0 => Out(published)' \/ Pends(published, rop[q])'),
             \A q, r \in Reqs : Carries(q)' /\ Carries(r)' /\ rop'[q] = rop'[r] => q = r
      PROVE  AttachInv'
  BY <1>w DEF AttachInv
<1>0. CASE UNCHANGED vars
  BY <1>0, <1>t DEF AttachInv, Attaches, Carries, Out, Pends, vars, req, registry, evloops
<1>1. ASSUME NEW r \in Reqs, Request(r) PROVE AttachInv'
  <2>0. /\ Apart(r) /\ Kept(r) /\ Moved(r) /\ CameAttach(r)
        /\ (rpc[r] \in InSession => rgen[r] \in Gens)
        /\ (rpc[r] = "publish" => Private(r) /\ published = 0)
        /\ (rpc[r] \in {"halt", "shutdown"} => rgen[r] # published)
    BY <1>1, RowFacts
  <2>a. \A o \in Ops : \/ apc'[o] = apc[o]
                       \/ o = rop[r] /\ apc'[o].pc = "config" /\ apc'[o].gen = rgen[r] /\ apc'[o].loop = FALSE /\ Carries(r)
                          /\ rpc[r] \in {"spawn", "welcome"}
    BY <2>0 DEF Kept, Carries
  <2>b. published' \in {0, published} \/ (rpc[r] = "publish" /\ published' = rgen[r])
    BY <2>0 DEF Moved
  <2>e. ASSUME published # 0, rpc[r] # "publish"
        PROVE  \/ entry'[published] = entry[published]
               \/ /\ rpc[r] \in {"repair", "reserve"} /\ entry[published].st \in {"absent", "ready", "failed"}
                  /\ entry'[published] = [st |-> "attaching", op |-> nextOp + 1]
               \/ entry'[published].st \in {"removing", "absent"}
    BY <2>e, <2>0, <1>g DEF Moved
  (* a request reserves an attach in the published session only when nobody attaches there *)
  <2>r. ASSUME published # 0, rpc[r] \in {"repair", "reserve"}, entry[published].st = "absent"
        PROVE  (\A o \in Ops : apc[o].pc = "none") /\ (\A q \in Reqs : ~Carries(q))
    <3>1. Before
      BY <2>r, <1>t DEF LockInv, Locked, BeforeInv
    <3>2. Pristine
      BY <3>1, <1>t DEF BeforeInv
    <3> QED
      BY <3>2 DEF Pristine, Carries, Booting
  <2>1. ASSUME NEW o \in Ops PROVE Attaches(o)'
    <3>1. Attaches(o)
      BY <1>a
    <3>2. apc'[o].loop => apc'[o].pc \in {"commit", "publish", "stale"}
      BY <2>a, <3>1 DEF Attaches
    <3>3. ASSUME apc'[o].gen = published', published' # 0, apc'[o].pc \notin {"none", "publish"}
          PROVE  /\ Out(published)' \/ (Pends(published, o)' /\ apc'[o].pc # "stale")
                 /\ apc'[o].pc = "commit" /\ Pends(published, o)' => published' \in looping'
      <4>1. published' = published /\ rpc[r] # "publish"
        <5>1. rpc[r] # "publish"
          BY <2>0, <2>a, <2>b, <3>3 DEF Private
        <5> QED
          BY <5>1, <2>b, <3>3
      <4>2. CASE apc'[o] = apc[o]
        <5>1. /\ Out(published) \/ (Pends(published, o) /\ apc[o].pc # "stale")
              /\ (apc[o].pc = "commit" /\ Pends(published, o) => published \in looping)
          BY <3>1, <3>3, <4>1, <4>2 DEF Attaches
        <5>2. CASE entry'[published] = entry[published]
          <6>1. Pends(published, o) /\ published \in looping => published \in looping'
            <7>1. rpc[r] \in {"unloop", "unloop2"} /\ rgen[r] = published => ~Pends(published, o)
              <8>1. Removes(r)
                BY <1>t DEF RemoveInv
              <8>2. ASSUME rpc[r] \in {"unloop", "unloop2"}, rgen[r] = published PROVE entry[published].st \in {"removing", "absent"}
                BY <8>1, <8>2, <3>3, <4>1 DEF Removes, Out
              <8> QED
                BY <8>2 DEF Pends
            <7> QED
              BY <7>1, <2>0 DEF Moved
          <6> QED
            BY <5>1, <5>2, <6>1, <4>1, <4>2 DEF Out, Pends
        <5>3. CASE entry'[published].st \in {"removing", "absent"}
          BY <5>3, <4>1 DEF Out, Pends
        <5>4. ASSUME rpc[r] \in {"repair", "reserve"}, entry[published].st \in {"absent", "ready", "failed"} PROVE FALSE
          <6>1. entry[published].st = "absent"
            BY <5>1, <5>4 DEF Out, Pends
          <6> QED
            BY <6>1, <5>4, <4>1, <4>2, <3>3, <2>r
        <5> QED
          BY <5>2, <5>3, <5>4, <4>1, <3>3, <2>e
      <4>3. CASE o = rop[r] /\ apc'[o].pc = "config" /\ apc'[o].gen = rgen[r] /\ Carries(r) /\ rpc[r] \in {"spawn", "welcome"}
        <5>1. entry'[published] = entry[published]
          BY <4>1, <4>3, <3>3, <2>0, <1>g DEF Moved
        <5>2. Out(published) \/ Pends(published, o)
          BY <4>1, <4>3, <3>3, <1>c
        <5> QED
          BY <5>1, <5>2, <4>1, <4>3 DEF Out, Pends
      <4> QED
        BY <2>a, <4>2, <4>3
    <3> QED
      BY <3>2, <3>3 DEF Attaches
  <2>f. ASSUME Carries(r)' PROVE /\ rop'[r] = nextOp + 1 /\ rgen'[r] = rgen[r] /\ rgen[r] \in Gens /\ rpc[r] \in {"repair", "reserve"}
                                 /\ Put(rgen[r], "attaching", nextOp + 1)
    <3>1. CASE rpc'[r] = "spawn"
      BY <3>1, <2>0 DEF CameAttach, InSession
    <3>2. CASE rpc'[r] = "welcome" /\ rop'[r] # 0
      <4>1. rpc[r] = "reserve" /\ Kind(r) = "add" /\ rgen[r] \in Gens
        BY <3>2, <2>0 DEF CameAttach, InSession
      <4>2. entry[rgen[r]].st = "absent"
        BY <4>1, <1>t DEF BeforeInv, Before, Pristine
      <4> QED
        BY <3>2, <4>1, <4>2, <2>0 DEF CameAttach
    <3> QED
      BY <2>f, <3>1, <3>2 DEF Carries
  <2>q. \A q \in Reqs \ {r} : (Carries(q)' <=> Carries(q)) /\ rop'[q] = rop[q] /\ rgen'[q] = rgen[q]
    BY <2>0 DEF Apart, Carries
  <2>2. ASSUME NEW q \in Reqs, Carries(q)' PROVE apc'[rop'[q]].pc = "none"
    <3>1. CASE q # r
      <4>1. Carries(q) /\ rop'[q] = rop[q] /\ apc[rop[q]].pc = "none" /\ rop[q] \in Ops
        BY <3>1, <2>2, <2>q, <1>c
      <4>2. ~(Carries(r) /\ rop[q] = rop[r])
        BY <3>1, <4>1, <1>u
      <4> QED
        BY <4>1, <4>2, <2>a
    <3>2. CASE q = r
      <4>1. rop'[r] = nextOp + 1 /\ rpc[r] \in {"repair", "reserve"}
        BY <3>2, <2>2, <2>f
      <4>2. rop'[r] \in Ops
        <5>1. rop'[r] \in 0..MaxOp
          BY TypeStep DEF TypeInv, TypeOK
        <5> QED
          BY <5>1, <4>1, <1>g, MemberAssumption, SMT DEF Ops
      <4>3. apc'[rop'[r]] = apc[rop'[r]]
        BY <4>1, <4>2, <2>a
      <4> QED
        BY <3>2, <4>1, <4>2, <4>3, <1>n
    <3> QED
      BY <3>1, <3>2
  <2>3. ASSUME NEW q \in Reqs, Carries(q)', rgen'[q] = published', published' # 0 PROVE Out(published)' \/ Pends(published, rop[q])'
    <3>1. CASE q # r
      <4>1. Carries(q) /\ rop'[q] = rop[q] /\ rgen[q] = published'
        BY <3>1, <2>3, <2>q
      <4>2. published' = published /\ rpc[r] # "publish"
        <5>1. rpc[r] # "publish"
          BY <3>1, <4>1, <2>0, <2>b, <2>3 DEF Private
        <5> QED
          BY <5>1, <2>b, <2>3
      <4>3. Out(published) \/ Pends(published, rop[q])
        BY <4>1, <4>2, <2>3, <1>c
      <4>4. ASSUME rpc[r] \in {"repair", "reserve"}, entry[published].st \in {"absent", "ready", "failed"} PROVE FALSE
        <5>1. entry[published].st = "absent"
          BY <4>3, <4>4 DEF Out, Pends
        <5> QED
          BY <5>1, <4>1, <4>2, <4>4, <2>3, <2>r
      <4>5. entry'[published] = entry[published] \/ entry'[published].st \in {"removing", "absent"}
        BY <4>2, <4>4, <2>3, <2>e
      <4> QED
        BY <4>1, <4>2, <4>3, <4>5 DEF Out, Pends
    <3>2. CASE q = r
      <4>1. /\ rop'[r] = nextOp + 1 /\ rgen'[r] = rgen[r] /\ rgen[r] \in Gens /\ rpc[r] \in {"repair", "reserve"}
            /\ Put(rgen[r], "attaching", nextOp + 1)
        BY <3>2, <2>3, <2>f
      <4>2. published' = rgen[r]
        BY <3>2, <4>1, <2>3
      <4>3. entry'[rgen[r]] = [st |-> "attaching", op |-> nextOp + 1]
        BY <4>1, <1>t DEF Put, TypeOK
      <4> QED
        BY <3>2, <4>1, <4>2, <4>3 DEF Pends
    <3> QED
      BY <3>1, <3>2
  <2>4. ASSUME NEW p \in Reqs, NEW q \in Reqs, Carries(p)', Carries(q)', rop'[p] = rop'[q] PROVE p = q
    BY <2>4, <2>f, <2>q, <1>c, <1>u
  <2> QED
    BY <2>1, <2>2, <2>3, <2>4, <1>w
<1>2. ASSUME NEW op \in Ops, Attach(op) PROVE AttachInv'
  <2>0. UNCHANGED <<published, req, closed>> /\ (\A o \in Ops \ {op} : apc'[o] = apc[o]) /\ apc[op].pc # "none" /\ Worked(op)
    BY <1>2, <1>t, AttachApart, AttachMoves
  <2>e. ASSUME published # 0
        PROVE  \/ entry'[published] = entry[published]
               \/ /\ apc[op].gen = published /\ Pends(published, op) /\ apc[op].pc \in {"commit", "failed"}
                  /\ entry'[published].st \in {"ready", "failed"}
    <3>1. \/ entry'[published] = entry[published]
          \/ /\ apc[op].gen = published /\ OwnsAttach(published, op) /\ apc[op].pc \in {"commit", "failed"}
             /\ entry'[published] = [st |-> "ready", op |-> 0] \/ entry'[published] = [st |-> "failed", op |-> op]
      BY <2>e, <1>2, <1>t, <1>g, AttachKeeps
    <3> QED
      BY <3>1 DEF OwnsAttach, Pends
  <2>o. Pends(published, op) /\ apc[op].gen = published => OwnsAttach(apc[op].gen, op)
    BY <1>g DEF Pends, OwnsAttach
  <2>1. ASSUME NEW o \in Ops PROVE Attaches(o)'
    <3>1. Attaches(o) /\ Attaches(op)
      BY <1>a
    <3>2. CASE o # op
      <4>1. apc'[o] = apc[o]
        BY <3>2, <2>0
      <4>2. ASSUME apc[o].gen = published, published # 0, apc[o].pc \notin {"none", "publish"}
            PROVE  /\ Out(published)' \/ (Pends(published, o)' /\ apc'[o].pc # "stale")
                   /\ apc'[o].pc = "commit" /\ Pends(published, o)' => published' \in looping'
        <5>1. /\ Out(published) \/ (Pends(published, o) /\ apc[o].pc # "stale")
              /\ (apc[o].pc = "commit" /\ Pends(published, o) => published \in looping)
          BY <4>2, <3>1 DEF Attaches
        <5>2. ~Pends(published, op)
          BY <3>2, <5>1 DEF Out, Pends
        <5>3. entry'[published] = entry[published]
          BY <4>2, <5>2, <2>e
        <5>4. Pends(published, o) /\ published \in looping => published \in looping'
          <6>1. apc[op].pc = "stale" /\ apc[op].gen = published => Out(published)
            BY <4>2, <3>1 DEF Attaches
          <6>2. Out(published) => ~Pends(published, o)
            BY DEF Out, Pends
          <6> QED
            BY <6>1, <6>2, <2>0 DEF Worked
        <5> QED
          BY <5>1, <5>3, <5>4, <4>1, <2>0 DEF Out, Pends
      <4> QED
        BY <4>1, <4>2, <3>1, <2>0 DEF Attaches
    <3>3. CASE o = op
      <4>1. apc'[op].loop => apc'[op].pc \in {"commit", "publish", "stale"}
        BY <3>1, <2>0 DEF Worked, Attaches
      <4>2. ASSUME apc'[op].gen = published, published # 0, apc'[op].pc \notin {"none", "publish"}
            PROVE  /\ Out(published)' \/ (Pends(published, op)' /\ apc'[op].pc # "stale")
                   /\ apc'[op].pc = "commit" => published \in looping'
        <5>1. apc[op].gen = published /\ apc[op].pc \notin {"none", "publish"}
          BY <4>2, <2>0 DEF Worked
        <5>2. Out(published) \/ (Pends(published, op) /\ apc[op].pc # "stale")
          BY <4>2, <5>1, <3>1 DEF Attaches
        <5>3. entry'[published] = entry[published]
          <6>1. Pends(published, op) /\ apc[op].pc \in {"commit", "failed"} => FALSE
            BY <4>2, <5>1, <2>0, <2>o DEF Worked
          <6> QED
            BY <6>1, <4>2, <2>e
        <5>4. Pends(published, op) /\ apc[op].pc # "stale" => apc'[op].pc # "stale"
          BY <5>1, <2>0, <2>o DEF Worked
        <5>5. apc'[op].pc = "commit" => published \in looping'
          BY <5>1, <2>0 DEF Worked
        <5> QED
          BY <5>2, <5>3, <5>4, <5>5, <2>0 DEF Out, Pends
      <4> QED
        BY <4>1, <4>2, <3>3, <2>0 DEF Attaches
    <3> QED
      BY <3>2, <3>3
  <2>2. \A q \in Reqs : (Carries(q)' <=> Carries(q)) /\ rop'[q] = rop[q] /\ rgen'[q] = rgen[q]
    BY <2>0 DEF Carries, req
  <2>3. ASSUME NEW q \in Reqs, Carries(q) PROVE apc'[rop[q]].pc = "none"
    BY <2>3, <2>0, <1>c
  <2>4. ASSUME NEW q \in Reqs, Carries(q), rgen[q] = published, published # 0 PROVE Out(published)' \/ Pends(published, rop[q])'
    <3>1. Out(published) \/ Pends(published, rop[q])
      BY <2>4, <1>c
    <3>2. rop[q] # op
      BY <2>4, <2>0, <1>c
    <3>3. ~Pends(published, op)
      BY <3>1, <3>2 DEF Out, Pends
    <3>4. entry'[published] = entry[published]
      BY <3>3, <2>4, <2>e
    <3> QED
      BY <3>1, <3>4, <2>0, <2>2 DEF Out, Pends
  <2> QED
    BY <2>0, <2>1, <2>2, <2>3, <2>4, <1>u, <1>w
<1>3. CASE Vanish
  BY <1>3, <1>t DEF Vanish, AttachInv, Attaches, Carries, Out, Pends, req, registry, evloops
<1>4. ASSUME NEW r \in Reqs, Drop(r) PROVE AttachInv'
  <2>1. /\ Apart(r) /\ UNCHANGED <<conv, published, entry, looping, rgen, apc>> /\ rpc'[r] = "done"
        /\ rpc[r] \in {"look", "wait", "boot", "welcome", "persist", "finish", "delete"} \cup Booting
    BY <1>4, DropFacts
  <2>2. \A q \in Reqs : Carries(q)' => Carries(q) /\ rop'[q] = rop[q]
    BY <2>1 DEF Carries, Apart
  <2> QED
    BY <2>1, <2>2, <1>t DEF AttachInv, Attaches, Out, Pends
<1> QED
  BY <1>0, <1>1, <1>2, <1>3, <1>4 DEF Next

(* The entry and the loop of the published session follow the row, or somebody is going to see to it. *)
LEMMA FollowStep ==
    ASSUME SessionInv, Row, [Next]_vars, Sound'
    PROVE  FollowInv'
<1>t. TypeOK /\ StopInv /\ LockInv /\ RemoveInv /\ AttachInv /\ FollowInv /\ stored \in BOOLEAN
  BY DEF SessionInv, TypeInv, Row, TypeOK
<1>g. (published # 0 => published \in Gens) /\ published \notin closed
  BY <1>t, MemberAssumption, SMT DEF TypeOK, Gens, StopInv
<1>a. \A o \in Ops : Attaches(o)
  BY <1>t DEF AttachInv
<1> DEFINE Unloops(r) == rpc[r] \in {"join", "unloop2"} /\ rgen[r] = published
           Holds(o) == apc[o].gen = published /\ apc[o].loop /\ apc[o].pc \in {"commit", "stale"}
<1>f. published # 0 =>
        /\ entry[published].st = "ready" => published \in looping
        /\ ~stored => Out(published) \/ \E q \in Reqs : Checks(q)
        /\ ~stored /\ published \in looping =>
              (\E q \in Reqs : Checks(q)) \/ (\E q \in Reqs : Unloops(q)) \/ (\E o \in Ops : Holds(o))
  BY <1>t DEF FollowInv
<1>w. ASSUME published' # 0 =>
               /\ entry'[published'].st = "ready" => published' \in looping'
               /\ ~stored' => Out(published)' \/ \E q \in Reqs : Checks(q)'
               /\ ~stored' /\ published' \in looping' =>
                     (\E q \in Reqs : Checks(q)') \/ (\E q \in Reqs : Unloops(q)') \/ (\E o \in Ops : Holds(o)')
      PROVE  FollowInv'
  BY <1>w DEF FollowInv
<1>0. CASE UNCHANGED vars
  BY <1>0, <1>t DEF FollowInv, Checks, Out, vars, req, registry, evloops, conv
<1>1. ASSUME NEW r \in Reqs, Request(r) PROVE FollowInv'
  <2>0. /\ Apart(r) /\ Kept(r) /\ Moved(r) /\ CameAttach(r) /\ CameRemove(r)
        /\ (rpc[r] \in InSession => rgen[r] \in Gens)
        /\ (rpc[r] = "publish" => Private(r) /\ published = 0)
        /\ (rpc[r] \in {"halt", "shutdown"} => rgen[r] # published)
    BY <1>1, RowFacts
  <2>1. CASE rpc[r] = "publish"
    <3>1. /\ published' = 0 \/ (published' = rgen[r] /\ stored' = stored /\ rgen[r] \in Gens)
          /\ entry[rgen[r]].st = "absent" /\ rgen[r] \notin looping
      BY <2>0, <2>1 DEF Moved, Private, InSession, Booting
    <3>2. CASE published' = 0
      BY <3>2, <1>w
    <3>3. CASE published' = rgen[r] /\ rgen[r] \in Gens /\ stored = TRUE
      <4>1. entry'[rgen[r]].st = "ready" /\ rgen[r] \in looping'
        BY <3>3, <2>0, <2>1 DEF Moved
      <4> QED
        BY <3>1, <3>3, <4>1, <1>w
    <3>4. CASE published' = rgen[r] /\ rgen[r] \in Gens /\ stored = FALSE
      <4>1. entry'[rgen[r]] = entry[rgen[r]] /\ looping' = looping
        BY <3>4, <2>0, <2>1 DEF Moved
      <4> QED
        BY <3>1, <3>4, <4>1, <1>w DEF Out
    <3> QED
      BY <3>1, <3>2, <3>3, <3>4, <1>t
  <2>2. CASE rpc[r] # "publish" /\ (published' # published \/ published' = 0)
    <3>1. published' = 0
      BY <2>0, <2>2 DEF Moved
    <3> QED
      BY <3>1, <1>w
  <2>3. CASE rpc[r] # "publish" /\ published' = published /\ published # 0
    <3>g. published \in Gens
      BY <2>3, <1>g
    <3>r. Removes(r) /\ Locked(r)
      BY <1>t DEF RemoveInv, LockInv
    <3>e. \/ entry'[published] = entry[published]
          \/ /\ rpc[r] \in {"repair", "reserve"} /\ entry'[published].st = "attaching"
          \/ entry'[published].st \in {"removing", "absent"}
      BY <3>g, <2>0, <2>3 DEF Moved
    <3>l. \/ looping' = looping
          \/ rpc[r] \in {"unloop", "unloop2"} /\ rgen[r] = published /\ entry' = entry /\ Out(published) /\ looping' = looping \ {published}
          \/ rgen[r] # published /\ looping' = looping \ {rgen[r]}
      <4>1. rpc[r] \in {"unloop", "unloop2"} /\ rgen[r] = published => Out(published)
        BY <3>r, <2>3 DEF Removes, Out
      <4> QED
        BY <4>1, <2>0, <2>3 DEF Moved
    <3>s. \/ stored' = stored
          \/ stored' = FALSE /\ rpc'[r] = "current"
          \/ stored' = TRUE
      BY <2>0 DEF Moved
    <3>1. entry'[published].st = "ready" => published \in looping'
      BY <3>e, <3>l, <1>f, <2>3 DEF Out
    <3>q. \A q \in Reqs \ {r} : (Checks(q) => Checks(q)') /\ (Unloops(q) => Unloops(q)')
      BY <2>0, <2>3 DEF Checks, Apart
    <3>p. ASSUME Put(rgen[r], "removing", nextOp + 1), rgen[r] = published
          PROVE  entry'[published].st = "removing"
      <4>1. entry'[published] = [st |-> "removing", op |-> nextOp + 1]
        BY <3>p, <3>g, <1>t DEF Put, TypeOK
      <4> QED
        BY <4>1
    <3>c. ASSUME Checks(r) PROVE Checks(r)' \/ (Unloops(r)' /\ Out(published)')
      <4>1. CASE rpc[r] = "current"
        <5>1. \/ rpc'[r] = "unloop2" /\ rgen[r] = published /\ rgen'[r] = rgen[r] /\ entry' = entry
              \/ rpc'[r] = "begin2" /\ rgen'[r] = published
          BY <4>1, <2>0, <2>3 DEF CameRemove
        <5>2. rgen[r] = published => Out(published)
          BY <4>1, <3>r, <2>3 DEF Removes, Out
        <5> QED
          BY <5>1, <5>2, <2>3 DEF Checks, Out
      <4>2. CASE rpc[r] = "begin2" /\ rgen[r] = published
        <5>1. \/ rpc'[r] = "join" /\ rgen'[r] = rgen[r] /\ entry' = entry /\ entry[published].st = "removing"
              \/ /\ rpc'[r] = "unloop2" /\ rgen'[r] = rgen[r]
                 /\ (entry' = entry /\ entry[published].st = "absent") \/ Put(rgen[r], "removing", nextOp + 1)
          BY <4>2, <2>0, <1>g DEF CameRemove
        <5> QED
          BY <5>1, <4>2, <3>p, <2>3 DEF Out
      <4> QED
        BY <3>c, <4>1, <4>2 DEF Checks
    <3>u. ASSUME Unloops(r) PROVE Unloops(r)' \/ published \notin looping'
      BY <3>u, <2>0, <2>3 DEF CameRemove
    <3>o. ASSUME NEW o \in Ops, Holds(o) PROVE Holds(o)'
      <4>1. apc'[o] = apc[o] \/ (o = rop[r] /\ Carries(r))
        BY <2>0 DEF Kept, Carries
      <4>2. Carries(r) => apc[rop[r]].pc = "none"
        BY <1>t DEF AttachInv
      <4>3. apc'[o] = apc[o]
        BY <4>1, <4>2, <3>o
      <4> QED
        BY <4>3, <3>o, <2>3
    <3> HIDE DEF Unloops, Holds
    <3>2. ASSUME ~stored' PROVE Out(published)' \/ \E q \in Reqs : Checks(q)'
      <4>1. CASE rpc'[r] = "current"
        BY <4>1 DEF Checks
      <4>2. CASE ~stored /\ Out(published)
        <5>1. rpc[r] \notin {"repair", "reserve"}
          BY <4>2, <3>r DEF Locked
        <5> QED
          BY <4>2, <5>1, <3>e, <2>3 DEF Out
      <4>3. ASSUME NEW q \in Reqs, Checks(q) PROVE Out(published)' \/ \E p \in Reqs : Checks(p)'
        BY <4>3, <3>q, <3>c
      <4> QED
        BY <3>2, <3>s, <4>1, <4>2, <4>3, <1>f, <2>3
    <3>3. ASSUME ~stored', published \in looping'
          PROVE  (\E q \in Reqs : Checks(q)') \/ (\E q \in Reqs : Unloops(q)') \/ (\E o \in Ops : Holds(o)')
      <4>1. CASE rpc'[r] = "current"
        BY <4>1 DEF Checks
      <4>2. published \in looping
        BY <3>3, <3>l
      <4>3. ASSUME NEW q \in Reqs, Checks(q) \/ Unloops(q) PROVE (\E p \in Reqs : Checks(p)') \/ (\E p \in Reqs : Unloops(p)')
        BY <4>3, <3>3, <3>q, <3>c, <3>u
      <4> QED
        BY <3>3, <3>s, <4>1, <4>2, <4>3, <3>o, <1>f, <2>3
    <3> QED
      BY <3>1, <3>2, <3>3, <2>3, <1>w
  <2> QED
    BY <2>1, <2>2, <2>3
<1>2. ASSUME NEW op \in Ops, Attach(op) PROVE FollowInv'
  <2>0. /\ UNCHANGED <<published, req, closed, conv>> /\ (\A o \in Ops \ {op} : apc'[o] = apc[o]) /\ apc[op].pc # "none" /\ Worked(op)
    BY <1>2, <1>t, AttachApart, AttachMoves
  <2>1. SUFFICES ASSUME published # 0 PROVE FollowInv'
    BY <2>0, <1>w
  <2>e. \/ entry'[published] = entry[published]
        \/ /\ apc[op].gen = published /\ Pends(published, op)
           /\ (apc[op].pc = "commit" /\ published \in looping /\ looping' = looping) \/ entry'[published].st = "failed"
    <3>1. \/ entry'[published] = entry[published]
          \/ /\ apc[op].gen = published /\ OwnsAttach(published, op)
             /\ apc[op].pc = "commit" \/ entry'[published] = [st |-> "failed", op |-> op]
      BY <2>1, <1>2, <1>t, <1>g, AttachKeeps
    <3>2. Attaches(op)
      BY <1>a
    <3>3. apc[op].gen = published /\ apc[op].pc = "commit" /\ Pends(published, op) => published \in looping
      BY <3>2, <2>1 DEF Attaches
    <3>4. apc[op].pc = "commit" => looping' = looping
      BY <2>0 DEF Worked
    <3>5. OwnsAttach(published, op) => Pends(published, op)
      BY DEF OwnsAttach, Pends
    <3> QED
      BY <3>1, <3>3, <3>4, <3>5
  <2>l. \/ looping' = looping
        \/ looping' = looping \ {apc[op].gen} /\ (apc[op].gen = published => Out(published) /\ entry'[published] = entry[published])
        \/ looping' = looping \cup {apc[op].gen} /\ (apc[op].gen = published => Holds(op)')
    <3>1. Attaches(op)
      BY <1>a
    <3>2. apc[op].gen = published /\ apc[op].pc = "stale" => Out(published)
      BY <3>1, <2>1 DEF Attaches
    <3>3. Out(published) => entry'[published] = entry[published]
      BY <2>e DEF Out, Pends
    <3>4. apc[op].pc = "register" /\ apc'[op].pc = "commit" /\ apc'[op].loop => apc'[op].gen = apc[op].gen
      BY <2>0 DEF Worked
    <3>5. \/ looping' = looping
          \/ apc[op].pc = "stale" /\ looping' = looping \ {apc[op].gen}
          \/ apc[op].pc = "register" /\ apc'[op].pc = "commit" /\ apc'[op].loop /\ looping' = looping \cup {apc[op].gen}
      BY <2>0 DEF Worked
    <3> QED
      BY <3>2, <3>3, <3>4, <3>5, <2>0
  <2>q. \A q \in Reqs : (Checks(q)' <=> Checks(q)) /\ (Unloops(q)' <=> Unloops(q))
    BY <2>0 DEF Checks, req
  <2>s. stored' = stored /\ published' = published
    BY <2>0 DEF conv
  <2>2. entry'[published].st = "ready" => published \in looping'
    BY <2>e, <2>l, <1>f, <2>1 DEF Out
  <2>3. ~stored => Out(published)' \/ \E q \in Reqs : Checks(q)'
    <3>1. Out(published) => Out(published)'
      BY <2>e, <2>s DEF Out, Pends
    <3> QED
      BY <3>1, <2>q, <2>1, <1>f
  <2>4. ASSUME ~stored, published \in looping'
        PROVE  (\E q \in Reqs : Checks(q)') \/ (\E q \in Reqs : Unloops(q)') \/ (\E o \in Ops : Holds(o)')
    <3>1. CASE published \notin looping
      BY <3>1, <2>4, <2>l
    <3>2. CASE published \in looping /\ ~\E q \in Reqs : Checks(q) \/ Unloops(q)
      <4>1. PICK o \in Ops : Holds(o)
        BY <3>2, <2>4, <2>1, <1>f
      <4>2. CASE o # op
        <5>1. apc'[o] = apc[o]
          BY <4>2, <2>0
        <5> QED
          BY <4>1, <5>1, <2>s
      <4>3. CASE o = op
        <5>1. apc[op].pc = "commit"
          <6>1. apc[op].pc = "stale" /\ apc[op].loop => looping' = looping \ {apc[op].gen}
            BY <2>0 DEF Worked
          <6> QED
            BY <6>1, <4>1, <4>3, <2>4
        <5>2. ~OwnsAttach(published, op)
          <6>1. Out(published)
            BY <3>2, <2>4, <2>1, <1>f
          <6> QED
            BY <6>1 DEF OwnsAttach, Out
        <5>3. apc'[op].pc = "stale" /\ apc'[op].loop = apc[op].loop /\ apc'[op].gen = apc[op].gen
          BY <5>1, <5>2, <4>1, <4>3, <2>0 DEF Worked
        <5> QED
          BY <5>3, <4>1, <4>3, <2>s
      <4> QED
        BY <4>2, <4>3
    <3> QED
      BY <3>1, <3>2, <2>q
  <2> QED
    BY <2>2, <2>3, <2>4, <2>s, <1>w
<1>3. CASE Vanish
  BY <1>3, <1>t DEF Vanish, FollowInv, Checks, Out, req, registry, evloops, conv
<1>4. ASSUME NEW r \in Reqs, Drop(r) PROVE FollowInv'
  <2>1. /\ Apart(r) /\ UNCHANGED <<conv, published, entry, looping, rgen, apc>> /\ rpc'[r] = "done"
        /\ rpc[r] \in {"look", "wait", "boot", "welcome", "persist", "finish", "delete"} \cup Booting
    BY <1>4, DropFacts
  <2>2. \A q \in Reqs : /\ Checks(q) => Checks(q)'
                        /\ rpc[q] \in {"join", "unloop2"} => rpc'[q] = rpc[q]
    BY <2>1 DEF Checks, Apart, Booting
  <2> QED
    BY <2>1, <2>2, <1>t DEF FollowInv, Out, conv
<1> QED
  BY <1>0, <1>1, <1>2, <1>3, <1>4 DEF Next

(* Every step keeps what the row, the entry and the loop say of each other. *)
LEMMA RowStep ==
    ASSUME SessionInv, RowInv, [Next]_vars
    PROVE  RowInv'
<1>1. ASSUME Sound' PROVE Row'
  <2>1. Sound
    BY <1>1, SoundStep
  <2>2. Row
    BY <2>1 DEF RowInv, Row
  <2>3. LockInv' /\ BeforeInv' /\ RemoveInv' /\ AttachInv' /\ FollowInv'
    BY <1>1, <2>2, LockStep, BeforeStep, RemoveStep, AttachStep, FollowStep
  <2> QED
    BY <2>3 DEF Row
<1> QED
  BY <1>1 DEF RowInv, Row

(* MemberInvariant: sessions, operations, the row, the entry and the loop of *)
(* the published session stay consistent whatever the requests do.           *)
THEOREM MemberInvariant == Spec => []IInv
<1>1. Init => RowInv
  <2>1. SUFFICES ASSUME Init PROVE Row
    BY DEF RowInv, Row
  <2>2. /\ published = 0 /\ looping = {} /\ scn \in Scenarios /\ stored = scn.stored
        /\ (\A r \in Reqs : rpc[r] = "new") /\ (\A op \in Ops : apc[op].pc = "none" /\ apc[op].loop = FALSE)
        /\ \A g \in Gens : entry[g].st = "absent"
    BY <2>1 DEF Init, NoTask
  <2>3. LockInv
    BY <2>2 DEF LockInv, Locked, Removed
  <2>4. BeforeInv
    <3>1. Before => ~stored
      BY <2>2, MemberAssumption DEF Before, Kind
    <3>2. Before => Pristine
      BY <2>2, <3>1 DEF Pristine
    <3> QED
      BY <2>2, <3>2 DEF BeforeInv
  <2>5. RemoveInv /\ FollowInv
    BY <2>2 DEF RemoveInv, Removes, FollowInv
  <2>6. AttachInv
    BY <2>2 DEF AttachInv, Attaches, Carries
  <2> QED
    BY <2>3, <2>4, <2>5, <2>6 DEF Row
<1>2. SessionInv /\ RowInv /\ [Next]_vars => RowInv'
  BY RowStep
<1> QED
  BY <1>1, <1>2, SessionsAreOwned, PTL DEF Spec, IInv

(* SettledMember: when nothing is in progress, no stopped session keeps an   *)
(* event loop, and unless a read or a write failed, or a handler was dropped *)
(* between the row and the entry, the published session agrees with the      *)
(* row: add_agent, remove_agent, ensure_session and stop_session, in         *)
(* whatever order their steps come and wherever else their clients go away,  *)
(* leave neither a ready member without its loop nor a removed one with an   *)
(* entry or a loop.                                                          *)
THEOREM MembersSettle == Spec => []SettledMember
<1>1. ASSUME IInv PROVE SettledMember
  <2>1. SUFFICES ASSUME Quiet
                 PROVE  /\ looping \subseteq {published}
                        /\ (published # 0 /\ Sound) =>
                             /\ entry[published].st = "ready" => published \in looping
                             /\ ~stored => published \notin looping /\ entry[published].st = "absent"
    BY DEF SettledMember, Sound
  <2>t. TypeOK /\ StopInv /\ NoOrphanOperation /\ RowInv
    BY <1>1 DEF IInv, SessionInv, TypeInv
  <2>q. (\A r \in Reqs : rpc[r] \in {"new", "done", "lost"}) /\ (\A op \in Ops : apc[op].pc = "none")
    BY <2>1 DEF Quiet, NoTask
  <2>2. looping \subseteq {published}
    <3>1. ASSUME NEW g \in looping PROVE g = published
      <4>1. g \in 1..gens /\ g \notin loopsClosed
        BY <3>1, <2>t DEF TypeOK, StopInv
      <4>2. Known(g)
        BY <4>1, <2>t DEF StopInv
      <4> QED
        BY <4>1, <4>2, <2>q DEF Known, Booting
    <3> QED
      BY <3>1
  <2>3. ASSUME published # 0, Sound
        PROVE  /\ entry[published].st = "ready" => published \in looping
               /\ ~stored => published \notin looping /\ entry[published].st = "absent"
    <3>1. FollowInv
      BY <2>3, <2>t DEF RowInv
    <3>2. \A r \in Reqs : ~Checks(r) /\ rpc[r] \notin {"join", "unloop2"}
      BY <2>q DEF Checks
    <3>3. entry[published].st # "removing"
      <4>1. published \in Gens \ {rgen[r] : r \in {q \in Reqs : rpc[q] = "halt"}}
        <5>1. published \in Gens
          BY <2>3, <2>t, MemberAssumption, SMT DEF TypeOK, Gens
        <5> QED
          BY <5>1, <2>q
      <4>2. ASSUME entry[published].st = "removing" PROVE FALSE
        <5>1. (\E r \in Reqs : rpc[r] \in {"unloop", "stopruntime", "persist", "restore", "current", "unloop2", "kill2", "finish"})
              \/ "load" \in faults \/ \E r \in Reqs : rpc[r] = "lost"
          BY <4>1, <4>2, <2>t DEF NoOrphanOperation, Lost
        <5> QED
          BY <5>1, <2>q, <2>3 DEF Sound
      <4> QED
        BY <4>2
    <3> QED
      BY <2>3, <2>q, <3>1, <3>2, <3>3 DEF FollowInv, Out
  <2> QED
    BY <2>2, <2>3
<1> QED
  BY <1>1, MemberInvariant, PTL
=============================================================================
