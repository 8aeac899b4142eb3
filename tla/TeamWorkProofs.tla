--------------------------- MODULE TeamWorkProofs ---------------------------
(***************************************************************************)
(* Theorems about TeamWork, for every set of slots and requests and every  *)
(* workload.                                                               *)
(***************************************************************************)
EXTENDS TeamWork, TLAPS

-----------------------------------------------------------------------------
(* The inductive invariant *)

Constraints == {"starting", "ready", "failed", "removing", "stopped"}
Classes     == {"failed", "idle", "running", "busy", "void"}
Batches     == [op : 0..MaxOps, ids : SUBSET Ids, turn : BOOLEAN]
AdmSteps    == {"idle", "cancelling", "stopping", "child", "cancel_batch", "removing", "killing",
                "restoring", "finishing", "leaving", "departed", "halting", "halted"}

LoopSteps   == {"gone", "wait", "sync", "set", "peek", "reconcile", "next", "signal",
                "prepare", "start", "late", "drop", "running", "finish", "fail",
                "idle", "note", "wake", "waking"}

(* TypeOK with the variables it does not bound *)
TypeInv ==
    /\ TypeOK
    /\ scn \in Workloads
    /\ pub \in [Actors -> SUBSET ((0..MaxRuns) \X Classes)]
    /\ settle \in [Actors -> SUBSET Reqs]
    /\ seen \in [Reqs \cup Slots -> Constraints]
    /\ lunread \in [Slots -> SUBSET Reqs]
    /\ adm \in [pc : AdmSteps, slot : Slots, run : 0..MaxRuns, batch : Batches,
                todo : SUBSET (Slots \X (0..MaxOps))]

(* a request that has not committed has no intent of its own *)
NewInv == \A r \in Reqs : rpc[r] \notin {"notify", "done"} => ist[<<r, 0>>] = "none"

(* Operation ids are not reused: a loop or an administrative operation whose *)
(* batch is still the current one knows its intents.                         *)
BatchInv ==
    /\ \A s \in Slots :
          /\ active[s].op <= nextOp[s]
          /\ lpc[s] \in Executing =>
                /\ lbatch[s].op \in 1..nextOp[s] /\ lbatch[s].ids # {}
                /\ lbatch[s].op = active[s].op => lbatch[s].ids = active[s].ids
    /\ adm.pc \in {"child", "cancel_batch"} =>
          /\ adm.batch.op \in 1..nextOp[adm.slot]
          /\ adm.batch.op = active[adm.slot].op => adm.batch.ids = active[adm.slot].ids

(* An error while messages are marked read ends a loop's round only between  *)
(* batches, and never the halt of the session; a loop is aborted only by a   *)
(* removal of its slot or the halt.                                          *)
Departing == {"killing", "restoring", "finishing", "leaving"}
AbortInv ==
    /\ \A s \in Slots : settle[s] # {} => lpc[s] = "peek"
    /\ Halted => settle[Admin] = {}
    /\ adm.pc \in Departing => adm.slot \in removed
    /\ \A s \in aborting : s \in removed \/ adm.pc = "halted"

IInv == TypeInv /\ IntentHome /\ NewInv /\ BatchInv /\ AbortInv /\ SlotNotWedged

(* When the mailbox row of a request is written, and that nothing refers to  *)
(* the row before.                                                           *)
RowInv(r) ==
    /\ Persists(r) => /\ rpc[r] \in {"new", "set", "acquire", "write"} => mail[r] = "none"
                      /\ rpc[r] = "commit" => mail[r] # "none"
    /\ Kind(r) \in {"notice", "departure"} => /\ rpc[r] = "new" => mail[r] = "none"
                                              /\ rpc[r] \notin {"new", "done"} => mail[r] # "none"
    /\ Kind(r) \in {"recovery", "leftover"} => mail[r] # "none"
    /\ Kind(r) \in {"unused", "leftover", "idle"} => rpc[r] = "new"
    /\ rpc[r] = "write" => Persists(r)
MailInv ==
    /\ \A r \in Reqs : RowInv(r)
    /\ \A r \in Reqs : mail[r] = "none" => prompted[r] = 0
    /\ \A r \in Reqs : settle[r] # {} => rpc[r] \in {"acquire", "done"}
    /\ \A i \in Ids : HasMessage(i) /\ ist[i] # "none" => mail[i[1]] # "none"
    /\ \A a \in Actors : \A r \in settle[a] : mail[r] # "none"
    /\ \A s \in Slots : \A r \in lunread[s] : mail[r] # "none" /\ To(r) = s
    /\ \A s \in Slots : \A i \in lbatch[s].ids : HasMessage(i) => mail[i[1]] # "none"

(* The member of a loop that was aborted is not attached again, unless the   *)
(* row of a removal could not be written                                     *)
Dead(s) == member[s] \in {"removing", "absent", "stopped"}
DeadInv ==
    /\ adm.pc \in {"removing"} \cup Departing => Dead(adm.slot)
    /\ adm.pc = "restoring" => "db" \in faults
    /\ "db" \notin faults => \A s \in aborting : Dead(s)

(* A message that was part of a prompt is read, or will be when the turn of  *)
(* its slot ends; a round never carries one that was                         *)
PromptInv ==
    "db" \notin faults => \A r \in Reqs :
        /\ prompted[r] <= 1
        /\ prompted[r] = 1 =>
              \/ mail[r] = "read"
              \/ lpc[To(r)] \in {"late", "drop", "running"} /\ r \in Messages(lbatch[To(r)].ids)
              \/ lpc[To(r)] = "gone" /\ Dead(To(r))
        /\ \A s \in Slots : lpc[s] \in {"reconcile", "next", "prepare", "start"} /\ r \in lunread[s] => prompted[r] = 0

(* What the steps of an administrative operation know, and who stops *)
CallInv ==
    /\ adm.pc # "stopping" => adm.todo = {}
    /\ adm.pc \in {"child", "cancel_batch"} => admDone \cap {"cancel_child", "pause"} # {}
    /\ adm.pc = "cancelling" => "cancel_run" \in admDone /\ adm.run # 0
    /\ run.id = 0 => run.status = "none"
    /\ Halted => "stop" \in admDone
    /\ \A s \in Slots : "stopped" \in {constraint[s], member[s]} => "stop" \in admDone
    /\ \A a \in Reqs \cup Slots : seen[a] = "stopped" => "stop" \in admDone

(* the batch of a loop consists of intents of its slot *)
OwnInv == \A s \in Slots : lpc[s] \in Executing => \A i \in lbatch[s].ids : i \in IdsOf(s) /\ ist[i] # "none"

(* A turn whose batch was taken from it is told to stop, or has an intent    *)
(* that nothing can cancel any more                                          *)
Calm        == /\ faults \cap {"db", "port"} = {} /\ admDone \cap {"cancel_child", "pause", "stop"} = {}
               /\ Admin \notin dropped /\ \A s \in Slots : status[s] # "none"
Told(s)     == <<s, lbatch[s].op>> \in stopped \cup adm.todo
RunWasCancelled == "cancel_run" \in admDone /\ adm.pc # "cancelling"
Lasting(i)  == ist[i] # "cancelled" /\ (RunWasCancelled \/ ist[i] \in {"failed", "completed"} \/ RunOf(i) = 0)
Survives(s) == \E i \in lbatch[s].ids : Lasting(i)
Informed(s) ==
    /\ lpc[s] \in {"prepare", "start"} /\ active[s].op # lbatch[s].op => (\A i \in lbatch[s].ids : ist[i] = "cancelled") \/ Survives(s)
    /\ lpc[s] = "drop" => Told(s)
    /\ lpc[s] = "running" => (active[s].op = lbatch[s].op /\ active[s].turn) \/ Told(s) \/ Survives(s)
TellInv == Calm => \A s \in Slots \ removed : Informed(s)

-----------------------------------------------------------------------------
(* Types *)

(* the state of the coordinator and what its callers owe, as TypeInv has it *)
CoordType ==
    /\ ist \in [Ids -> {"none"} \cup LiveStates \cup Terminal]
    /\ queue \subseteq Ids
    /\ active \in [Slots -> Batches]
    /\ paused \subseteq Slots
    /\ constraint \in [Slots -> Constraints]
    /\ leases \subseteq Reqs /\ leaseRun \in [Reqs -> 0..MaxRuns]
    /\ nextOp \in [Slots -> 0..MaxOps]
PubType ==
    /\ pub \in [Actors -> SUBSET ((0..MaxRuns) \X Classes)]
    /\ settle \in [Actors -> SUBSET Reqs]
RestType ==
    /\ scn \in Workloads
    /\ mail \in [Reqs -> {"none", "unread", "read"}]
    /\ run \in [id : 0..MaxRuns, status : {"none"} \cup Active \cup Terminal]
    /\ rpc \in [Reqs -> {"new", "sync", "set", "acquire", "write", "commit", "notify", "done"}]
    /\ seen \in [Reqs \cup Slots -> Constraints]
    /\ lpc \in [Slots -> LoopSteps]
    /\ lunread \in [Slots -> SUBSET Reqs]
    /\ lbatch \in [Slots -> [op : 0..MaxOps, ids : SUBSET Ids, ok : BOOLEAN]]
    /\ notified \subseteq Slots
    /\ member \in [Slots -> {"absent", "attaching", "ready", "failed", "removing", "stopped"}]
    /\ apc \in [Slots -> {"idle", "starting", "attach", "ready", "failed"}]
    /\ status \in [Slots -> {"none", "idle", "working", "error"}]
    /\ aborting \subseteq Slots /\ removed \subseteq Slots /\ dropped \subseteq Reqs \cup {Admin}
    /\ prompted \in [Reqs -> 0..2]
LeaseType == leaseRun \in [Reqs -> 0..run.id]
AdmType ==
    adm \in [pc : AdmSteps, slot : Slots, run : 0..MaxRuns, batch : Batches,
             todo : SUBSET (Slots \X (0..MaxOps))]

(* TypeInv is these five parts. *)
LEMMA TypeParts == TypeInv <=> CoordType /\ PubType /\ RestType /\ AdmType /\ LeaseType
<1>1. run \in [id : 0..MaxRuns, status : {"none"} \cup Active \cup Terminal] /\ LeaseType
      => leaseRun \in [Reqs -> 0..MaxRuns]
  BY TeamAssumption DEF LeaseType
<1> QED BY <1>1 DEF TypeInv, TypeOK, CoordType, PubType, RestType, AdmType, LeaseType, Batches, Constraints, LoopSteps

(* A set of intents refers to runs that exist and carries known messages. *)
LEMMA IntentSets ==
    ASSUME leaseRun \in [Reqs -> 0..MaxRuns], NEW S \in SUBSET Ids
    PROVE  RunsOf(S) \subseteq 0..MaxRuns /\ Messages(S) \subseteq Reqs
<1>1. \A i \in S : i[1] \in Reqs /\ RunOf(i) \in 0..MaxRuns
  BY TeamAssumption DEF Ids, RunOf
<1> QED BY <1>1 DEF RunsOf, Messages

(* The summaries a caller owes are well formed. *)
LEMMA OweType ==
    ASSUME PubType, NEW a \in Actors, NEW Rs \in SUBSET (0..MaxRuns), NEW st, NEW ls, Owe(a, Rs, st, ls)
    PROVE  pub' \in [Actors -> SUBSET ((0..MaxRuns) \X Classes)]
<1>1. \A n \in Rs : Summary(n, st, ls) \in Classes
  BY DEF Summary, Classes
<1> QED BY <1>1 DEF Owe, PubType

(* set_runtime_constraint keeps the types of the coordinator. *)
LEMMA SetConstraintType ==
    ASSUME CoordType, PubType, NEW a \in Actors, NEW s \in Slots, NEW c \in Constraints, SetConstraint(a, s, c)
    PROVE  CoordType' /\ PubType'
<1> DEFINE live == Live(IdsOf(s))
           back == IF c = "stopped" THEN {} ELSE {i \in live : RunOf(i) = 0}
           st   == [i \in Ids |-> IF i \in back THEN "queued"
                               ELSE IF i \notin live THEN ist[i]
                               ELSE IF c = "failed" THEN "failed" ELSE "cancelled"]
<1>1. live \subseteq Ids /\ back \subseteq Ids
  BY DEF Live, IdsOf
<1>2. st \in [Ids -> {"none"} \cup LiveStates \cup Terminal]
  BY DEF CoordType, LiveStates, Terminal
<1>3. RunsOf(live \ back) \subseteq 0..MaxRuns /\ Messages(live \ back) \subseteq Reqs
  BY <1>1, IntentSets DEF CoordType
<1>4. NoBatch \in Batches
  BY TeamAssumption DEF NoBatch, Batches
<1>5. CASE c \in {"failed", "stopped"}
  <2>1. /\ ist' = st /\ queue' = (queue \ IdsOf(s)) \cup back
        /\ active' = [active EXCEPT ![s] = NoBatch]
        /\ Owe(a, RunsOf(live \ back), st, leases)
        /\ settle' = [settle EXCEPT ![a] = Messages(live \ back)]
        /\ constraint' = [constraint EXCEPT ![s] = c]
        /\ UNCHANGED <<paused, leases, leaseRun, nextOp>>
    BY <1>5 DEF SetConstraint
  <2> HIDE DEF live, back, st
  <2>2. CoordType'
    BY <1>1, <1>2, <1>4, <2>1 DEF CoordType
  <2>3. pub' \in [Actors -> SUBSET ((0..MaxRuns) \X Classes)]
    BY <1>3, <2>1, OweType
  <2> QED BY <1>3, <2>1, <2>2, <2>3 DEF PubType
<1>6. CASE c \notin {"failed", "stopped"}
  BY <1>6 DEF SetConstraint, CoordType, PubType
<1> QED BY <1>5, <1>6

(* Moving a set of intents to one state keeps their types. *)
LEMMA StatesType ==
    ASSUME CoordType, NEW S, NEW to \in LiveStates \cup Terminal
    PROVE  [i \in Ids |-> IF i \in S THEN to ELSE ist[i]] \in [Ids -> {"none"} \cup LiveStates \cup Terminal]
BY DEF CoordType

(* The empty slot has the type of a batch. *)
LEMMA NoBatchType == NoBatch \in Batches
BY TeamAssumption DEF NoBatch, Batches

(* commit_enqueue and abort_enqueue keep the types of the coordinator. *)
LEMMA EnqueueType ==
    ASSUME CoordType, PubType, NEW r \in Reqs, CommitEnqueue(r) \/ AbortEnqueue(r), UNCHANGED settle
    PROVE  CoordType' /\ PubType'
<1>0. r \in Actors /\ <<r, 0>> \in Ids /\ leaseRun[r] \in 0..MaxRuns
  BY TeamAssumption DEF Actors, Ids, CoordType
<1>1. CASE CommitEnqueue(r)
  <2>1. PICK st, ls : Owe(r, {leaseRun[r]} \ {0}, st, ls)
    BY <1>1 DEF CommitEnqueue
  <2>2. pub' \in [Actors -> SUBSET ((0..MaxRuns) \X Classes)]
    BY <1>0, <2>1, OweType
  <2>3. CoordType'
    BY <1>0, <1>1 DEF CommitEnqueue, CoordType, LiveStates
  <2> QED BY <2>2, <2>3 DEF PubType
<1>2. CASE AbortEnqueue(r)
  <2>1. CoordType'
    BY <1>2 DEF AbortEnqueue, CoordType
  <2>2. CASE pub' = pub
    BY <2>1, <2>2 DEF PubType
  <2>3. CASE pub' = [pub EXCEPT ![r] = {<<leaseRun[r], "void">>}]
    BY <1>0, <2>1, <2>3 DEF PubType, Classes
  <2>4. CASE Owe(r, {leaseRun[r]}, ist, leases \ {r})
    <3>1. {leaseRun[r]} \in SUBSET (0..MaxRuns)
      BY <1>0
    <3>2. pub' \in [Actors -> SUBSET ((0..MaxRuns) \X Classes)]
      BY <1>0, <2>4, <3>1, OweType
    <3> QED BY <2>1, <3>2 DEF PubType
  <2> QED BY <1>2, <2>2, <2>3, <2>4 DEF AbortEnqueue
<1> QED BY <1>1, <1>2

(* A request that has a recovery intent to spare gets one that was not used. *)
LEMMA FreshCopyUnused ==
    ASSUME NEW r \in Reqs, ~Exhausted(r)
    PROVE  /\ FreshCopy(r) \in 1..MaxCopies
           /\ <<r, FreshCopy(r)>> \in Ids /\ ist[<<r, FreshCopy(r)>>] = "none"
<1>1. \E k \in 1..MaxCopies : ist[<<r, k>>] = "none"
  BY DEF Exhausted
<1>2. FreshCopy(r) \in 1..MaxCopies /\ ist[<<r, FreshCopy(r)>>] = "none"
  BY <1>1 DEF FreshCopy
<1> QED BY <1>2, TeamAssumption DEF Ids

(* reconcile_mailbox keeps the types of the coordinator. *)
LEMMA ReconcileType ==
    ASSUME CoordType, NEW s \in Slots, NEW unread \in SUBSET Reqs, ReconcileMailbox(s, unread)
    PROVE  CoordType'
<1> DEFINE stale == {i \in queue \cap IdsOf(s) : HasMessage(i) /\ i[1] \notin unread}
           owned == {i[1] : i \in Live(IdsOf(s)) \ stale}
           fresh == {<<r, FreshCopy(r)>> : r \in unread \ owned}
<1>1. /\ \A r \in unread \ owned : ~Exhausted(r)
      /\ ist' = [i \in Ids |-> IF i \in stale THEN "completed"
                               ELSE IF i \in fresh THEN "queued" ELSE ist[i]]
      /\ queue' = (queue \ stale) \cup fresh
      /\ UNCHANGED <<active, paused, constraint, leases, leaseRun, nextOp>>
  BY DEF ReconcileMailbox
<1>2. fresh \subseteq Ids
  BY <1>1, FreshCopyUnused
<1> HIDE DEF fresh, stale, owned
<1>3. ist' \in [Ids -> {"none"} \cup LiveStates \cup Terminal]
  BY <1>1 DEF CoordType, LiveStates, Terminal
<1> QED BY <1>1, <1>2, <1>3 DEF CoordType

(* next keeps the types of the coordinator when it claims a batch. *)
LEMMA ClaimType ==
    ASSUME CoordType, PubType, NEW s \in Slots, Claim(s), UNCHANGED settle
    PROVE  CoordType' /\ PubType' /\ nextOp[s] + 1 \in 0..MaxOps /\ Claimed(s) \subseteq Ids
<1>1. Claimed(s) \subseteq Ids /\ s \in Actors
  BY DEF Claimed, Class, CoordType, Actors
<1>2. nextOp[s] \in 0..MaxOps /\ nextOp[s] < MaxOps /\ nextOp[s] + 1 \in 0..MaxOps
  BY TeamAssumption DEF Claim, CoordType
<1>3. PICK st, ls : Owe(s, RunsOf(Claimed(s)), st, ls)
  BY DEF Claim
<1>4. pub' \in [Actors -> SUBSET ((0..MaxRuns) \X Classes)]
  BY <1>1, <1>3, OweType, IntentSets DEF CoordType
<1>5. ist' \in [Ids -> {"none"} \cup LiveStates \cup Terminal]
  BY StatesType DEF Claim, LiveStates
<1>6. [op |-> nextOp[s] + 1, ids |-> Claimed(s), turn |-> FALSE] \in Batches
  BY <1>1, <1>2 DEF Batches
<1>7. active' \in [Slots -> Batches] /\ nextOp' \in [Slots -> 0..MaxOps] /\ queue' \subseteq Ids
  BY <1>2, <1>6 DEF Claim, CoordType
<1>8. UNCHANGED <<paused, constraint, leases, leaseRun>>
  BY DEF Claim
<1> QED BY <1>1, <1>2, <1>4, <1>5, <1>7, <1>8 DEF CoordType, PubType

(* mark_started, retry_start, terminalize_batch and complete_signals keep    *)
(* the types of the coordinator.                                             *)
LEMMA SettleType ==
    ASSUME CoordType, PubType, UNCHANGED settle, NEW s \in Slots, lbatch[s].ids \subseteq Ids,
           \/ MarkStarted(s) \/ RetryStart(s) \/ CompleteSignals(s)
           \/ \E a \in Actors, op \in 0..MaxOps, ids \in SUBSET Ids, to \in Terminal : TerminalizeBatch(a, s, op, ids, to)
    PROVE  CoordType' /\ PubType'
<1>k. CASE UNCHANGED <<coord, pub>>
  BY <1>k DEF coord, CoordType, PubType
<1>p. ASSUME NEW a \in Actors, NEW ids \in SUBSET Ids, NEW st, NEW ls, Owe(a, RunsOf(ids), st, ls) PROVE PubType'
  BY <1>p, OweType, IntentSets DEF CoordType, PubType
<1>a. s \in Actors
  BY DEF Actors
<1>1. CASE MarkStarted(s)
  <2>1. ist' \in [Ids -> {"none"} \cup LiveStates \cup Terminal]
    BY <1>1, StatesType DEF MarkStarted, LiveStates
  <2>2. active' \in [Slots -> Batches]
    BY <1>1 DEF MarkStarted, CoordType, Batches
  <2>3. PubType'
    BY <1>1, <1>a, <1>p DEF MarkStarted
  <2> QED BY <1>1, <2>1, <2>2, <2>3 DEF MarkStarted, CoordType
<1>2. CASE RetryStart(s) /\ IsCurrent(s, lbatch[s].op)
  <2>1. ist' \in [Ids -> {"none"} \cup LiveStates \cup Terminal]
    BY <1>2, StatesType DEF RetryStart, LiveStates
  <2>2. PubType'
    BY <1>2, <1>a, <1>p DEF RetryStart
  <2> QED BY <1>2, <2>1, <2>2, NoBatchType DEF RetryStart, CoordType
<1>3. CASE CompleteSignals(s)
  <2>1. CASE ~(\A i \in lbatch[s].ids : ist[i] = "queued")
    BY <1>k, <1>3, <2>1 DEF CompleteSignals
  <2>2. CASE \A i \in lbatch[s].ids : ist[i] = "queued"
    <3>1. ist' \in [Ids -> {"none"} \cup LiveStates \cup Terminal]
      <4>1. ist' = [i \in Ids |-> IF i \in lbatch[s].ids THEN "completed" ELSE ist[i]]
        BY <1>3, <2>2 DEF CompleteSignals
      <4>2. "completed" \in LiveStates \cup Terminal
        BY DEF Terminal
      <4> QED BY <4>1, <4>2, StatesType
    <3>2. PubType'
      BY <1>3, <1>a, <1>p, <2>2 DEF CompleteSignals
    <3> QED BY <1>3, <2>2, <3>1, <3>2 DEF CompleteSignals, CoordType
  <2> QED BY <2>1, <2>2
<1>4. ASSUME NEW a \in Actors, NEW op \in 0..MaxOps, NEW ids \in SUBSET Ids, NEW to \in Terminal,
             TerminalizeBatch(a, s, op, ids, to), IsCurrent(s, op)
      PROVE  CoordType' /\ PubType'
  <2>1. ist' \in [Ids -> {"none"} \cup LiveStates \cup Terminal]
    BY <1>4, StatesType DEF TerminalizeBatch
  <2>2. PubType'
    BY <1>4, <1>p DEF TerminalizeBatch
  <2> QED BY <1>4, <2>1, <2>2, NoBatchType DEF TerminalizeBatch, CoordType
<1>5. CASE RetryStart(s)
  <2>1. ~IsCurrent(s, lbatch[s].op) => UNCHANGED <<coord, pub>>
    BY <1>5 DEF RetryStart
  <2> QED BY <1>k, <1>2, <1>5, <2>1
<1>6. ASSUME NEW a \in Actors, NEW op \in 0..MaxOps, NEW ids \in SUBSET Ids, NEW to \in Terminal,
             TerminalizeBatch(a, s, op, ids, to)
      PROVE  CoordType' /\ PubType'
  <2>1. ~IsCurrent(s, op) => UNCHANGED <<coord, pub>>
    BY <1>6 DEF TerminalizeBatch
  <2> QED BY <1>k, <1>4, <1>6, <2>1
<1> QED BY <1>1, <1>3, <1>5, <1>6

(* The same of terminalize_batch alone, for the batch of any caller. *)
LEMMA TerminalizeType ==
    ASSUME CoordType, PubType, UNCHANGED settle, NEW s \in Slots, lbatch[s].ids \subseteq Ids,
           NEW a \in Actors, NEW op \in 0..MaxOps, NEW ids \in SUBSET Ids, NEW to \in Terminal,
           TerminalizeBatch(a, s, op, ids, to)
    PROVE  CoordType' /\ PubType'
<1> QED BY SettleType

(* cancel_run and stop keep the types of the coordinator and of *)
(* the operation that calls them.                                            *)
LEMMA AdminWorkType ==
    ASSUME CoordType, PubType, AdmType,
           \/ \E n \in 0..MaxRuns : CancelRun(n)
           \/ StopAll /\ UNCHANGED settle /\ adm' = [adm EXCEPT !.pc = "halting"]
    PROVE  CoordType' /\ PubType' /\ AdmType'
<1>a. Admin \in Actors
  BY DEF Actors
<1>1. ASSUME NEW n \in 0..MaxRuns, CancelRun(n) PROVE CoordType' /\ PubType' /\ AdmType'
  <2> DEFINE hit  == {s \in Slots : \E i \in active[s].ids : RunOf(i) = n}
             held == UNION {active[s].ids : s \in hit}
             gone == {i \in held : RunOf(i) = n}
                     \cup {i \in Ids : RunOf(i) = n /\ ist[i] = "queued"}
             back == held \ gone
             st   == [i \in Ids |-> IF i \in gone THEN "cancelled"
                                    ELSE IF i \in back THEN "queued" ELSE ist[i]]
             ls   == {r \in leases : leaseRun[r] # n}
             told == {<<s, active[s].op>> : s \in {q \in hit : active[q].turn}}
  <2>1. hit \subseteq Slots /\ \A s \in Slots : active[s].ids \subseteq Ids /\ active[s].op \in 0..MaxOps
    BY DEF CoordType, Batches
  <2>2. held \subseteq Ids /\ gone \subseteq Ids /\ back \subseteq Ids
    BY <2>1
  <2>3. st \in [Ids -> {"none"} \cup LiveStates \cup Terminal]
    BY DEF CoordType, LiveStates, Terminal
  <2>4. told \subseteq Slots \X (0..MaxOps)
    BY <2>1
  <2>5. /\ ist' = st /\ queue' = (queue \ gone) \cup back
        /\ active' = [s \in Slots |-> IF s \in hit THEN NoBatch ELSE active[s]]
        /\ leases' = ls
        /\ Owe(Admin, {n}, st, ls)
        /\ settle' = [settle EXCEPT ![Admin] = Messages(gone)]
        /\ adm' = [adm EXCEPT !.pc = "stopping", !.todo = told]
        /\ UNCHANGED <<paused, constraint, leaseRun, nextOp>>
    BY <1>1 DEF CancelRun
  <2>6. ls \subseteq leases
    OBVIOUS
  <2> HIDE DEF hit, held, gone, back, st, ls, told
  <2>7. CoordType'
    BY <2>2, <2>3, <2>5, <2>6, NoBatchType DEF CoordType
  <2>8. {n} \in SUBSET (0..MaxRuns) /\ Messages(gone) \subseteq Reqs
    BY <2>2, IntentSets DEF CoordType
  <2>9. PubType'
    BY <1>a, <2>5, <2>8, OweType DEF PubType
  <2>10. AdmType'
    BY <2>4, <2>5 DEF AdmType, AdmSteps
  <2> QED BY <2>7, <2>9, <2>10
<1>3. CASE StopAll /\ UNCHANGED settle /\ adm' = [adm EXCEPT !.pc = "halting"]
  <2> DEFINE ns == RunsOf({i \in Ids : ist[i] # "none"}) \cup ({leaseRun[r] : r \in leases} \ {0})
  <2>1. ns \subseteq 0..MaxRuns
    BY IntentSets DEF CoordType
  <2>2. PICK st : Owe(Admin, ns, st, {})
    BY <1>3 DEF StopAll
  <2>3. PubType'
    BY <1>3, <1>a, <2>1, <2>2, OweType DEF PubType
  <2>4. ist' \in [Ids -> {"none"} \cup LiveStates \cup Terminal]
    BY <1>3 DEF StopAll, CoordType, Terminal
  <2>5. CoordType'
    BY <1>3, <2>4, NoBatchType DEF CoordType, StopAll, Constraints
  <2>6. AdmType'
    BY <1>3 DEF AdmType, AdmSteps
  <2> QED BY <2>3, <2>5, <2>6
<1> QED BY <1>1, <1>3

(* Only acquire_enqueue binds a lease, and the run it binds exists by then:  *)
(* it is the current one or an earlier one, or bind_user_enqueue opens it.   *)
LEMMA LeaseStep ==
    ASSUME CoordType, RestType, LeaseType, [Next]_vars
    PROVE  LeaseType'
<1>0. run.id \in 0..MaxRuns /\ \A r \in Reqs : leaseRun[r] \in 0..run.id
  BY DEF RestType, LeaseType
<1>k. ASSUME UNCHANGED leaseRun, run'.id = run.id PROVE LeaseType'
  BY <1>k DEF LeaseType
<1>c. UNCHANGED coord => UNCHANGED leaseRun
  BY DEF coord
<1>s. \A a, s, c : SetConstraint(a, s, c) => UNCHANGED leaseRun
  BY DEF SetConstraint
<1>t. \A a, s, op, ids, to : TerminalizeBatch(a, s, op, ids, to) => UNCHANGED leaseRun
  BY DEF TerminalizeBatch, coord
<1>1. ASSUME NEW r \in Reqs, ReqAcquire(r) PROVE LeaseType'
  <2>1. CASE Admits(To(r))
    <3>1. PICK n \in Bindings(r) \cap (0..MaxRuns) : leaseRun' = [leaseRun EXCEPT ![r] = n] /\ run' = BoundRun(r, n)
      BY <1>1, <2>1 DEF ReqAcquire
    <3>2. \A S \in SUBSET Ids : \A m \in RunsOf(S) : m \in 0..run.id
      BY <1>0, TeamAssumption DEF RunsOf, RunOf, Ids
    <3>3. From(r) \in Slots => active[From(r)].ids \subseteq Ids
      BY DEF CoordType, Batches
    <3>4. From(r) \in Slots
      BY DEF From, RestType, Workloads
    <3>5. CASE Kind(r) = "user"
      BY <1>0, <3>1, <3>5 DEF Bindings, BoundRun, LeaseType
    <3>6. CASE Kind(r) # "user"
      <4>1. n \in 0..run.id
        <5>1. CASE Kind(r) \in {"agent", "shutdown", "notice"}
          <6>1. n \in RunsOf(active[From(r)].ids) \/ n = 0
            BY <3>1, <5>1 DEF Bindings
          <6> QED BY <1>0, <3>2, <3>3, <3>4, <6>1, TeamAssumption
        <5>2. CASE Kind(r) \notin {"agent", "shutdown", "notice"}
          <6>1. n = run.id \/ n = 0
            BY <3>1, <3>6, <5>2 DEF Bindings
          <6> QED BY <1>0, <6>1, TeamAssumption
        <5> QED BY <5>1, <5>2
      <4>2. run' = run
        BY <3>1, <3>6 DEF BoundRun
      <4> QED BY <3>1, <4>1, <4>2 DEF LeaseType
    <3> QED BY <3>5, <3>6
  <2> QED BY <1>1, <1>k, <2>1 DEF ReqAcquire
<1>2. ASSUME NEW r \in Reqs, ReqStep(r), ~ReqAcquire(r) PROVE UNCHANGED leaseRun /\ run'.id = run.id
  BY <1>2, <1>c, <1>s DEF ReqStep, NoticeWrite, ReqSync, ReqSet, ReqWrite, ReqCommit, ReqNotify, CommitEnqueue, AbortEnqueue
<1>3. ASSUME NEW s \in Slots, LoopStep(s) PROVE UNCHANGED leaseRun /\ run'.id = run.id
  <2>1. CASE LoopNext(s) \/ LoopReconcile(s) \/ LoopSignal(s) \/ LoopPrepareFails(s) \/ LoopSkipped(s) \/ LoopStart(s)
    BY <1>c, <2>1 DEF LoopNext, LoopReconcile, LoopSignal, LoopPrepareFails, LoopSkipped, LoopStart, Claim,
       ReconcileMailbox, CompleteSignals, RetryStart, MarkStarted
  <2>2. CASE LoopSet(s) \/ LoopLateDrop(s) \/ LoopFail(s) \/ LoopFinish(s)
    BY <1>s, <1>t, <2>2 DEF LoopSet, LoopLateDrop, LoopFail, LoopFinish
  <2>3. CASE LoopSync(s) \/ LoopPeek(s) \/ LoopPrepared(s) \/ LoopRefused(s) \/ LoopLateCancel(s) \/ LoopTurnEnds(s)
             \/ IdleStep(s) \/ LoopAbort(s)
    BY <1>c, <2>3 DEF LoopSync, LoopPeek, LoopPrepared, LoopRefused, LoopLateCancel, LoopTurnEnds, IdleStep, LoopIdle,
       LoopNote, LoopWake, LoopWoke, LoopAbort
  <2> QED BY <1>3, <2>1, <2>2, <2>3 DEF LoopStep
<1>4. ASSUME NEW s \in Slots, AttachStep(s) \/ Repair(s) PROVE UNCHANGED leaseRun /\ run'.id = run.id
  BY <1>4, <1>c, <1>s DEF AttachStep, AttachStart, AttachReady, AttachFails, AttachPublish, Repair
<1>5. ASSUME AdminGoesOn PROVE UNCHANGED leaseRun /\ run'.id = run.id
  BY <1>5, <1>c, <1>t DEF AdminGoesOn, CancelRunWork, CancelRun, StopTurn, TurnsStopped, CancelSnapshotTurn, CancelBatch,
     RemoveLoop, RemovePersist, RemoveRestore, RemoveAgent, FinishRemove, StopSession
<1>6. ASSUME AdminBegins PROVE UNCHANGED leaseRun /\ run'.id = run.id
  <2>1. CASE BeginCancelRun
    BY <1>c, <2>1 DEF BeginCancelRun, RestType
  <2> QED BY <1>6, <1>c, <2>1 DEF AdminBegins, StopWork, StopAll, BeginCancelChild, PauseSlot, BeginRemove
<1>7. ASSUME NEW a \in Actors, ActorStep(a) PROVE UNCHANGED leaseRun /\ run'.id = run.id
  <2>1. CASE Publish(a)
    BY <1>c, <2>1 DEF Publish, ApplySummary, RestType
  <2> QED BY <1>7, <1>c, <2>1 DEF ActorStep, MarkRead, MarkReadFails
<1>8. ASSUME AdminDrop \/ (\E r \in Reqs : ReqDrop(r)) \/ UNCHANGED vars PROVE UNCHANGED leaseRun /\ run'.id = run.id
  BY <1>8, <1>c DEF AdminDrop, ReqDrop, vars
<1> QED BY <1>k, <1>1, <1>2, <1>3, <1>4, <1>5, <1>6, <1>7, <1>8 DEF Next

(* Every step keeps the types. *)
LEMMA TypeStep == ASSUME TypeInv, [Next]_vars PROVE TypeInv'
<1>0. CoordType /\ PubType /\ RestType /\ AdmType /\ LeaseType
  BY TypeParts
<1> SUFFICES CoordType' /\ PubType' /\ RestType' /\ AdmType'
  <2>1. TypeInv' <=> CoordType' /\ PubType' /\ RestType' /\ AdmType' /\ LeaseType'
    BY TypeParts, PTL
  <2>2. LeaseType'
    BY <1>0, LeaseStep
  <2> QED BY <2>1, <2>2
<1> USE <1>0 DEF NoFault, Fault
<1>c. UNCHANGED coord => CoordType'
  BY DEF coord, CoordType
<1>p. UNCHANGED <<pub, settle>> => PubType'
  BY DEF PubType
<1>a. UNCHANGED adm => AdmType'
  BY DEF AdmType
<1>b. \A s \in Slots : lbatch[s].ids \subseteq Ids /\ lbatch[s].op \in 0..MaxOps /\ lunread[s] \subseteq Reqs
  BY DEF RestType
<1>o. ASSUME NEW s \in Slots, \E ok \in BOOLEAN : lbatch' = [lbatch EXCEPT ![s].ok = ok]
      PROVE  lbatch' \in [Slots -> [op : 0..MaxOps, ids : SUBSET Ids, ok : BOOLEAN]]
  <2>1. PICK ok \in BOOLEAN : lbatch' = [lbatch EXCEPT ![s].ok = ok]
    BY <1>o
  <2>2. lbatch \in [Slots -> [op : 0..MaxOps, ids : SUBSET Ids, ok : BOOLEAN]]
    BY DEF RestType
  <2> DEFINE b == [lbatch[s] EXCEPT !.ok = ok]
  <2>3. b \in [op : 0..MaxOps, ids : SUBSET Ids, ok : BOOLEAN]
    BY <2>2
  <2>4. lbatch' = [lbatch EXCEPT ![s] = b]
    BY <2>1
  <2> HIDE DEF b
  <2> QED BY <2>2, <2>3, <2>4
<1>m. \A r \in Reqs : r \in Actors
  BY DEF Actors
<1>l. \A s \in Slots : s \in Actors /\ Attach(s) \in Actors /\ Admin \in Actors
  BY DEF Actors, Attach
<1>s. \A s \in Slots : SeenConstraint(s) \in Constraints
  BY DEF SeenConstraint, Constraints, RestType
<1>t. \A r \in Reqs : To(r) \in Slots
  BY DEF To, RestType, Workloads
<1>1. ASSUME NEW r \in Reqs, ReqStep(r) PROVE CoordType' /\ PubType' /\ RestType' /\ AdmType'
  <2>1. CASE NoticeWrite(r)
    <3>1. AdmType'
      BY <1>a, <2>1 DEF NoticeWrite, AdmType, AdmSteps
    <3>2. UNCHANGED mail \/ mail' = [mail EXCEPT ![r] = "unread"]
      BY <2>1 DEF NoticeWrite
    <3>3. \E pc \in {"sync", "done"} : rpc' = [rpc EXCEPT ![r] = pc]
      BY <2>1 DEF NoticeWrite
    <3>4. UNCHANGED <<scn, coord, run, pub, settle, seen, loops, notified, member, apc, seat, hist>>
      BY <2>1 DEF NoticeWrite
    <3> QED BY <1>c, <1>p, <3>1, <3>2, <3>3, <3>4 DEF RestType, loops, seat, hist, marks
  <2> SUFFICES ASSUME ~NoticeWrite(r) PROVE CoordType' /\ PubType' /\ RestType' /\ AdmType'
    BY <2>1
  <2>a. AdmType'
    BY <1>1, <1>a DEF ReqStep, ReqSync, ReqSet, ReqAcquire, ReqWrite, ReqCommit, ReqNotify, rest
  <2>2. CASE ReqSync(r)
    <3>1. seen' \in [Reqs \cup Slots -> Constraints]
      BY <1>s, <1>t, <2>2 DEF ReqSync, RestType
    <3> QED BY <1>c, <1>p, <2>a, <2>2, <3>1 DEF ReqSync, RestType, loops, rest, seat, hist, marks
  <2>3. CASE ReqSet(r)
    <3>1. CoordType' /\ PubType'
      BY <1>m, <1>t, <2>3, SetConstraintType DEF ReqSet, RestType
    <3> QED BY <2>a, <2>3, <3>1 DEF ReqSet, RestType, loops, rest, seat, hist, marks
  <2>4. CASE ReqAcquire(r)
    <3>1. leaseRun' \in [Reqs -> 0..MaxRuns] /\ run' \in [id : 0..MaxRuns, status : {"none"} \cup Active \cup Terminal]
      <4>1. CASE UNCHANGED <<leaseRun, run>>
        BY <4>1 DEF CoordType, RestType
      <4>2. ASSUME NEW n \in 0..MaxRuns, leaseRun' = [leaseRun EXCEPT ![r] = n], run' = BoundRun(r, n)
            PROVE  /\ leaseRun' \in [Reqs -> 0..MaxRuns]
                   /\ run' \in [id : 0..MaxRuns, status : {"none"} \cup Active \cup Terminal]
        BY <4>2 DEF BoundRun, CoordType, RestType, Active
      <4> QED BY <2>4, <4>1, <4>2 DEF ReqAcquire
    <3>2. rpc' \in [Reqs -> {"new", "sync", "set", "acquire", "write", "commit", "notify", "done"}] /\ leases' \subseteq Reqs
      <4>1. \E v \in {"write", "commit", "done"} : rpc' = [rpc EXCEPT ![r] = v]
        BY <2>4 DEF ReqAcquire
      <4>2. leases' = leases \cup {r} \/ leases' = leases
        BY <2>4 DEF ReqAcquire
      <4>3. rpc' \in [Reqs -> {"new", "sync", "set", "acquire", "write", "commit", "notify", "done"}]
        BY <4>1 DEF RestType
      <4>4. leases' \subseteq Reqs
        BY <4>2 DEF CoordType
      <4> QED BY <4>3, <4>4
    <3> QED BY <1>p, <2>a, <2>4, <3>1, <3>2 DEF ReqAcquire, CoordType, RestType, loops, rest, seat, hist, marks
  <2>5. CASE ReqWrite(r)
    <3>1. CoordType' /\ PubType'
      <4>1. CASE UNCHANGED <<coord, pub>>
        BY <1>c, <1>p, <2>5, <4>1 DEF ReqWrite
      <4>2. CASE AbortEnqueue(r)
        BY <2>5, <4>2, EnqueueType DEF ReqWrite
      <4> QED BY <2>5, <4>1, <4>2 DEF ReqWrite
    <3>2. UNCHANGED mail \/ mail' = [mail EXCEPT ![r] = "unread"]
      BY <2>5 DEF ReqWrite
    <3>3. \E pc \in {"commit", "done"} : rpc' = [rpc EXCEPT ![r] = pc]
      BY <2>5 DEF ReqWrite
    <3>4. UNCHANGED <<scn, run, seen, loops, notified, rest, hist>>
      BY <2>5 DEF ReqWrite
    <3> QED BY <2>a, <3>1, <3>2, <3>3, <3>4 DEF RestType, loops, rest, seat, hist, marks
  <2>6. CASE ReqCommit(r)
    <3>1. CASE CommitEnqueue(r) /\ UNCHANGED settle
      <4>1. CoordType' /\ PubType'
        BY <3>1, EnqueueType
      <4> QED BY <2>a, <2>6, <4>1 DEF ReqCommit, RestType, loops, rest, seat, hist, marks
    <3>2. CASE AbortEnqueue(r) /\ settle' = [settle EXCEPT ![r] = IF HasMessage(<<r, 0>>) THEN {r} ELSE {}]
      <4>1. CoordType'
        BY <3>2 DEF AbortEnqueue, CoordType
      <4>2. pub' \in [Actors -> SUBSET ((0..MaxRuns) \X Classes)]
        <5>1. leaseRun[r] \in 0..MaxRuns /\ {leaseRun[r]} \in SUBSET (0..MaxRuns)
          BY DEF CoordType
        <5>2. CASE Owe(r, {leaseRun[r]}, ist, leases \ {r})
          BY <1>m, <5>1, <5>2, OweType
        <5>3. CASE pub' = [pub EXCEPT ![r] = {<<leaseRun[r], "void">>}]
          BY <1>m, <5>1, <5>3 DEF PubType, Classes
        <5> QED BY <3>2, <5>2, <5>3 DEF AbortEnqueue, PubType
      <4>3. PubType'
        BY <3>2, <4>2 DEF PubType
      <4> QED BY <2>a, <2>6, <4>1, <4>3 DEF ReqCommit, RestType, loops, rest, seat, hist, marks
    <3> QED BY <2>6, <3>1, <3>2 DEF ReqCommit
  <2>7. CASE ReqNotify(r)
    BY <1>c, <1>p, <1>t, <2>a, <2>7 DEF ReqNotify, Notified, RestType, loops, rest, seat, hist, marks
  <2> QED BY <1>1, <2>1, <2>2, <2>3, <2>4, <2>5, <2>6, <2>7 DEF ReqStep
<1>2. ASSUME NEW s \in Slots, LoopStep(s) PROVE CoordType' /\ PubType' /\ RestType' /\ AdmType'
  <2>a. AdmType'
    BY <1>2, <1>a DEF LoopStep, LoopSync, LoopSet, LoopPeek, LoopReconcile, LoopNext, LoopSignal, LoopPrepareFails, LoopPrepared,
       LoopStart, LoopRefused, LoopSkipped, LoopLateCancel, LoopLateDrop, LoopTurnEnds, LoopFail, LoopFinish,
       IdleStep, LoopIdle, LoopNote, LoopWake, LoopWoke, LoopAbort, rest, seat
  <2> USE DEF GoTo, reqs, rest, seat, hist, marks, LoopSteps
  <2>t. ASSUME NEW to \in {"idle", "working", "error"}, SetStatus(s, to)
        PROVE  status' \in [Slots -> {"none", "idle", "working", "error"}]
    BY <2>t DEF SetStatus, RestType
  <2>0. CASE LoopSync(s)
    <3>1. seen' \in [Reqs \cup Slots -> Constraints]
      <4>1. UNCHANGED seen \/ seen' = [seen EXCEPT ![s] = SeenConstraint(s)]
        BY <2>0 DEF LoopSync
      <4> QED BY <1>s, <4>1 DEF RestType
    <3>2. \E pc \in {"set", "wait"} : lpc' = [lpc EXCEPT ![s] = pc]
      BY <2>0 DEF LoopSync
    <3>3. notified' \subseteq notified
      BY <2>0 DEF LoopSync
    <3>4. UNCHANGED <<scn, mail, coord, run, pub, settle, rpc, lunread, lbatch, rest, hist>>
      BY <2>0 DEF LoopSync
    <3> QED BY <1>c, <1>p, <2>a, <3>1, <3>2, <3>3, <3>4 DEF RestType
  <2>1. CASE LoopSet(s)
    <3>1. CoordType' /\ PubType'
      BY <1>l, <2>1, SetConstraintType DEF LoopSet, RestType
    <3> QED BY <2>a, <2>1, <3>1 DEF LoopSet, RestType
  <2>2. CASE LoopPeek(s)
    <3>1. Unread(s) \subseteq Reqs
      BY DEF Unread
    <3>2. lunread' \in [Slots -> SUBSET Reqs] /\ UNCHANGED scn
      BY <2>2, <3>1 DEF LoopPeek, RestType
    <3>3. \E pc \in {"reconcile", "wait"} : lpc' = [lpc EXCEPT ![s] = pc]
      BY <2>2 DEF LoopPeek
    <3>4. UNCHANGED <<mail, coord, run, pub, settle, reqs, lbatch, notified, rest, hist>>
      BY <2>2 DEF LoopPeek
    <3> QED BY <1>c, <1>p, <2>a, <3>2, <3>3, <3>4 DEF RestType
  <2>3. CASE LoopReconcile(s)
    <3>1. CoordType' /\ PubType'
      BY <1>b, <1>p, <2>3, ReconcileType DEF LoopReconcile, ReconcileMailbox
    <3> QED BY <2>a, <2>3, <3>1 DEF LoopReconcile, RestType
  <2>4. CASE LoopNext(s)
    <3>0. lpc' \in [Slots -> LoopSteps]
      <4>1. \E pc \in {"wait", "signal", "prepare"} : lpc' = [lpc EXCEPT ![s] = pc]
        BY <2>4 DEF LoopNext
      <4> QED BY <4>1 DEF RestType
    <3>u. UNCHANGED <<scn, mail, run, settle, reqs, lunread, notified, rest, hist>>
      BY <2>4 DEF LoopNext
    <3>1. CASE Claim(s) /\ lbatch' = [lbatch EXCEPT ![s] = [op |-> nextOp[s] + 1, ids |-> Claimed(s), ok |-> TRUE]]
      <4>1. CoordType' /\ PubType' /\ nextOp[s] + 1 \in 0..MaxOps /\ Claimed(s) \subseteq Ids
        BY <2>4, <3>1, ClaimType DEF LoopNext
      <4>2. lbatch' \in [Slots -> [op : 0..MaxOps, ids : SUBSET Ids, ok : BOOLEAN]]
        BY <3>1, <4>1 DEF RestType
      <4> QED BY <2>a, <3>0, <3>u, <4>1, <4>2 DEF RestType
    <3>2. CASE UNCHANGED <<coord, pub>>
      <4>1. Class(s) \subseteq Ids /\ 0 \in 0..MaxOps
        BY TeamAssumption DEF Class, CoordType
      <4>2. lbatch' \in [Slots -> [op : 0..MaxOps, ids : SUBSET Ids, ok : BOOLEAN]]
        <5>1. CASE Claim(s) /\ lbatch' = [lbatch EXCEPT ![s] = [op |-> nextOp[s] + 1, ids |-> Claimed(s), ok |-> TRUE]]
          <6>1. nextOp[s] + 1 \in 0..MaxOps /\ Claimed(s) \subseteq Ids
            BY <2>4, <5>1, ClaimType DEF LoopNext
          <6> QED BY <5>1, <6>1 DEF RestType
        <5>2. CASE lbatch' = [lbatch EXCEPT ![s] = [op |-> 0, ids |-> Class(s), ok |-> TRUE]]
          BY <4>1, <5>2 DEF RestType
        <5> QED BY <2>4, <5>1, <5>2 DEF LoopNext, RestType
      <4> QED BY <1>c, <1>p, <2>a, <3>0, <3>u, <3>2, <4>2 DEF RestType
    <3> QED BY <2>4, <3>1, <3>2 DEF LoopNext
  <2>5. CASE LoopSignal(s)
    <3>1. CoordType' /\ PubType'
      BY <1>b, <2>5, SettleType DEF LoopSignal
    <3> QED BY <2>a, <2>5, <3>1 DEF LoopSignal, RestType
  <2>6. CASE LoopPrepareFails(s)
    <3>1. CoordType' /\ PubType'
      BY <1>b, <2>6, SettleType DEF LoopPrepareFails
    <3> QED BY <2>a, <2>6, <3>1 DEF LoopPrepareFails, RestType
  <2>7. CASE LoopStart(s)
    <3>1. CoordType' /\ PubType'
      <4>1. CASE MarkStarted(s)
        BY <1>b, <2>7, <4>1, SettleType DEF LoopStart
      <4> QED BY <1>c, <1>p, <2>7, <4>1 DEF LoopStart
    <3>2. prompted' \in [Reqs -> 0..2]
      BY <2>7 DEF LoopStart, RestType
    <3> QED BY <2>a, <2>7, <3>1, <3>2 DEF LoopStart, RestType
  <2>8. CASE LoopRefused(s)
    <3>3. mail' \in [Reqs -> {"none", "unread", "read"}]
      BY <2>8 DEF LoopRefused, RestType
    <3>4. lpc' = [lpc EXCEPT ![s] = "fail"]
      BY <2>8 DEF LoopRefused
    <3>5. UNCHANGED <<scn, coord, run, pub, settle, reqs, lunread, lbatch, notified, rest, hist>>
      BY <2>8 DEF LoopRefused
    <3> QED BY <1>c, <1>p, <2>a, <3>3, <3>4, <3>5 DEF RestType
  <2>9. CASE LoopSkipped(s)
    <3>1. CoordType' /\ PubType'
      BY <1>b, <2>9, SettleType DEF LoopSkipped
    <3>2. status' \in [Slots -> {"none", "idle", "working", "error"}]
      BY <2>9, <2>t DEF LoopSkipped
    <3> QED BY <2>a, <2>9, <3>1, <3>2 DEF LoopSkipped, RestType
  <2>10. CASE LoopLateCancel(s)
    <3>1. UNCHANGED scn
      BY <2>10 DEF LoopLateCancel, CancelTurn
    <3> QED BY <1>c, <1>p, <2>a, <2>10, <3>1 DEF LoopLateCancel, RestType
  <2>11. CASE LoopLateDrop(s)
    <3>1. CoordType' /\ PubType'
      <4>1. TerminalizeBatch(s, s, lbatch[s].op, lbatch[s].ids, "cancelled") /\ "cancelled" \in Terminal
        BY <2>11 DEF LoopLateDrop, Terminal
      <4> QED BY <1>b, <1>l, <2>11, <4>1, TerminalizeType DEF LoopLateDrop
    <3> QED BY <2>a, <2>11, <3>1 DEF LoopLateDrop, RestType
  <2>12. CASE LoopTurnEnds(s)
    <3>1. \E ok \in BOOLEAN : lbatch' = [lbatch EXCEPT ![s].ok = ok]
      BY <2>12 DEF LoopTurnEnds
    <3>2. lbatch' \in [Slots -> [op : 0..MaxOps, ids : SUBSET Ids, ok : BOOLEAN]]
      BY <3>1, <1>o
    <3>3. mail' \in [Reqs -> {"none", "unread", "read"}]
      BY <2>12 DEF LoopTurnEnds, RestType
    <3>4. lpc' = [lpc EXCEPT ![s] = "finish"]
      BY <2>12 DEF LoopTurnEnds
    <3>5. UNCHANGED <<scn, coord, run, pub, settle, reqs, lunread, notified, rest, hist>>
      BY <2>12 DEF LoopTurnEnds
    <3> QED BY <1>c, <1>p, <2>a, <3>2, <3>3, <3>4, <3>5 DEF RestType
  <2>13. CASE LoopFinish(s) \/ LoopFail(s)
    <3>1. CoordType' /\ PubType'
      <4>1. PICK to \in Terminal : TerminalizeBatch(s, s, lbatch[s].op, lbatch[s].ids, to)
        BY <2>13 DEF LoopFinish, LoopFail, Terminal
      <4> QED BY <1>b, <1>l, <2>13, <4>1, TerminalizeType DEF LoopFinish, LoopFail
    <3>2. status' \in [Slots -> {"none", "idle", "working", "error"}]
      BY <2>13, <2>t DEF LoopFinish, LoopFail, RestType
    <3>3. lpc' \in [Slots -> LoopSteps]
      <4>1. \E pc \in {"idle", "sync"} : lpc' = [lpc EXCEPT ![s] = pc]
        BY <2>13 DEF LoopFinish, LoopFail
      <4> QED BY <4>1 DEF RestType
    <3>4. UNCHANGED <<scn, mail, run, reqs, lunread, lbatch, notified, member, apc, aborting, hist>>
      BY <2>13 DEF LoopFinish, LoopFail
    <3> QED BY <2>a, <3>1, <3>2, <3>3, <3>4 DEF RestType
  <2>14. CASE LoopAbort(s)
    <3>1. PubType'
      BY <2>14 DEF LoopAbort, PubType
    <3>2. rpc' \in [Reqs -> {"new", "sync", "set", "acquire", "write", "commit", "notify", "done"}]
      BY <2>14 DEF LoopAbort, RestType
    <3> QED BY <1>c, <2>a, <2>14, <3>1, <3>2 DEF LoopAbort, RestType
  <2>15. CASE LoopPrepared(s) \/ LoopIdle(s)
    <3>1. status' \in [Slots -> {"none", "idle", "working", "error"}]
      BY <2>15, <2>t DEF LoopPrepared, LoopIdle
    <3>2. \E pc \in {"start", "sync", "note"} : lpc' = [lpc EXCEPT ![s] = pc]
      BY <2>15 DEF LoopPrepared, LoopIdle
    <3>3. UNCHANGED <<scn, mail, coord, run, pub, settle, reqs, lunread, lbatch, notified, member, apc, aborting, hist>>
      BY <2>15 DEF LoopPrepared, LoopIdle
    <3> QED BY <1>c, <1>p, <2>a, <3>1, <3>2, <3>3 DEF RestType
  <2>16. CASE LoopNote(s) \/ LoopWake(s) \/ LoopWoke(s)
    <3>1. UNCHANGED mail \/ \E r \in Reqs : mail' = [mail EXCEPT ![r] = "unread"]
      BY <2>16 DEF LoopNote, LoopWake, LoopWoke
    <3>2. UNCHANGED rpc \/ \E r \in Reqs : rpc' = [rpc EXCEPT ![r] = "sync"]
      BY <2>16 DEF LoopNote, LoopWake, LoopWoke
    <3>3. \E pc \in {"wake", "waking", "sync"} : lpc' = [lpc EXCEPT ![s] = pc]
      BY <2>16 DEF LoopNote, LoopWake, LoopWoke
    <3>4. UNCHANGED <<scn, coord, run, pub, settle, seen, lunread, lbatch, notified, rest, hist>>
      BY <2>16 DEF LoopNote, LoopWake, LoopWoke
    <3>5. mail' \in [Reqs -> {"none", "unread", "read"}]
      BY <3>1 DEF RestType
    <3>6. rpc' \in [Reqs -> {"new", "sync", "set", "acquire", "write", "commit", "notify", "done"}]
      BY <3>2 DEF RestType
    <3> QED BY <1>c, <1>p, <2>a, <3>3, <3>4, <3>5, <3>6 DEF RestType
  <2> QED BY <1>2, <2>0, <2>1, <2>2, <2>3, <2>4, <2>5, <2>6, <2>7, <2>8, <2>9, <2>10, <2>11, <2>12, <2>13, <2>14, <2>15, <2>16 DEF LoopStep, IdleStep
<1>3. ASSUME NEW s \in Slots, AttachStep(s) \/ Repair(s) PROVE CoordType' /\ PubType' /\ RestType' /\ AdmType'
  <2>1. CASE AttachStart(s)
    <3>1. CoordType' /\ PubType'
      BY <1>l, <2>1, SetConstraintType DEF AttachStart, Constraints
    <3> QED BY <1>a, <2>1, <3>1 DEF AttachStart, RestType, reqs, loops, seat, hist, marks
  <2>2. CASE AttachPublish(s)
    <3>1. CoordType' /\ PubType'
      BY <1>l, <2>2, SetConstraintType DEF AttachPublish, Constraints
    <3> QED BY <1>a, <2>2, <3>1 DEF AttachPublish, Notified, RestType, reqs, loops, seat, hist, marks
  <2>3. CASE AttachReady(s) \/ AttachFails(s) \/ Repair(s)
    <3>1. \/ UNCHANGED member
          \/ \E m \in {"ready", "failed", "attaching"} : member' = [member EXCEPT ![s] = m]
      BY <2>3 DEF AttachReady, AttachFails, Repair
    <3>2. \E pc \in {"idle", "starting", "ready", "failed"} : apc' = [apc EXCEPT ![s] = pc]
      BY <2>3 DEF AttachReady, AttachFails, Repair
    <3>3. UNCHANGED lpc \/ lpc' = [lpc EXCEPT ![s] = IF @ = "gone" THEN "wait" ELSE @]
      BY <2>3 DEF AttachReady, AttachFails, Repair, loops
    <3>4. UNCHANGED <<scn, mail, coord, run, pub, settle, reqs, lunread, lbatch, notified, adm, aborting, hist>>
      BY <2>3 DEF AttachReady, AttachFails, Repair, loops, seat
    <3>8. status' \in [Slots -> {"none", "idle", "working", "error"}]
      BY <2>3 DEF AttachReady, AttachFails, Repair, seat, SetStatus, RestType
    <3>5. member' \in [Slots -> {"absent", "attaching", "ready", "failed", "removing", "stopped"}]
      BY <3>1 DEF RestType
    <3>6. apc' \in [Slots -> {"idle", "starting", "attach", "ready", "failed"}]
      BY <3>2 DEF RestType
    <3>7. lpc' \in [Slots -> LoopSteps]
      BY <3>3 DEF RestType, LoopSteps
    <3> QED BY <1>a, <1>c, <1>p, <3>4, <3>5, <3>6, <3>7, <3>8 DEF RestType, reqs, hist, marks
  <2> QED BY <1>3, <2>1, <2>2, <2>3 DEF AttachStep
<1>4. ASSUME AdminGoesOn PROVE CoordType' /\ PubType' /\ RestType' /\ AdmType'
  <2> USE DEF reqs, loops, rest, seat, hist, marks
  <2>1. CASE CancelRunWork
    <3>1. CoordType' /\ PubType' /\ AdmType'
      BY <2>1, AdminWorkType DEF CancelRunWork, AdmType
    <3> QED BY <2>1, <3>1 DEF CancelRunWork, RestType
  <2>2. CASE StopTurn
    <3>1. UNCHANGED scn
      BY <2>2 DEF StopTurn, CancelTurn
    <3>2. \/ \E turn \in adm.todo : adm' = [adm EXCEPT !.todo = @ \ {turn}]
          \/ adm' = [adm EXCEPT !.pc = "idle", !.todo = {}]
      BY <2>2 DEF StopTurn
    <3>3. AdmType'
      <4>1. ASSUME NEW turn \in adm.todo, adm' = [adm EXCEPT !.todo = @ \ {turn}] PROVE AdmType'
        BY <4>1 DEF AdmType
      <4>2. ASSUME adm' = [adm EXCEPT !.pc = "idle", !.todo = {}] PROVE AdmType'
        BY <4>2 DEF AdmType, AdmSteps
      <4> QED BY <3>2, <4>1, <4>2
    <3> QED BY <1>c, <1>p, <2>2, <3>1, <3>3 DEF StopTurn, RestType
  <2>3. CASE TurnsStopped
    BY <1>c, <1>p, <2>3 DEF TurnsStopped, RestType, AdmType, AdmSteps
  <2>4. CASE CancelSnapshotTurn
    <3>1. UNCHANGED scn
      BY <2>4 DEF CancelSnapshotTurn, CancelTurn
    <3>2. AdmType'
      BY <2>4 DEF CancelSnapshotTurn, AdmType, AdmSteps
    <3> QED BY <1>c, <1>p, <2>4, <3>1, <3>2 DEF CancelSnapshotTurn, RestType
  <2>5. CASE CancelBatch
    <3>1. adm.slot \in Slots /\ adm.batch.op \in 0..MaxOps /\ adm.batch.ids \subseteq Ids /\ lbatch[adm.slot].ids \subseteq Ids
      BY <1>b DEF AdmType, Batches
    <3>2. CoordType' /\ PubType'
      <4>1. TerminalizeBatch(Admin, adm.slot, adm.batch.op, adm.batch.ids, "cancelled") /\ "cancelled" \in Terminal
        BY <2>5 DEF CancelBatch, Terminal
      <4> QED BY <1>l, <2>5, <3>1, <4>1, TerminalizeType DEF CancelBatch
    <3> QED BY <2>5, <3>2 DEF CancelBatch, RestType, AdmType, AdmSteps
  <2>6. CASE RemoveLoop \/ RemoveAgent
    <3>1. notified' \subseteq notified /\ aborting' \subseteq Slots /\ removed' \subseteq Slots
      BY <2>6 DEF RemoveLoop, RemoveAgent, Unloop, RestType, AdmType
    <3>2. status' \in [Slots -> {"none", "idle", "working", "error"}]
      BY <2>6 DEF RemoveLoop, RemoveAgent, RestType
    <3>3. AdmType'
      BY <2>6 DEF RemoveLoop, RemoveAgent, AdmType, AdmSteps
    <3>4. UNCHANGED <<scn, mail, coord, run, pub, settle, reqs, loops, member, apc, prompted, dropped>>
      BY <2>6 DEF RemoveLoop, RemoveAgent
    <3> QED BY <1>c, <1>p, <3>1, <3>2, <3>3, <3>4 DEF RestType
  <2>7. CASE RemovePersist
    <3>1. AdmType' /\ UNCHANGED scn
      BY <2>7 DEF RemovePersist, AdmType, AdmSteps
    <3> QED BY <1>c, <1>p, <2>7, <3>1 DEF RemovePersist, RestType
  <2>8. CASE RemoveRestore \/ FinishRemove
    <3>1. AdmType'
      BY <2>8 DEF RemoveRestore, FinishRemove, AdmType, AdmSteps
    <3>2. member' \in [Slots -> {"absent", "attaching", "ready", "failed", "removing", "stopped"}]
      <4>1. \E to \in {"failed", "absent", member[adm.slot]} : member' = [member EXCEPT ![adm.slot] = to]
        BY <2>8 DEF RemoveRestore, FinishRemove
      <4>2. adm.slot \in Slots
        BY DEF AdmType
      <4> QED BY <4>1, <4>2 DEF RestType
    <3> QED BY <1>c, <1>p, <2>8, <3>1, <3>2 DEF RemoveRestore, FinishRemove, RestType
  <2>10. CASE StopSession
    BY <1>c, <1>p, <2>10 DEF StopSession, RestType, AdmType, AdmSteps
  <2> QED BY <1>4, <2>1, <2>2, <2>3, <2>4, <2>5, <2>6, <2>7, <2>8, <2>10 DEF AdminGoesOn
<1>5. ASSUME AdminBegins PROVE CoordType' /\ PubType' /\ RestType' /\ AdmType'
  <2> USE DEF reqs, loops, rest, seat, hist, marks
  <2>1. CASE BeginCancelRun
    BY <1>c, <1>p, <2>1 DEF BeginCancelRun, RestType, AdmType, AdmSteps, Active
  <2>2. CASE StopWork
    <3>1. CoordType' /\ PubType' /\ AdmType'
      BY <2>2, AdminWorkType DEF StopWork
    <3> QED BY <2>2, <3>1 DEF StopWork, RestType
  <2>3. ASSUME NEW s \in Slots, BeginCancelChild(s) PROVE CoordType' /\ PubType' /\ RestType' /\ AdmType'
    <3>1. active[s] \in Batches
      BY DEF CoordType
    <3>2. AdmType'
      BY <2>3, <3>1 DEF BeginCancelChild, AdmType, AdmSteps
    <3> QED BY <1>c, <1>p, <2>3, <3>2 DEF BeginCancelChild, RestType
  <2>4. ASSUME NEW s \in Slots, PauseSlot(s) PROVE CoordType' /\ PubType' /\ RestType' /\ AdmType'
    <3>1. active[s] \in Batches
      BY DEF CoordType
    <3>2. AdmType'
      BY <2>4, <3>1 DEF PauseSlot, AdmType, AdmSteps
    <3>3. CoordType'
      BY <2>4 DEF PauseSlot, CoordType
    <3> QED BY <1>p, <2>4, <3>2, <3>3 DEF PauseSlot, RestType
  <2>5. ASSUME NEW s \in Slots, BeginRemove(s) PROVE CoordType' /\ PubType' /\ RestType' /\ AdmType'
    BY <1>c, <1>p, <2>5 DEF BeginRemove, RestType, AdmType, AdmSteps
  <2> QED BY <1>5, <2>1, <2>2, <2>3, <2>4, <2>5 DEF AdminBegins
<1>6. ASSUME NEW a \in Actors, ActorStep(a) PROVE CoordType' /\ PubType' /\ RestType' /\ AdmType'
  <2> USE DEF reqs, loops, rest, seat, hist, marks
  <2>1. CASE Publish(a)
    <3>1. run' \in [id : 0..MaxRuns, status : {"none"} \cup Active \cup Terminal]
      BY <2>1 DEF Publish, ApplySummary, RestType, Active, Terminal
    <3>2. PubType'
      BY <2>1 DEF Publish, PubType
    <3> QED BY <1>a, <1>c, <2>1, <3>1, <3>2 DEF Publish, RestType
  <2>2. CASE MarkRead(a)
    BY <1>a, <1>c, <2>2 DEF MarkRead, RestType, PubType
  <2>3. CASE MarkReadFails(a)
    <3>1. PubType' /\ AdmType'
      BY <2>3 DEF MarkReadFails, PubType, AdmType, AdmSteps
    <3> QED BY <1>c, <2>3, <3>1 DEF MarkReadFails, RestType, LoopSteps
  <2> QED BY <1>6, <2>1, <2>2, <2>3 DEF ActorStep
<1>8. ASSUME NEW r \in Reqs, ReqDrop(r) PROVE CoordType' /\ PubType' /\ RestType' /\ AdmType'
  <2>1. mail' \in [Reqs -> {"none", "unread", "read"}]
    BY <1>8 DEF ReqDrop, RestType
  <2>2. PubType'
    BY <1>8 DEF ReqDrop, PubType
  <2> QED BY <1>a, <1>c, <1>8, <2>1, <2>2 DEF ReqDrop, Dropped, RestType, loops, rest, seat, hist, marks
<1>9. ASSUME AdminDrop PROVE CoordType' /\ PubType' /\ RestType' /\ AdmType'
  <2>1. PubType' /\ AdmType'
    BY <1>9 DEF AdminDrop, PubType, AdmType, AdmSteps
  <2> QED BY <1>c, <1>9, <2>1 DEF AdminDrop, Dropped, RestType, reqs, loops, seat, hist, marks
<1>7. CASE UNCHANGED vars
  BY <1>7, <1>a, <1>c, <1>p DEF vars, RestType, reqs, loops, rest, seat, hist, marks
<1> QED BY <1>1, <1>2, <1>3, <1>4, <1>5, <1>6, <1>7, <1>8, <1>9 DEF Next

(* Init has the types. *)
LEMMA TypeInit == ASSUME Init PROVE TypeInv
<1>1. CoordType
  BY TeamAssumption, NoBatchType DEF Init, CoordType, Constraints, InitialConstraint
<1>2. PubType
  BY DEF Init, PubType
<1>3. scn \in Workloads
  BY TeamAssumption DEF Init
<1>4. RestType
  BY <1>3, TeamAssumption DEF Init, RestType, Constraints, InitialConstraint, Kind, LoopSteps
<1>5. (CHOOSE s \in Slots : TRUE) \in Slots
  BY TeamAssumption
<1>6. AdmType
  BY <1>5, NoBatchType, TeamAssumption DEF Init, AdmType, AdmSteps
<1>7. LeaseType
  BY TeamAssumption DEF Init, LeaseType
<1> QED BY <1>1, <1>2, <1>4, <1>6, <1>7, TypeParts

(* Every variable of the session keeps its type: in particular no lease is   *)
(* bound to a run that bind_user_enqueue has not opened.                     *)
THEOREM TypesCorrect == Spec => []TypeOK
<1>1. Init => TypeInv
  BY TypeInit
<1>2. TypeInv /\ [Next]_vars => TypeInv'
  BY TypeStep
<1>3. TypeInv => TypeOK
  BY DEF TypeInv
<1> QED BY <1>1, <1>2, <1>3, PTL DEF Spec

-----------------------------------------------------------------------------
(* What each method of the coordinator does to the places of the intents *)

(* every slot keeps its batch or loses it, and no operation id is given out *)
BatchesKept ==
    /\ nextOp' = nextOp
    /\ \A s \in Slots : \/ active'[s].op = active[s].op /\ active'[s].ids = active[s].ids
                        \/ active'[s] = NoBatch

(* set_runtime_constraint empties the slot of a failed or stopped member *)
(* back into its queue.                                                  *)
LEMMA SetConstraintHome ==
    ASSUME CoordType, IntentHome, UNCHANGED scn, NEW a \in Actors, NEW s \in Slots, NEW c \in Constraints,
           SetConstraint(a, s, c)
    PROVE  IntentHome' /\ BatchesKept
<1> DEFINE live == Live(IdsOf(s))
           back == IF c = "stopped" THEN {} ELSE {i \in live : RunOf(i) = 0}
           st   == [i \in Ids |-> IF i \in back THEN "queued"
                               ELSE IF i \notin live THEN ist[i]
                               ELSE IF c = "failed" THEN "failed" ELSE "cancelled"]
<1>0. \A q \in Slots : IdsOf(q)' = IdsOf(q)
  BY DEF IdsOf, To
<1>1. CASE c \in {"failed", "stopped"}
  <2>1. /\ ist' = st /\ queue' = (queue \ IdsOf(s)) \cup back
        /\ active' = [active EXCEPT ![s] = NoBatch]
        /\ UNCHANGED nextOp
    BY <1>1 DEF SetConstraint
  <2>2. live = {i \in IdsOf(s) : ist[i] \in LiveStates} /\ back \subseteq live /\ IdsOf(s) \subseteq Ids
    BY DEF Live, IdsOf
  <2>3. \A q \in Slots \ {s} : IdsOf(q) \cap IdsOf(s) = {}
    BY DEF IdsOf
  <2>4. \A i \in Ids : ist'[i] = IF i \in back THEN "queued" ELSE IF i \notin live THEN ist[i]
                               ELSE IF c = "failed" THEN "failed" ELSE "cancelled"
    BY <2>1
  <2> HIDE DEF live, back, st
  <2>5. queue' = {i \in Ids : ist'[i] = "queued"}
    BY <2>1, <2>2, <2>4 DEF IntentHome, LiveStates
  <2>6. ASSUME NEW q \in Slots
        PROVE  /\ active'[q].ids = {i \in IdsOf(q) : ist'[i] \in {"starting", "running"}}
               /\ (active'[q].op = 0) = (active'[q].ids = {})
               /\ \A i \in active'[q].ids : ist'[i] = "running" <=> active'[q].turn
    <3>1. CASE q = s
      BY <2>1, <2>2, <2>4, <3>1 DEF NoBatch, LiveStates, CoordType
    <3>2. CASE q # s
      <4>1. active'[q] = active[q] /\ \A i \in IdsOf(q) : i \in Ids /\ ist'[i] = ist[i]
        BY <2>1, <2>2, <2>3, <2>4, <3>2 DEF CoordType, IdsOf
      <4> QED BY <4>1 DEF IntentHome
    <3> QED BY <3>1, <3>2
  <2>7. BatchesKept
    BY <2>1 DEF BatchesKept, CoordType
  <2> QED BY <1>0, <2>1, <2>5, <2>6, <2>7 DEF IntentHome
<1>2. CASE c \notin {"failed", "stopped"}
  BY <1>0, <1>2 DEF SetConstraint, IntentHome, BatchesKept
<1> QED BY <1>1, <1>2

(* commit_enqueue queues an intent that was nowhere; abort_enqueue touches *)
(* none.                                                                   *)
LEMMA EnqueueHome ==
    ASSUME CoordType, IntentHome, UNCHANGED scn, NEW r \in Reqs, ist[<<r, 0>>] = "none",
           CommitEnqueue(r) \/ AbortEnqueue(r)
    PROVE  IntentHome' /\ BatchesKept
<1>0. \A q \in Slots : IdsOf(q)' = IdsOf(q) /\ IdsOf(q) \subseteq Ids
  BY DEF IdsOf, To
<1>1. CASE CommitEnqueue(r)
  <2>1. /\ ist' = [ist EXCEPT ![<<r, 0>>] = "queued"] /\ queue' = queue \cup {<<r, 0>>}
        /\ UNCHANGED <<active, nextOp>>
    BY <1>1 DEF CommitEnqueue
  <2>2. <<r, 0>> \in Ids
    BY TeamAssumption DEF Ids
  <2>3. queue' = {i \in Ids : ist'[i] = "queued"}
    BY <2>1, <2>2 DEF IntentHome, CoordType
  <2>4. ASSUME NEW q \in Slots
        PROVE  /\ active'[q].ids = {i \in IdsOf(q) : ist'[i] \in {"starting", "running"}}
               /\ (active'[q].op = 0) = (active'[q].ids = {})
               /\ \A i \in active'[q].ids : ist'[i] = "running" <=> active'[q].turn
    BY <1>0, <2>1, <2>2 DEF IntentHome, CoordType
  <2> QED BY <1>0, <2>1, <2>3, <2>4 DEF IntentHome, BatchesKept
<1>2. CASE AbortEnqueue(r)
  BY <1>0, <1>2 DEF AbortEnqueue, IntentHome, BatchesKept
<1> QED BY <1>1, <1>2

(* reconcile_mailbox completes queued intents and queues unused ones. *)
LEMMA ReconcileHome ==
    ASSUME CoordType, IntentHome, UNCHANGED scn, NEW s \in Slots, NEW unread \in SUBSET Reqs,
           ReconcileMailbox(s, unread)
    PROVE  IntentHome' /\ BatchesKept
<1> DEFINE stale == {i \in queue \cap IdsOf(s) : HasMessage(i) /\ i[1] \notin unread}
           owned == {i[1] : i \in Live(IdsOf(s)) \ stale}
           fresh == {<<r, FreshCopy(r)>> : r \in unread \ owned}
<1>0. \A q \in Slots : IdsOf(q)' = IdsOf(q) /\ IdsOf(q) \subseteq Ids
  BY DEF IdsOf, To
<1>1. /\ \A r \in unread \ owned : ~Exhausted(r)
      /\ ist' = [i \in Ids |-> IF i \in stale THEN "completed"
                               ELSE IF i \in fresh THEN "queued" ELSE ist[i]]
      /\ queue' = (queue \ stale) \cup fresh
      /\ UNCHANGED <<active, nextOp>>
  BY DEF ReconcileMailbox
<1>2. fresh \subseteq Ids /\ \A i \in fresh : ist[i] = "none"
  BY <1>1, FreshCopyUnused
<1>3. stale \subseteq queue
  OBVIOUS
<1> HIDE DEF fresh, stale, owned
<1>4. queue' = {i \in Ids : ist'[i] = "queued"}
  BY <1>1, <1>2, <1>3 DEF IntentHome
<1>5. ASSUME NEW i \in Ids PROVE ist'[i] \in {"starting", "running"} <=> ist[i] \in {"starting", "running"}
  BY <1>1, <1>2, <1>3 DEF IntentHome
<1>6. ASSUME NEW i \in Ids, ist[i] \in {"starting", "running"} PROVE ist'[i] = ist[i]
  BY <1>1, <1>2, <1>3, <1>6 DEF IntentHome
<1> QED BY <1>0, <1>1, <1>4, <1>5, <1>6 DEF IntentHome, BatchesKept

(* next moves the batch it claims from the queue of its slot to the slot,  *)
(* which held none.                                                        *)
LEMMA ClaimHome ==
    ASSUME CoordType, IntentHome, UNCHANGED scn, NEW s \in Slots, Claim(s), active[s].op = 0, Claimed(s) # {}
    PROVE  IntentHome'
<1>0. \A q \in Slots : IdsOf(q)' = IdsOf(q) /\ IdsOf(q) \subseteq Ids
  BY DEF IdsOf, To
<1>1. Claimed(s) \subseteq queue \cap IdsOf(s) /\ active[s].ids = {}
  BY DEF Claimed, Class, IntentHome
<1>2. /\ ist' = [i \in Ids |-> IF i \in Claimed(s) THEN "starting" ELSE ist[i]]
      /\ queue' = queue \ Claimed(s)
      /\ active' = [active EXCEPT ![s] = [op |-> nextOp[s] + 1, ids |-> Claimed(s), turn |-> FALSE]]
      /\ nextOp[s] \in Nat
  BY TeamAssumption DEF Claim, CoordType
<1>3. queue' = {i \in Ids : ist'[i] = "queued"}
  BY <1>1, <1>2 DEF IntentHome
<1>4. \A q \in Slots \ {s} : IdsOf(q) \cap IdsOf(s) = {}
  BY DEF IdsOf
<1>5. ASSUME NEW q \in Slots
      PROVE  /\ active'[q].ids = {i \in IdsOf(q) : ist'[i] \in {"starting", "running"}}
             /\ (active'[q].op = 0) = (active'[q].ids = {})
             /\ \A i \in active'[q].ids : ist'[i] = "running" <=> active'[q].turn
  <2>1. CASE q = s
    BY <1>0, <1>1, <1>2, <2>1 DEF CoordType, IntentHome
  <2>2. CASE q # s
    <3>1. active'[q] = active[q] /\ \A i \in IdsOf(q) : i \in Ids /\ ist'[i] = ist[i]
      BY <1>0, <1>1, <1>2, <1>4, <2>2 DEF CoordType
    <3> QED BY <3>1 DEF IntentHome
  <2> QED BY <2>1, <2>2
<1> QED BY <1>0, <1>3, <1>5 DEF IntentHome

(* Emptying one slot: its batch goes back to the queue or to a terminal state. *)
LEMMA EmptySlotHome ==
    ASSUME CoordType, IntentHome, UNCHANGED scn, NEW s \in Slots, NEW to \in {"queued"} \cup Terminal,
           ist' = [i \in Ids |-> IF i \in active[s].ids THEN to ELSE ist[i]],
           queue' = IF to = "queued" THEN queue \cup active[s].ids ELSE queue,
           active' = [active EXCEPT ![s] = NoBatch],
           UNCHANGED nextOp
    PROVE  IntentHome' /\ BatchesKept
<1>0. \A q \in Slots : IdsOf(q)' = IdsOf(q) /\ IdsOf(q) \subseteq Ids
  BY DEF IdsOf, To
<1>1. active[s].ids = {i \in IdsOf(s) : ist[i] \in {"starting", "running"}}
  BY DEF IntentHome
<1>2. \A q \in Slots \ {s} : IdsOf(q) \cap IdsOf(s) = {}
  BY DEF IdsOf
<1>3. queue' = {i \in Ids : ist'[i] = "queued"}
  BY <1>0, <1>1 DEF IntentHome, Terminal
<1>5. ASSUME NEW q \in Slots
      PROVE  /\ active'[q].ids = {i \in IdsOf(q) : ist'[i] \in {"starting", "running"}}
             /\ (active'[q].op = 0) = (active'[q].ids = {})
             /\ \A i \in active'[q].ids : ist'[i] = "running" <=> active'[q].turn
  <2>1. CASE q = s
    BY <1>0, <1>1, <2>1 DEF CoordType, NoBatch, Terminal
  <2>2. CASE q # s
    <3>1. active'[q] = active[q] /\ \A i \in IdsOf(q) : i \in Ids /\ ist'[i] = ist[i]
      BY <1>0, <1>1, <1>2, <2>2 DEF CoordType
    <3> QED BY <3>1 DEF IntentHome
  <2> QED BY <2>1, <2>2
<1>6. BatchesKept
  BY DEF BatchesKept, CoordType
<1> QED BY <1>0, <1>3, <1>5, <1>6 DEF IntentHome

(* mark_started, retry_start and terminalize_batch, called with the batch    *)
(* the slot holds, and complete_signals.                                     *)
LEMMA SettleHome ==
    ASSUME CoordType, IntentHome, UNCHANGED scn, NEW s \in Slots, lbatch[s].ids \subseteq Ids,
           active[s].op = lbatch[s].op /\ ~CompleteSignals(s) => active[s].ids = lbatch[s].ids,
           \/ MarkStarted(s) /\ IsCurrent(s, lbatch[s].op)
           \/ RetryStart(s)
           \/ CompleteSignals(s)
    PROVE  IntentHome' /\ BatchesKept
<1>0. \A q \in Slots : IdsOf(q)' = IdsOf(q) /\ IdsOf(q) \subseteq Ids
  BY DEF IdsOf, To
<1>k. CASE UNCHANGED coord
  BY <1>0, <1>k DEF coord, IntentHome, BatchesKept
<1>1. CASE MarkStarted(s) /\ IsCurrent(s, lbatch[s].op) /\ ~CompleteSignals(s)
  <2>1. active[s].ids = lbatch[s].ids /\ active[s].ids = {i \in IdsOf(s) : ist[i] \in {"starting", "running"}}
    BY <1>1 DEF IsCurrent, IntentHome
  <2>2. /\ ist' = [i \in Ids |-> IF i \in active[s].ids THEN "running" ELSE ist[i]]
        /\ active' = [active EXCEPT ![s].turn = TRUE]
        /\ UNCHANGED <<queue, nextOp>>
    BY <1>1, <2>1 DEF MarkStarted
  <2>3. queue' = {i \in Ids : ist'[i] = "queued"}
    BY <1>0, <2>1, <2>2 DEF IntentHome
  <2>4. \A q \in Slots \ {s} : IdsOf(q) \cap IdsOf(s) = {}
    BY DEF IdsOf
  <2>5. ASSUME NEW q \in Slots
        PROVE  /\ active'[q].ids = {i \in IdsOf(q) : ist'[i] \in {"starting", "running"}}
               /\ (active'[q].op = 0) = (active'[q].ids = {})
               /\ \A i \in active'[q].ids : ist'[i] = "running" <=> active'[q].turn
    <3>1. CASE q = s
      <4>1. active[s] \in Batches
        BY DEF CoordType
      <4>2. active'[s].ids = active[s].ids /\ active'[s].op = active[s].op /\ active'[s].turn = TRUE
        BY <2>2, <4>1 DEF CoordType, Batches
      <4>3. \A i \in active[s].ids : ist'[i] = "running"
        BY <1>0, <2>1, <2>2
      <4>4. \A i \in IdsOf(s) : ist'[i] \in {"starting", "running"} <=> i \in active[s].ids
        BY <1>0, <2>1, <2>2
      <4> QED BY <2>1, <3>1, <4>2, <4>3, <4>4 DEF IntentHome
    <3>2. CASE q # s
      <4>1. active'[q] = active[q] /\ \A i \in IdsOf(q) : i \in Ids /\ ist'[i] = ist[i]
        BY <1>0, <2>1, <2>2, <2>4, <3>2 DEF CoordType
      <4> QED BY <4>1 DEF IntentHome
    <3> QED BY <3>1, <3>2
  <2>6. BatchesKept
    BY <2>2 DEF BatchesKept, CoordType, Batches
  <2> QED BY <1>0, <2>2, <2>3, <2>5, <2>6 DEF IntentHome
<1>2. CASE RetryStart(s) /\ IsCurrent(s, lbatch[s].op) /\ ~CompleteSignals(s)
  <2>1. active[s].ids = lbatch[s].ids
    BY <1>2 DEF IsCurrent
  <2> QED BY <1>2, <2>1, EmptySlotHome DEF RetryStart
<1>3. CASE CompleteSignals(s) /\ \A i \in lbatch[s].ids : ist[i] = "queued"
  <2>1. /\ ist' = [i \in Ids |-> IF i \in lbatch[s].ids THEN "completed" ELSE ist[i]]
        /\ queue' = queue \ lbatch[s].ids
        /\ UNCHANGED <<active, nextOp>>
    BY <1>3 DEF CompleteSignals
  <2>2. queue' = {i \in Ids : ist'[i] = "queued"}
    BY <2>1 DEF IntentHome
  <2>3. \A i \in Ids : /\ ist'[i] \in {"starting", "running"} <=> ist[i] \in {"starting", "running"}
                       /\ ist'[i] = "running" <=> ist[i] = "running"
    BY <1>3, <2>1
  <2> QED BY <1>0, <2>1, <2>2, <2>3 DEF IntentHome, BatchesKept
<1> QED BY <1>k, <1>1, <1>2, <1>3 DEF RetryStart, CompleteSignals

(* terminalize_batch of a batch that is the slot's own, or of a stale one. *)
LEMMA TerminalizeHome ==
    ASSUME CoordType, IntentHome, UNCHANGED scn, NEW s \in Slots, NEW a, NEW op, NEW ids, NEW to \in Terminal,
           active[s].op = op => active[s].ids = ids,
           TerminalizeBatch(a, s, op, ids, to)
    PROVE  IntentHome' /\ BatchesKept
<1>1. CASE IsCurrent(s, op)
  <2>1. to # "queued"
    BY DEF Terminal
  <2> QED BY <1>1, <2>1, EmptySlotHome DEF TerminalizeBatch, IsCurrent
<1>2. CASE ~IsCurrent(s, op)
  <2>1. \A q \in Slots : IdsOf(q)' = IdsOf(q)
    BY DEF IdsOf, To
  <2> QED BY <1>2, <2>1 DEF TerminalizeBatch, coord, IntentHome, BatchesKept
<1> QED BY <1>1, <1>2

(* cancel_run puts back what it does not cancel. *)
LEMMA CancelRunHome ==
    ASSUME CoordType, IntentHome, UNCHANGED scn, NEW n, CancelRun(n)
    PROVE  IntentHome' /\ BatchesKept
<1> DEFINE hit  == {s \in Slots : \E i \in active[s].ids : RunOf(i) = n}
           held == UNION {active[s].ids : s \in hit}
           gone == {i \in held : RunOf(i) = n}
                   \cup {i \in Ids : RunOf(i) = n /\ ist[i] = "queued"}
           back == held \ gone
<1>0. \A q \in Slots : IdsOf(q)' = IdsOf(q) /\ IdsOf(q) \subseteq Ids
  BY DEF IdsOf, To
<1>1. /\ ist' = [i \in Ids |-> IF i \in gone THEN "cancelled" ELSE IF i \in back THEN "queued" ELSE ist[i]]
      /\ queue' = (queue \ gone) \cup back
      /\ active' = [s \in Slots |-> IF s \in hit THEN NoBatch ELSE active[s]]
      /\ UNCHANGED nextOp
  BY DEF CancelRun
<1>2. /\ held \subseteq gone \cup back /\ gone \subseteq held \cup queue /\ back \subseteq held /\ back \cap gone = {}
      /\ \A s \in hit : active[s].ids \subseteq held
      /\ \A i \in held : i \in Ids /\ ist[i] \in {"starting", "running"} /\ \E s \in hit : i \in IdsOf(s)
      /\ \A s \in Slots \ hit : IdsOf(s) \cap held = {}
  <2>1. held \subseteq gone \cup back /\ back \subseteq held /\ back \cap gone = {}
    OBVIOUS
  <2>2. gone \subseteq held \cup queue
    BY DEF IntentHome
  <2>3. \A i \in held : \E s \in hit : i \in active[s].ids
    OBVIOUS
  <2>4. \A s \in hit : active[s].ids \subseteq held /\ s \in Slots
    OBVIOUS
  <2>5. \A s \in Slots, q \in Slots : s # q => IdsOf(s) \cap IdsOf(q) = {}
    BY DEF IdsOf
  <2> HIDE DEF hit, held, gone, back
  <2>6. \A i \in held : i \in Ids /\ ist[i] \in {"starting", "running"} /\ \E s \in hit : i \in IdsOf(s)
    BY <1>0, <2>3, <2>4 DEF IntentHome
  <2> QED BY <2>1, <2>2, <2>4, <2>5, <2>6
<1>3. hit \subseteq Slots
  OBVIOUS
<1> HIDE DEF hit, held, gone, back
<1>4. queue' = {i \in Ids : ist'[i] = "queued"}
  BY <1>1, <1>2 DEF IntentHome
<1>5. ASSUME NEW q \in Slots
      PROVE  /\ active'[q].ids = {i \in IdsOf(q) : ist'[i] \in {"starting", "running"}}
             /\ (active'[q].op = 0) = (active'[q].ids = {})
             /\ \A i \in active'[q].ids : ist'[i] = "running" <=> active'[q].turn
  <2>1. CASE q \in hit
    <3>1. active'[q] = NoBatch
      BY <1>1, <2>1
    <3>2. \A i \in IdsOf(q) : ist'[i] \notin {"starting", "running"}
      BY <1>0, <1>1, <1>2, <2>1 DEF IntentHome
    <3> QED BY <3>1, <3>2 DEF NoBatch
  <2>2. CASE q \notin hit
    <3>1. active'[q] = active[q]
      BY <1>1, <2>2
    <3>2. \A i \in IdsOf(q) : i \notin held /\ i \in Ids
      BY <1>0, <1>2, <2>2
    <3>3. \A i \in IdsOf(q) : /\ ist'[i] \in {"starting", "running"} <=> ist[i] \in {"starting", "running"}
                              /\ ist'[i] = "running" <=> ist[i] = "running"
      BY <1>1, <1>2, <3>2 DEF IntentHome
    <3> QED BY <3>1, <3>3 DEF IntentHome
  <2> QED BY <2>1, <2>2
<1>6. BatchesKept
  BY <1>1 DEF BatchesKept
<1> QED BY <1>0, <1>1, <1>4, <1>5, <1>6 DEF IntentHome

(* stop empties every slot and every queue. *)
LEMMA EmptiesHome ==
    ASSUME CoordType, IntentHome, UNCHANGED scn, StopAll
    PROVE  IntentHome' /\ BatchesKept
<1>0. \A q \in Slots : IdsOf(q)' = IdsOf(q) /\ IdsOf(q) \subseteq Ids
  BY DEF IdsOf, To
<1>1. /\ \A i \in Ids : ist'[i] = IF ist[i] \in LiveStates THEN "cancelled" ELSE ist[i]
      /\ queue' = {} /\ \A s \in Slots : active'[s] = NoBatch
      /\ UNCHANGED nextOp
  BY DEF StopAll
<1>2. \A i \in Ids : ist'[i] \notin LiveStates
  BY <1>1 DEF LiveStates
<1> QED BY <1>0, <1>1, <1>2 DEF IntentHome, BatchesKept, LiveStates, NoBatch

(* only live intents are moved: none is created and none is settled twice *)
Onward == \A i \in Ids : /\ ist[i] = "none" <=> ist'[i] = "none"
                         /\ ist[i] \in Terminal => ist'[i] = ist[i]

(* Every method of the coordinator but commit_enqueue and reconcile_mailbox  *)
(* moves live intents only.                                                  *)
LEMMA MethodsOnward ==
    ASSUME CoordType, IntentHome,
           \/ \E a \in Actors, s \in Slots, c \in Constraints : SetConstraint(a, s, c)
           \/ \E r \in Reqs : AbortEnqueue(r)
           \/ \E s \in Slots : Claim(s)
           \/ \E n : CancelRun(n)
           \/ StopAll
    PROVE  Onward
<1>0. \A s \in Slots : \A i \in active[s].ids : i \in Ids /\ ist[i] \in LiveStates
  BY DEF IntentHome, IdsOf, LiveStates
<1>q. \A i \in queue : i \in Ids /\ ist[i] \in LiveStates
  BY DEF IntentHome, LiveStates
<1>t. \A x \in LiveStates : x # "none" /\ x \notin Terminal
  BY DEF LiveStates, Terminal
<1>1. ASSUME NEW a \in Actors, NEW s \in Slots, NEW c \in Constraints, SetConstraint(a, s, c) PROVE Onward
  <2>1. ist' = ist \/ \A i \in Ids : IF i \notin Live(IdsOf(s)) THEN ist'[i] = ist[i] ELSE ist'[i] # "none"
    BY <1>1 DEF SetConstraint
  <2>2. \A i \in Live(IdsOf(s)) : ist[i] \in LiveStates
    BY DEF Live
  <2>3. CASE ist' = ist
    BY <2>3 DEF Onward
  <2> QED BY <1>t, <2>1, <2>2, <2>3 DEF Onward
<1>2. ASSUME NEW r \in Reqs, AbortEnqueue(r) PROVE Onward
  BY <1>2 DEF AbortEnqueue, Onward
<1>3. ASSUME NEW s \in Slots, Claim(s) PROVE Onward
  <2>1. \A i \in Ids : IF i \notin Claimed(s) THEN ist'[i] = ist[i] ELSE ist'[i] # "none"
    BY <1>3 DEF Claim
  <2>2. Claimed(s) \subseteq queue
    BY DEF Claimed, Class
  <2> QED BY <1>q, <1>t, <2>1, <2>2 DEF Onward
<1>4. ASSUME NEW n, CancelRun(n) PROVE Onward
  <2> DEFINE hit  == {s \in Slots : \E i \in active[s].ids : RunOf(i) = n}
             held == UNION {active[s].ids : s \in hit}
             gone == {i \in held : RunOf(i) = n}
                     \cup {i \in Ids : RunOf(i) = n /\ ist[i] = "queued"}
             back == held \ gone
  <2>1. \A i \in Ids : IF i \notin gone \cup back THEN ist'[i] = ist[i] ELSE ist'[i] # "none"
    BY <1>4 DEF CancelRun
  <2>2. \A i \in gone \cup back : ist[i] \in LiveStates
    BY <1>0 DEF LiveStates
  <2> HIDE DEF gone, back
  <2> QED BY <1>t, <2>1, <2>2 DEF Onward
<1>6. CASE StopAll
  <2>1. \A i \in Ids : IF ist[i] \notin LiveStates THEN ist'[i] = ist[i] ELSE ist'[i] # "none"
    BY <1>6 DEF StopAll
  <2> QED BY <1>t, <2>1 DEF Onward
<1> QED BY <1>1, <1>2, <1>3, <1>4, <1>6

(* The same of the methods a loop calls with the batch its slot holds, and *)
(* of complete_signals.                                                    *)
LEMMA SettleOnward ==
    ASSUME CoordType, IntentHome, NEW s \in Slots,
           active[s].op = lbatch[s].op /\ ~CompleteSignals(s) => active[s].ids = lbatch[s].ids,
           \/ MarkStarted(s) /\ IsCurrent(s, lbatch[s].op)
           \/ RetryStart(s)
           \/ CompleteSignals(s)
    PROVE  Onward
<1>0. \A i \in active[s].ids : i \in Ids /\ ist[i] \in LiveStates
  BY DEF IntentHome, IdsOf, LiveStates
<1>t. \A x \in LiveStates : x # "none" /\ x \notin Terminal
  BY DEF LiveStates, Terminal
<1>1. CASE ist' = ist
  BY <1>1 DEF Onward
<1>2. CASE CompleteSignals(s) /\ ist' # ist
  <2>1. /\ \A i \in lbatch[s].ids : ist[i] = "queued"
        /\ \A i \in Ids : IF i \notin lbatch[s].ids THEN ist'[i] = ist[i] ELSE ist'[i] # "none"
    BY <1>2 DEF CompleteSignals, coord
  <2> QED BY <2>1 DEF Onward, Terminal
<1>3. CASE IsCurrent(s, lbatch[s].op) /\ (MarkStarted(s) \/ RetryStart(s)) /\ ~CompleteSignals(s)
  <2>1. \A i \in Ids : IF i \notin active[s].ids THEN ist'[i] = ist[i] ELSE ist'[i] # "none"
    BY <1>3 DEF IsCurrent, MarkStarted, RetryStart
  <2> QED BY <1>0, <1>t, <2>1 DEF Onward
<1> QED BY <1>1, <1>2, <1>3 DEF RetryStart, coord

(* The same of terminalize_batch. *)
LEMMA TerminalizeOnward ==
    ASSUME CoordType, IntentHome, NEW s \in Slots, NEW a, NEW op, NEW ids, NEW to \in Terminal,
           active[s].op = op => active[s].ids = ids,
           TerminalizeBatch(a, s, op, ids, to)
    PROVE  Onward
<1>0. \A i \in active[s].ids : i \in Ids /\ ist[i] \in LiveStates
  BY DEF IntentHome, IdsOf, LiveStates
<1>t. \A x \in LiveStates : x # "none" /\ x \notin Terminal
  BY DEF LiveStates, Terminal
<1>1. CASE ist' = ist
  BY <1>1 DEF Onward
<1>2. CASE IsCurrent(s, op)
  <2>1. \A i \in Ids : IF i \notin active[s].ids THEN ist'[i] = ist[i] ELSE ist'[i] # "none"
    BY <1>2 DEF IsCurrent, TerminalizeBatch, Terminal
  <2> QED BY <1>0, <1>t, <2>1 DEF Onward
<1> QED BY <1>1, <1>2 DEF TerminalizeBatch, coord

(* What any step does to the coordinator: only a commit and a reconcile may  *)
(* create intents, only a claim may give out an operation id.                *)
Creates == \/ \E r \in Reqs : ReqCommit(r) /\ CommitEnqueue(r)
           \/ \E s \in Slots : LoopReconcile(s)
Claims(s) == LoopNext(s) /\ Claim(s) /\ Serves(s) /\ Claimed(s) # {}
CoordMoves == /\ IntentHome' /\ UNCHANGED scn
              /\ Onward \/ Creates
              /\ BatchesKept \/ \E s \in Slots : Claims(s)

(* Every step moves the coordinator that way. *)
LEMMA CoordStep ==
    ASSUME TypeInv, IntentHome, NewInv, BatchInv, [Next]_vars
    PROVE  CoordMoves
<1>0. CoordType /\ PubType /\ RestType /\ AdmType
  BY TypeParts
<1> USE <1>0
<1>k. UNCHANGED <<coord, scn>> => CoordMoves
  <2> HAVE UNCHANGED <<coord, scn>>
  <2>1. \A s \in Slots : IdsOf(s)' = IdsOf(s)
    BY DEF IdsOf, To
  <2> QED BY <2>1 DEF coord, CoordMoves, IntentHome, Onward, BatchesKept
<1>c. ASSUME NEW a \in Actors, NEW s \in Slots, NEW c \in Constraints, SetConstraint(a, s, c), UNCHANGED scn
      PROVE  CoordMoves
  BY <1>c, SetConstraintHome, MethodsOnward DEF CoordMoves
<1>t. ASSUME NEW s \in Slots, NEW a, NEW op, NEW ids, NEW to \in Terminal, UNCHANGED scn,
             active[s].op = op => active[s].ids = ids, TerminalizeBatch(a, s, op, ids, to)
      PROVE  CoordMoves
  BY <1>t, TerminalizeHome, TerminalizeOnward DEF CoordMoves
<1>s. ASSUME NEW s \in Slots, lpc[s] \in Executing, UNCHANGED scn,
             (MarkStarted(s) /\ IsCurrent(s, lbatch[s].op)) \/ RetryStart(s)
      PROVE  CoordMoves
  <2>1. lbatch[s].ids \subseteq Ids /\ (active[s].op = lbatch[s].op => active[s].ids = lbatch[s].ids)
    BY <1>s DEF RestType, BatchInv
  <2>2. IntentHome' /\ BatchesKept
    BY <1>s, <2>1, SettleHome
  <2>3. Onward
    BY <1>s, <2>1, SettleOnward
  <2> QED BY <1>s, <2>2, <2>3 DEF CoordMoves
<1>a. \A s \in Slots : s \in Actors /\ Attach(s) \in Actors /\ Admin \in Actors /\ SeenConstraint(s) \in Constraints
  BY DEF Actors, Attach, SeenConstraint, Constraints, RestType
<1>b. \A r \in Reqs : r \in Actors /\ To(r) \in Slots
  BY DEF Actors, To, RestType, Workloads
<1>v. "starting" \in Constraints /\ "ready" \in Constraints /\ "failed" \in Constraints /\ "removing" \in Constraints
  BY DEF Constraints
<1>w. "cancelled" \in Terminal /\ "completed" \in Terminal /\ "failed" \in Terminal
  BY DEF Terminal
<1>x. {"prepare", "start", "late", "drop", "running", "finish", "fail"} = Executing
  BY DEF Executing
<1> USE DEF NoFault, Fault
<1>1. ASSUME NEW r \in Reqs, ReqStep(r) PROVE CoordMoves
  <2>1. CASE NoticeWrite(r) \/ ReqSync(r) \/ ReqNotify(r)
    BY <1>k, <2>1 DEF NoticeWrite, ReqSync, ReqNotify
  <2>2. CASE ReqSet(r)
    BY <1>b, <1>c, <2>2 DEF ReqSet, RestType
  <2>3. CASE ReqAcquire(r)
    <3>1. UNCHANGED <<scn, ist, queue, active, nextOp>>
      BY <2>3 DEF ReqAcquire
    <3>2. \A s \in Slots : IdsOf(s)' = IdsOf(s)
      BY <3>1 DEF IdsOf, To
    <3> QED BY <3>1, <3>2 DEF CoordMoves, IntentHome, Onward, BatchesKept
  <2>4. CASE ReqWrite(r)
    <3>1. ist[<<r, 0>>] = "none" /\ UNCHANGED scn
      BY <2>4 DEF NewInv, ReqWrite
    <3>2. CASE AbortEnqueue(r)
      BY <3>1, <3>2, EnqueueHome, MethodsOnward DEF CoordMoves
    <3> QED BY <1>k, <2>4, <3>1, <3>2 DEF ReqWrite
  <2>5. CASE ReqCommit(r)
    <3>1. ist[<<r, 0>>] = "none" /\ UNCHANGED scn
      BY <2>5 DEF NewInv, ReqCommit
    <3>2. CASE AbortEnqueue(r)
      BY <3>1, <3>2, EnqueueHome, MethodsOnward DEF CoordMoves
    <3>3. CASE CommitEnqueue(r)
      <4>1. IntentHome' /\ BatchesKept
        BY <3>1, <3>3, EnqueueHome
      <4> QED BY <2>5, <3>1, <3>3, <4>1 DEF CoordMoves, Creates
    <3> QED BY <2>5, <3>2, <3>3 DEF ReqCommit
  <2> QED BY <1>1, <2>1, <2>2, <2>3, <2>4, <2>5 DEF ReqStep
<1>2. ASSUME NEW s \in Slots, LoopStep(s) PROVE CoordMoves
  <2>1. CASE LoopSet(s)
    BY <1>a, <1>c, <2>1 DEF LoopSet, RestType
  <2>2. CASE LoopSync(s) \/ LoopPeek(s) \/ LoopPrepared(s) \/ LoopRefused(s) \/ LoopLateCancel(s) \/ LoopTurnEnds(s)
             \/ IdleStep(s) \/ LoopAbort(s)
    BY <1>k, <2>2 DEF LoopSync, LoopPeek, LoopPrepared, LoopRefused, LoopLateCancel, LoopTurnEnds, IdleStep, LoopIdle,
       LoopNote, LoopWake, LoopWoke, LoopAbort, CancelTurn
  <2>3. CASE LoopReconcile(s)
    <3>1. ReconcileMailbox(s, lunread[s]) /\ UNCHANGED scn /\ lunread[s] \subseteq Reqs
      BY <2>3 DEF LoopReconcile, RestType
    <3>2. IntentHome' /\ BatchesKept
      BY <3>1, ReconcileHome
    <3> QED BY <2>3, <3>1, <3>2 DEF CoordMoves, Creates
  <2>4. CASE LoopNext(s)
    <3>1. CASE UNCHANGED coord
      BY <1>k, <2>4, <3>1 DEF LoopNext
    <3>2. CASE Serves(s) /\ Claimed(s) # {} /\ Claim(s)
      <4>1. active[s].op = 0 /\ UNCHANGED scn
        BY <2>4, <3>2 DEF Serves, LoopNext, Claim
      <4>2. IntentHome' /\ Onward
        BY <3>2, <4>1, ClaimHome, MethodsOnward
      <4> QED BY <2>4, <3>2, <4>1, <4>2 DEF CoordMoves, Claims
    <3> QED BY <2>4, <3>1, <3>2 DEF LoopNext
  <2>5. CASE LoopSignal(s)
    <3>1. CompleteSignals(s) /\ UNCHANGED scn /\ lbatch[s].ids \subseteq Ids
      BY <2>5 DEF LoopSignal, RestType
    <3> QED BY <3>1, SettleHome, SettleOnward DEF CoordMoves
  <2>6. CASE LoopPrepareFails(s) \/ LoopSkipped(s)
    BY <1>s, <1>x, <2>6 DEF LoopPrepareFails, LoopSkipped
  <2>7. CASE LoopStart(s)
    <3>1. CASE IsCurrent(s, lbatch[s].op)
      BY <1>s, <1>x, <2>7, <3>1 DEF LoopStart
    <3> QED BY <1>k, <2>7, <3>1 DEF LoopStart
  <2>8. CASE LoopLateDrop(s) \/ LoopFail(s) \/ LoopFinish(s)
    <3>1. PICK to \in Terminal : TerminalizeBatch(s, s, lbatch[s].op, lbatch[s].ids, to) /\ UNCHANGED scn
      BY <1>w, <2>8 DEF LoopLateDrop, LoopFail, LoopFinish
    <3>2. active[s].op = lbatch[s].op => active[s].ids = lbatch[s].ids
      BY <1>x, <2>8 DEF LoopLateDrop, LoopFail, LoopFinish, BatchInv
    <3> QED BY <1>t, <3>1, <3>2
  <2> QED BY <1>2, <2>1, <2>2, <2>3, <2>4, <2>5, <2>6, <2>7, <2>8 DEF LoopStep
<1>3. ASSUME NEW s \in Slots, AttachStep(s) \/ Repair(s) PROVE CoordMoves
  <2>1. CASE AttachStart(s) \/ AttachPublish(s)
    BY <1>a, <1>c, <1>v, <2>1 DEF AttachStart, AttachPublish
  <2>2. CASE AttachReady(s) \/ AttachFails(s) \/ Repair(s)
    BY <1>k, <2>2 DEF AttachReady, AttachFails, Repair
  <2> QED BY <1>3, <2>1, <2>2 DEF AttachStep
<1>4. ASSUME AdminGoesOn PROVE CoordMoves
  <2>0. adm.slot \in Slots
    BY DEF AdmType
  <2>1. CASE CancelRunWork
    <3>1. CancelRun(adm.run) /\ UNCHANGED scn
      BY <2>1 DEF CancelRunWork
    <3> QED BY <3>1, CancelRunHome, MethodsOnward DEF CoordMoves
  <2>2. CASE StopTurn \/ TurnsStopped \/ CancelSnapshotTurn \/ RemoveLoop \/ RemovePersist \/ RemoveRestore \/ RemoveAgent
             \/ FinishRemove \/ StopSession
    BY <1>k, <2>2 DEF StopTurn, TurnsStopped, CancelSnapshotTurn, RemoveLoop, RemovePersist, RemoveRestore, RemoveAgent,
       FinishRemove, StopSession, CancelTurn
  <2>3. CASE CancelBatch
    <3>1. active[adm.slot].op = adm.batch.op => active[adm.slot].ids = adm.batch.ids
      BY <2>3 DEF CancelBatch, BatchInv
    <3>2. TerminalizeBatch(Admin, adm.slot, adm.batch.op, adm.batch.ids, "cancelled") /\ UNCHANGED scn
      BY <2>3 DEF CancelBatch
    <3> QED BY <1>t, <1>w, <2>0, <3>1, <3>2
  <2> QED BY <1>4, <2>1, <2>2, <2>3 DEF AdminGoesOn
<1>5. ASSUME AdminBegins PROVE CoordMoves
  <2>1. CASE BeginCancelRun \/ \E s \in Slots : BeginCancelChild(s) \/ BeginRemove(s)
    BY <1>k, <2>1 DEF BeginCancelRun, BeginCancelChild, BeginRemove
  <2>2. CASE StopWork
    <3>1. StopAll /\ UNCHANGED scn
      BY <2>2 DEF StopWork
    <3> QED BY <3>1, EmptiesHome, MethodsOnward DEF CoordMoves
  <2>3. ASSUME NEW s \in Slots, PauseSlot(s) PROVE CoordMoves
    <3>1. UNCHANGED <<scn, ist, queue, active, nextOp>>
      BY <2>3 DEF PauseSlot
    <3>2. \A q \in Slots : IdsOf(q)' = IdsOf(q)
      BY <3>1 DEF IdsOf, To
    <3> QED BY <3>1, <3>2 DEF CoordMoves, IntentHome, Onward, BatchesKept
  <2> QED BY <1>5, <2>1, <2>2, <2>3 DEF AdminBegins
<1>6. ASSUME NEW a \in Actors, ActorStep(a) PROVE CoordMoves
  BY <1>6, <1>k DEF ActorStep, Publish, MarkRead, MarkReadFails
<1>7. CASE AdminDrop \/ (\E r \in Reqs : ReqDrop(r)) \/ UNCHANGED vars
  BY <1>7, <1>k DEF AdminDrop, ReqDrop, vars
<1> QED BY <1>1, <1>2, <1>3, <1>4, <1>5, <1>6, <1>7 DEF Next

-----------------------------------------------------------------------------
(* The inductive step *)

(* What was removed, dropped, called or injected stays on record, and a      *)
(* member that left the scheduler does not come back.                        *)
Onto == /\ removed \subseteq removed' /\ dropped \subseteq dropped'
        /\ faults \subseteq faults' /\ admDone \subseteq admDone'
        /\ \A s \in Slots : status[s] = "none" => status'[s] = "none"

(* Every step keeps that record. *)
LEMMA OntoStep == ASSUME RestType, [Next]_vars PROVE Onto
<1> USE DEF NoFault, Fault
<1>k. UNCHANGED <<rest, hist>> /\ faults \subseteq faults' => Onto
  BY DEF rest, seat, hist, marks, Onto
<1>s. ASSUME NEW s \in Slots, NEW to, SetStatus(s, to) PROVE \A q \in Slots : status[q] = "none" => status'[q] = "none"
  BY <1>s DEF SetStatus, RestType
<1>1. ASSUME NEW r \in Reqs, ReqStep(r) PROVE Onto
  <2>1. CASE NoticeWrite(r)
    BY <2>1 DEF NoticeWrite, Onto, seat, hist, marks
  <2> QED BY <1>1, <1>k, <2>1 DEF ReqStep, ReqSync, ReqSet, ReqAcquire, ReqWrite, ReqCommit, ReqNotify
<1>2. ASSUME NEW s \in Slots, LoopStep(s) PROVE Onto
  <2>1. CASE LoopPrepared(s) \/ LoopSkipped(s) \/ LoopFail(s) \/ LoopFinish(s) \/ LoopIdle(s)
    <3>1. \A q \in Slots : status[q] = "none" => status'[q] = "none"
      BY <1>s, <2>1 DEF LoopPrepared, LoopSkipped, LoopFail, LoopFinish, LoopIdle
    <3> QED BY <2>1, <3>1 DEF LoopPrepared, LoopSkipped, LoopFail, LoopFinish, LoopIdle, Onto, hist, marks
  <2>2. CASE LoopStart(s) \/ LoopLateCancel(s) \/ LoopAbort(s)
    BY <2>2 DEF LoopStart, LoopLateCancel, CancelTurn, LoopAbort, Onto, rest, seat, hist, marks
  <2>3. CASE LoopSync(s) \/ LoopSet(s) \/ LoopPeek(s) \/ LoopReconcile(s) \/ LoopNext(s) \/ LoopSignal(s) \/ LoopPrepareFails(s)
    BY <1>k, <2>3 DEF LoopSync, LoopSet, LoopPeek, LoopReconcile, LoopNext, LoopSignal, LoopPrepareFails
  <2>4. CASE LoopRefused(s) \/ LoopLateDrop(s) \/ LoopTurnEnds(s) \/ LoopNote(s) \/ LoopWake(s) \/ LoopWoke(s)
    BY <1>k, <2>4 DEF LoopRefused, LoopLateDrop, LoopTurnEnds, LoopNote, LoopWake, LoopWoke
  <2> QED BY <1>2, <2>1, <2>2, <2>3, <2>4 DEF LoopStep, IdleStep
<1>3. ASSUME NEW s \in Slots, AttachStep(s) \/ Repair(s) PROVE Onto
  <2>1. CASE AttachFails(s)
    <3>1. \A q \in Slots : status[q] = "none" => status'[q] = "none"
      BY <1>s, <2>1 DEF AttachFails
    <3> QED BY <2>1, <3>1 DEF AttachFails, Onto, hist, marks
  <2> QED BY <1>3, <2>1 DEF AttachStep, AttachStart, AttachReady, AttachPublish, Repair, Onto, seat, hist, marks
<1>4. ASSUME AdminGoesOn PROVE Onto
  <2>1. CASE RemoveAgent
    BY <2>1 DEF RemoveAgent, RestType, Onto, hist, marks
  <2>2. CASE StopTurn \/ CancelSnapshotTurn
    BY <2>2 DEF StopTurn, CancelSnapshotTurn, CancelTurn, Onto, seat, marks
  <2>3. CASE RemoveLoop \/ StopSession
    BY <2>3 DEF RemoveLoop, StopSession, Onto, hist, marks
  <2>4. CASE CancelRunWork \/ TurnsStopped \/ CancelBatch \/ RemovePersist \/ RemoveRestore \/ FinishRemove
    BY <2>4 DEF CancelRunWork, TurnsStopped, CancelBatch, RemovePersist, RemoveRestore, FinishRemove, Onto, seat, hist, marks
  <2> QED BY <1>4, <2>1, <2>2, <2>3, <2>4 DEF AdminGoesOn
<1>5. ASSUME AdminBegins PROVE Onto
  BY <1>5 DEF AdminBegins, BeginCancelRun, StopWork, BeginCancelChild, PauseSlot, BeginRemove, Begin, Onto, seat, hist, marks
<1>6. ASSUME NEW a \in Actors, ActorStep(a) PROVE Onto
  BY <1>6 DEF ActorStep, Publish, MarkRead, MarkReadFails, Onto, rest, seat, hist, marks
<1>7. CASE AdminDrop \/ \E r \in Reqs : ReqDrop(r)
  BY <1>7 DEF AdminDrop, ReqDrop, Dropped, Onto, rest, seat
<1>8. CASE UNCHANGED vars
  BY <1>8, <1>k DEF vars
<1> QED BY <1>1, <1>2, <1>3, <1>4, <1>5, <1>6, <1>7, <1>8 DEF Next

(* A request that has not committed still has no intent of its own: only its *)
(* commit creates it, reconcile_mailbox makes copies.                        *)
LEMMA NewStep == ASSUME TypeInv, IntentHome, NewInv, CoordMoves, [Next]_vars PROVE NewInv'
<1>0. CoordType /\ RestType
  BY TypeParts
<1>1. ASSUME NEW r \in Reqs, rpc'[r] \notin {"notify", "done"} PROVE rpc[r] \notin {"notify", "done"}
  <2> USE <1>0 DEF RestType
  <2>1. CASE UNCHANGED rpc
    BY <1>1, <2>1
  <2>2. ASSUME NEW q \in Reqs, ReqStep(q) PROVE rpc[r] \notin {"notify", "done"}
    BY <1>1, <2>2 DEF ReqStep, NoticeWrite, ReqSync, ReqSet, ReqAcquire, ReqWrite, ReqCommit, ReqNotify
  <2>3. ASSUME NEW s \in Slots, LoopStep(s) PROVE rpc[r] \notin {"notify", "done"}
    <3>1. CASE LoopWake(s)
      BY <1>1, <3>1 DEF LoopWake
    <3>2. CASE LoopAbort(s)
      BY <1>1, <3>2 DEF LoopAbort
    <3>3. ASSUME ~LoopWake(s), ~LoopAbort(s) PROVE UNCHANGED rpc
      BY <2>3, <3>3 DEF LoopStep, LoopSync, LoopSet, LoopPeek, LoopReconcile, LoopNext, LoopSignal, LoopPrepareFails,
         LoopPrepared, LoopStart, LoopRefused, LoopSkipped, LoopLateCancel, LoopLateDrop, LoopTurnEnds, LoopFail,
         LoopFinish, IdleStep, LoopIdle, LoopNote, LoopWoke, reqs
    <3> QED BY <2>1, <3>1, <3>2, <3>3
  <2>7. ASSUME NEW s \in Slots, AttachStep(s) \/ Repair(s) PROVE UNCHANGED rpc
    BY <2>7 DEF AttachStep, AttachStart, AttachReady, AttachFails, AttachPublish, Repair, reqs
  <2>8. ASSUME AdminDrop \/ \E q \in Reqs : ReqDrop(q) PROVE rpc[r] \notin {"notify", "done"}
    BY <1>1, <2>8 DEF AdminDrop, ReqDrop, reqs
  <2>4. ASSUME AdminGoesOn \/ AdminBegins PROVE UNCHANGED rpc
    BY <2>4 DEF AdminGoesOn, CancelRunWork, StopTurn, TurnsStopped, CancelSnapshotTurn, CancelBatch, RemoveLoop,
       RemovePersist, RemoveRestore, RemoveAgent, FinishRemove, StopSession, AdminBegins, BeginCancelRun, StopWork, BeginCancelChild,
       PauseSlot, BeginRemove, reqs
  <2>5. ASSUME NEW a \in Actors, ActorStep(a) PROVE rpc[r] \notin {"notify", "done"}
    BY <1>1, <2>5 DEF ActorStep, Publish, MarkRead, MarkReadFails, reqs
  <2>6. CASE UNCHANGED vars
    BY <2>1, <2>6 DEF vars, reqs
  <2> QED BY <2>1, <2>2, <2>3, <2>4, <2>5, <2>6, <2>7, <2>8 DEF Next
<1>i. \A r \in Reqs : <<r, 0>> \in Ids
  BY TeamAssumption DEF Ids
<1>2. CASE Onward
  BY <1>1, <1>2, <1>i DEF NewInv, Onward
<1>3. ASSUME NEW r \in Reqs, ReqCommit(r), CommitEnqueue(r) PROVE NewInv'
  <2>1. rpc'[r] \in {"notify", "done"} /\ ist' = [ist EXCEPT ![<<r, 0>>] = "queued"]
    BY <1>0, <1>3 DEF ReqCommit, CommitEnqueue, RestType
  <2>2. \A q \in Reqs \ {r} : ist'[<<q, 0>>] = ist[<<q, 0>>]
    BY <1>0, <1>i, <2>1 DEF CoordType
  <2> QED BY <1>1, <2>1, <2>2 DEF NewInv
<1>4. ASSUME NEW s \in Slots, LoopReconcile(s) PROVE NewInv'
  <2>1. ReconcileMailbox(s, lunread[s]) /\ lunread[s] \subseteq Reqs
    BY <1>0, <1>4 DEF LoopReconcile, RestType
  <2> DEFINE stale == {i \in queue \cap IdsOf(s) : HasMessage(i) /\ i[1] \notin lunread[s]}
             owned == {i[1] : i \in Live(IdsOf(s)) \ stale}
             fresh == {<<r, FreshCopy(r)>> : r \in lunread[s] \ owned}
  <2>2. /\ \A r \in lunread[s] \ owned : ~Exhausted(r)
        /\ ist' = [i \in Ids |-> IF i \in stale THEN "completed"
                                 ELSE IF i \in fresh THEN "queued" ELSE ist[i]]
    BY <2>1 DEF ReconcileMailbox
  <2>3. \A r \in Reqs : <<r, 0>> \notin fresh
    <3> HIDE DEF owned
    <3>1. \A r \in lunread[s] \ owned : FreshCopy(r) \in 1..MaxCopies
      BY <2>1, <2>2, FreshCopyUnused
    <3>2. \A k \in 1..MaxCopies : k # 0
      BY TeamAssumption
    <3> QED BY <3>1, <3>2
  <2>4. stale \subseteq queue
    OBVIOUS
  <2> HIDE DEF stale, owned, fresh
  <2>5. \A i \in stale : ist[i] = "queued"
    BY <2>4 DEF IntentHome
  <2> QED BY <1>1, <1>i, <2>2, <2>3, <2>5 DEF NewInv
<1> QED BY <1>2, <1>3, <1>4 DEF CoordMoves, Creates

(* A loop leaves its batch or keeps it; it takes a new one only from next. *)
LEMMA LoopsKept ==
    ASSUME TypeInv, [Next]_vars
    PROVE  \/ \E s \in Slots : Claims(s)
           \/ \A s \in Slots : lpc'[s] \in Executing =>
                 lpc[s] \in Executing /\ lbatch'[s].op = lbatch[s].op /\ lbatch'[s].ids = lbatch[s].ids
<1>0. CoordType /\ RestType /\ AdmType
  BY TypeParts
<1> USE <1>0 DEF NoFault, Fault
<1> DEFINE LoopKept(s) == lpc'[s] \in Executing =>
                             lpc[s] \in Executing /\ lbatch'[s].op = lbatch[s].op /\ lbatch'[s].ids = lbatch[s].ids
<1> SUFFICES ASSUME ~(\E s \in Slots : Claims(s)) PROVE \A s \in Slots : LoopKept(s)
  OBVIOUS
<1>1. ASSUME NEW r \in Reqs, ReqStep(r) PROVE UNCHANGED <<lpc, lbatch>>
  BY <1>1 DEF ReqStep, NoticeWrite, ReqSync, ReqSet, ReqAcquire, ReqWrite, ReqCommit, ReqNotify, loops
<1>2. ASSUME NEW s \in Slots, LoopStep(s) PROVE \A q \in Slots : LoopKept(q)
  <2>2. ASSUME lpc'[s] \notin Executing, \A q \in Slots \ {s} : lpc'[q] = lpc[q] /\ lbatch'[q] = lbatch[q]
        PROVE  \A q \in Slots : LoopKept(q)
    BY <2>2
  <2>3. ASSUME lpc[s] \in Executing, \A q \in Slots \ {s} : lpc'[q] = lpc[q],
               \A q \in Slots : lbatch'[q].op = lbatch[q].op /\ lbatch'[q].ids = lbatch[q].ids
        PROVE  \A q \in Slots : LoopKept(q)
    BY <2>3
  <2> HIDE DEF LoopKept
  <2>g. ASSUME NEW pc, GoTo(s, pc) PROVE lpc'[s] = pc /\ \A q \in Slots \ {s} : lpc'[q] = lpc[q]
    BY <2>g DEF GoTo, RestType
  <2>4. CASE LoopSync(s) \/ LoopSet(s) \/ LoopPeek(s) \/ LoopReconcile(s) \/ LoopSignal(s) \/ LoopPrepareFails(s)
             \/ LoopSkipped(s) \/ LoopFail(s) \/ LoopFinish(s) \/ IdleStep(s) \/ LoopAbort(s)
    <3>1. lbatch' = lbatch /\ \E pc \in LoopSteps \ Executing : GoTo(s, pc)
      BY <2>4 DEF LoopSync, LoopSet, LoopPeek, LoopReconcile, LoopSignal, LoopPrepareFails, LoopSkipped, LoopFail, LoopFinish,
         IdleStep, LoopIdle, LoopNote, LoopWake, LoopWoke, LoopAbort, LoopSteps, Executing
    <3> QED BY <2>2, <2>g, <3>1 DEF Executing
  <2>5. CASE LoopNext(s)
    <3>1. \A q \in Slots \ {s} : lbatch'[q] = lbatch[q]
      BY <2>5 DEF LoopNext, RestType
    <3>2. GoTo(s, "wait") \/ GoTo(s, "signal")
      BY <2>5 DEF LoopNext, Claims
    <3> QED BY <2>2, <2>g, <3>1, <3>2 DEF Executing
  <2>6. CASE LoopPrepared(s) \/ LoopStart(s) \/ LoopLateCancel(s) \/ LoopLateDrop(s) \/ LoopRefused(s)
    <3>1. lpc[s] \in Executing /\ lbatch' = lbatch /\ \E pc : GoTo(s, pc)
      BY <2>6 DEF LoopPrepared, LoopStart, LoopLateCancel, LoopLateDrop, LoopRefused, Executing
    <3> QED BY <2>3, <2>g, <3>1
  <2>7. CASE LoopTurnEnds(s)
    <3>1. \A q \in Slots : lbatch'[q].op = lbatch[q].op /\ lbatch'[q].ids = lbatch[q].ids
      <4>1. PICK ok \in BOOLEAN : lbatch' = [lbatch EXCEPT ![s].ok = ok]
        BY <2>7 DEF LoopTurnEnds
      <4> QED BY <4>1 DEF RestType
    <3>2. lpc[s] \in Executing /\ \E pc : GoTo(s, pc)
      BY <2>7 DEF LoopTurnEnds, Executing
    <3> QED BY <2>3, <2>g, <3>1, <3>2
  <2> QED BY <1>2, <2>4, <2>5, <2>6, <2>7 DEF LoopStep
<1>3. ASSUME NEW s \in Slots, AttachStep(s) \/ Repair(s) PROVE \A q \in Slots : LoopKept(q)
  <2>1. CASE AttachReady(s)
    BY <2>1 DEF AttachReady, RestType, Executing
  <2>2. CASE UNCHANGED loops
    BY <2>2 DEF loops
  <2>3. ASSUME ~AttachReady(s) PROVE UNCHANGED loops
    BY <1>3, <2>3 DEF AttachStep, AttachStart, AttachFails, AttachPublish, Repair
  <2> HIDE DEF LoopKept
  <2> QED BY <2>1, <2>2, <2>3
<1>4. ASSUME AdminGoesOn PROVE UNCHANGED <<lpc, lbatch>>
  BY <1>4 DEF AdminGoesOn, CancelRunWork, StopTurn, TurnsStopped, CancelSnapshotTurn, CancelBatch, RemoveLoop,
     RemovePersist, RemoveRestore, RemoveAgent, FinishRemove, StopSession, loops
<1>5. ASSUME AdminBegins PROVE UNCHANGED <<lpc, lbatch>>
  BY <1>5 DEF AdminBegins, BeginCancelRun, StopWork, BeginCancelChild, PauseSlot, BeginRemove, loops
<1>6. ASSUME NEW a \in Actors, ActorStep(a) PROVE \A s \in Slots : LoopKept(s)
  BY <1>6 DEF ActorStep, Publish, MarkRead, MarkReadFails, loops, RestType, Executing
<1>7. CASE AdminDrop \/ (\E r \in Reqs : ReqDrop(r)) \/ UNCHANGED vars
  BY <1>7 DEF AdminDrop, ReqDrop, vars, loops
<1> QED BY <1>1, <1>2, <1>3, <1>4, <1>5, <1>6, <1>7 DEF Next

(* A loop and an administrative operation keep knowing their batch: the slot *)
(* keeps it or loses it, and a new batch gets an operation id never used.    *)
LEMMA BatchStep == ASSUME TypeInv, IntentHome, BatchInv, CoordMoves, [Next]_vars PROVE BatchInv'
<1>0. CoordType /\ RestType /\ AdmType
  BY TypeParts
<1> USE <1>0
<1>n. \A s \in Slots : nextOp[s] \in Nat /\ active[s].op \in Nat
  BY TeamAssumption DEF CoordType, Batches
<1>m. NoBatch.op = 0 /\ NoBatch.ids = {}
  BY DEF NoBatch
<1> DEFINE LoopKept(s) == lpc'[s] \in Executing =>
                             /\ lpc[s] \in Executing
                             /\ lbatch'[s].op = lbatch[s].op /\ lbatch'[s].ids = lbatch[s].ids
           AdmKept == adm'.pc \in {"child", "cancel_batch"} =>
                         /\ adm.pc \in {"child", "cancel_batch"} /\ adm'.slot = adm.slot
                         /\ adm'.batch = adm.batch
<1>k. ASSUME BatchesKept, \A s \in Slots : LoopKept(s), AdmKept PROVE BatchInv'
  <2>1. ASSUME NEW s \in Slots
        PROVE  /\ active'[s].op <= nextOp'[s]
               /\ lpc'[s] \in Executing =>
                     /\ lbatch'[s].op \in 1..nextOp'[s] /\ lbatch'[s].ids # {}
                     /\ lbatch'[s].op = active'[s].op => lbatch'[s].ids = active'[s].ids
    <3>1. LoopKept(s)
      BY <1>k
    <3>2. (active'[s].op = active[s].op /\ active'[s].ids = active[s].ids) \/ active'[s] = NoBatch
      BY <1>k DEF BatchesKept
    <3>3. nextOp'[s] = nextOp[s]
      BY <1>k DEF BatchesKept
    <3> QED BY <1>n, <1>m, <3>1, <3>2, <3>3 DEF BatchInv
  <2>2. ASSUME adm'.pc \in {"child", "cancel_batch"}
        PROVE  /\ adm'.batch.op \in 1..nextOp'[adm'.slot]
               /\ adm'.batch.op = active'[adm'.slot].op => adm'.batch.ids = active'[adm'.slot].ids
    <3>1. adm.pc \in {"child", "cancel_batch"} /\ adm'.slot = adm.slot /\ adm'.batch = adm.batch /\ adm.slot \in Slots
      BY <1>k, <2>2 DEF AdmType
    <3>2. (active'[adm.slot].op = active[adm.slot].op /\ active'[adm.slot].ids = active[adm.slot].ids)
          \/ active'[adm.slot] = NoBatch
      BY <1>k, <3>1 DEF BatchesKept
    <3>3. nextOp'[adm.slot] = nextOp[adm.slot]
      BY <1>k DEF BatchesKept
    <3> QED BY <1>n, <1>m, <3>1, <3>2, <3>3 DEF BatchInv
  <2> QED BY <2>1, <2>2 DEF BatchInv
<1>c. ASSUME NEW s \in Slots, Claims(s) PROVE BatchInv'
  <2>1. /\ nextOp' = [nextOp EXCEPT ![s] = @ + 1]
        /\ active' = [active EXCEPT ![s] = [op |-> nextOp[s] + 1, ids |-> Claimed(s), turn |-> FALSE]]
        /\ Claimed(s) # {} /\ adm' = adm
    BY <1>c DEF Claims, LoopNext, Claim, rest, seat
  <2>2. /\ lpc' = [lpc EXCEPT ![s] = "prepare"]
        /\ lbatch' = [lbatch EXCEPT ![s] = [op |-> nextOp[s] + 1, ids |-> Claimed(s), ok |-> TRUE]]
    BY <1>c DEF Claims, LoopNext, GoTo
  <2>3. /\ nextOp'[s] = nextOp[s] + 1
        /\ active'[s].op = nextOp[s] + 1 /\ active'[s].ids = Claimed(s)
        /\ lbatch'[s].op = nextOp[s] + 1 /\ lbatch'[s].ids = Claimed(s)
    BY <2>1, <2>2 DEF CoordType, RestType
  <2>4. \A q \in Slots \ {s} : nextOp'[q] = nextOp[q] /\ active'[q] = active[q] /\ lbatch'[q] = lbatch[q] /\ lpc'[q] = lpc[q]
    BY <2>1, <2>2 DEF CoordType, RestType
  <2>5. ASSUME NEW q \in Slots
        PROVE  /\ active'[q].op <= nextOp'[q]
               /\ lpc'[q] \in Executing =>
                     /\ lbatch'[q].op \in 1..nextOp'[q] /\ lbatch'[q].ids # {}
                     /\ lbatch'[q].op = active'[q].op => lbatch'[q].ids = active'[q].ids
    BY <1>n, <2>1, <2>3, <2>4 DEF BatchInv
  <2>6. ASSUME adm.pc \in {"child", "cancel_batch"}
        PROVE  /\ adm.batch.op \in 1..nextOp'[adm.slot]
               /\ adm.batch.op = active'[adm.slot].op => adm.batch.ids = active'[adm.slot].ids
    <3>1. adm.slot \in Slots
      BY DEF AdmType
    <3> QED BY <1>n, <2>3, <2>4, <2>6, <3>1 DEF BatchInv
  <2> QED BY <2>1, <2>5, <2>6 DEF BatchInv
<1>a. ASSUME NEW s \in Slots, adm'.pc \in {"child", "cancel_batch"} => adm'.slot = s /\ adm'.batch = active[s] /\ active[s].op # 0,
             UNCHANGED <<active, nextOp, lpc, lbatch>>
      PROVE BatchInv'
  <2>1. active[s].op \in 1..nextOp[s]
        \/ adm'.pc \notin {"child", "cancel_batch"}
    BY <1>a, <1>n DEF BatchInv
  <2> QED BY <1>a, <2>1 DEF BatchInv
<1>b. ASSUME NEW s \in Slots, BeginCancelChild(s) \/ PauseSlot(s) PROVE BatchInv'
  <2>1. UNCHANGED <<active, nextOp, lpc, lbatch>>
    BY <1>b DEF BeginCancelChild, PauseSlot, coord, loops
  <2>2. adm'.pc \in {"child", "cancel_batch"} => adm'.slot = s /\ adm'.batch = active[s]
    BY <1>b DEF BeginCancelChild, PauseSlot, AdmType, Begin
  <2>3. adm'.pc \in {"child", "cancel_batch"} => active[s].op # 0
    <3>1. CASE PauseSlot(s)
      BY <3>1 DEF PauseSlot, AdmType
    <3>2. CASE BeginCancelChild(s)
      <4>1. active[s].ids # {}
        BY <3>2 DEF BeginCancelChild, RunsOf
      <4> QED BY <4>1 DEF IntentHome
    <3> QED BY <1>b, <3>1, <3>2
  <2> QED BY <1>a, <2>1, <2>2, <2>3
<1>d. BatchesKept \/ \E s \in Slots : Claims(s)
  BY DEF CoordMoves
<1> USE DEF NoFault, Fault
<1> SUFFICES ASSUME ~(\E s \in Slots : Claims(s) \/ BeginCancelChild(s) \/ PauseSlot(s))
             PROVE  AdmKept
  <2>1. (\E s \in Slots : Claims(s)) \/ \A s \in Slots : LoopKept(s)
    BY LoopsKept
  <2> QED BY <1>k, <1>c, <1>b, <1>d, <2>1
<1>1. ASSUME NEW r \in Reqs, ReqStep(r) PROVE AdmKept
  BY <1>1 DEF ReqStep, NoticeWrite, ReqSync, ReqSet, ReqAcquire, ReqWrite, ReqCommit, ReqNotify, rest, AdmType
<1>2. ASSUME NEW s \in Slots, LoopStep(s) PROVE UNCHANGED adm
  BY <1>2 DEF LoopStep, LoopSync, LoopSet, LoopPeek, LoopReconcile, LoopNext, LoopSignal, LoopPrepareFails, LoopPrepared,
     LoopStart, LoopRefused, LoopSkipped, LoopLateCancel, LoopLateDrop, LoopTurnEnds, LoopFail, LoopFinish,
     IdleStep, LoopIdle, LoopNote, LoopWake, LoopWoke, LoopAbort, rest, seat
<1>3. ASSUME NEW s \in Slots, AttachStep(s) \/ Repair(s) PROVE UNCHANGED adm
  BY <1>3 DEF AttachStep, AttachStart, AttachReady, AttachFails, AttachPublish, Repair
<1>4. ASSUME AdminGoesOn PROVE AdmKept
  BY <1>4 DEF AdminGoesOn, CancelRunWork, CancelRun, StopTurn, TurnsStopped, CancelSnapshotTurn, CancelBatch, RemoveLoop,
     RemovePersist, RemoveRestore, RemoveAgent, FinishRemove, StopSession, AdmType
<1>5. ASSUME AdminBegins PROVE AdmKept
  BY <1>5 DEF AdminBegins, BeginCancelRun, StopWork, BeginRemove, Begin, AdmType
<1>6. ASSUME NEW a \in Actors, ActorStep(a) PROVE AdmKept
  BY <1>6 DEF ActorStep, Publish, MarkRead, MarkReadFails, rest, seat, AdmType
<1>7. CASE AdminDrop \/ (\E r \in Reqs : ReqDrop(r)) \/ UNCHANGED vars
  BY <1>7 DEF AdminDrop, ReqDrop, vars, rest, AdmType
<1> QED BY <1>1, <1>2, <1>3, <1>4, <1>5, <1>6, <1>7 DEF Next

(* Who takes loops from the registry, and whose. *)
LEMMA AbortedStep ==
    ASSUME TypeInv, AbortInv, [Next]_vars
    PROVE  /\ adm'.pc \in Departing => adm'.slot \in removed'
           /\ \A s \in aborting' : s \in removed' \/ adm'.pc = "halted"
<1>0. RestType /\ AdmType
  BY TypeParts
<1>r. removed \subseteq removed'
  BY <1>0, OntoStep DEF Onto
<1> DEFINE DropPart == adm'.pc \in Departing => adm'.slot \in removed'
           GonePart == \A s \in aborting' : s \in removed' \/ adm'.pc = "halted"
<1> USE <1>0
<1>k. ASSUME aborting' \subseteq aborting,
             adm'.pc \in Departing => adm.pc \in Departing /\ adm'.slot = adm.slot,
             adm.pc = "halted" => adm'.pc = "halted"
      PROVE  DropPart /\ GonePart
  BY <1>k, <1>r DEF AbortInv
<1>u. UNCHANGED adm /\ aborting' \subseteq aborting => DropPart /\ GonePart
  BY <1>r DEF AbortInv
<1> HIDE DEF DropPart, GonePart
<1>1. ASSUME NEW r \in Reqs, ReqStep(r) PROVE DropPart /\ GonePart
  <2>1. CASE NoticeWrite(r)
    <3>1. UNCHANGED aborting /\ (UNCHANGED adm \/ (adm.pc = "departed" /\ adm'.pc = "idle"))
      BY <2>1 DEF NoticeWrite, seat, AdmType
    <3> QED BY <1>k, <1>u, <3>1 DEF Departing
  <2> QED BY <1>1, <1>u, <2>1 DEF ReqStep, ReqSync, ReqSet, ReqAcquire, ReqWrite, ReqCommit, ReqNotify, rest, seat
<1>2. ASSUME NEW s \in Slots, LoopStep(s) PROVE DropPart /\ GonePart
  BY <1>2, <1>u DEF LoopStep, LoopSync, LoopSet, LoopPeek, LoopReconcile, LoopNext, LoopSignal, LoopPrepareFails, LoopPrepared,
     LoopStart, LoopRefused, LoopSkipped, LoopLateCancel, LoopLateDrop, LoopTurnEnds, LoopFail, LoopFinish,
     IdleStep, LoopIdle, LoopNote, LoopWake, LoopWoke, LoopAbort, rest, seat
<1>3. ASSUME NEW s \in Slots, AttachStep(s) \/ Repair(s) PROVE DropPart /\ GonePart
  BY <1>3, <1>u DEF AttachStep, AttachStart, AttachReady, AttachFails, AttachPublish, Repair, seat
<1>4. ASSUME AdminGoesOn PROVE DropPart /\ GonePart
  <2>1. CASE RemoveLoop
    BY <1>r, <2>1 DEF RemoveLoop, Unloop, AbortInv, AdmType, Departing, DropPart, GonePart
  <2>2. CASE RemoveAgent
    BY <1>r, <2>2 DEF RemoveAgent, Unloop, AbortInv, AdmType, Departing, DropPart, GonePart, hist, marks
  <2>3. CASE StopSession
    BY <2>3 DEF StopSession, AdmType, Departing, DropPart, GonePart
  <2>4. CASE CancelRunWork \/ StopTurn \/ TurnsStopped \/ CancelSnapshotTurn \/ CancelBatch
    <3>1. UNCHANGED aborting /\ adm.pc # "halted" /\ adm'.pc \in {"idle", "stopping", "cancel_batch"}
      BY <2>4 DEF CancelRunWork, CancelRun, StopTurn, TurnsStopped, CancelSnapshotTurn, CancelBatch, seat, AdmType
    <3> QED BY <1>k, <3>1 DEF Departing
  <2>5. CASE RemovePersist \/ RemoveRestore \/ FinishRemove
    <3>1. /\ UNCHANGED aborting /\ adm.pc \in Departing /\ adm.pc # "halted"
          /\ adm'.slot = adm.slot
      BY <2>5 DEF RemovePersist, RemoveRestore, FinishRemove, seat, AdmType, Departing
    <3> QED BY <1>k, <3>1
  <2> QED BY <1>4, <2>1, <2>2, <2>3, <2>4, <2>5 DEF AdminGoesOn
<1>5. ASSUME AdminBegins PROVE DropPart /\ GonePart
  <2>1. UNCHANGED aborting /\ adm.pc = "idle" /\ adm'.pc \notin Departing
    BY <1>5 DEF AdminBegins, BeginCancelRun, StopWork, BeginCancelChild, PauseSlot, BeginRemove, Begin, seat, AdmType, Departing
  <2> QED BY <1>k, <2>1
<1>6. ASSUME NEW a \in Actors, ActorStep(a) PROVE DropPart /\ GonePart
  <2>1. CASE MarkReadFails(a) /\ a = Admin
    <3>1. UNCHANGED aborting /\ adm'.pc = "idle" /\ adm.pc # "halted"
      BY <2>1 DEF MarkReadFails, seat, AdmType, AbortInv, Halted
    <3> QED BY <1>k, <3>1 DEF Departing
  <2> QED BY <1>6, <1>u, <2>1 DEF ActorStep, Publish, MarkRead, MarkReadFails, rest, seat
<1>7. ASSUME AdminDrop PROVE DropPart /\ GonePart
  <2>1. UNCHANGED aborting /\ adm'.pc = "idle" /\ adm.pc # "halted"
    BY <1>7 DEF AdminDrop, seat, AdmType
  <2> QED BY <1>k, <2>1 DEF Departing
<1>8. ASSUME (\E r \in Reqs : ReqDrop(r)) \/ UNCHANGED vars PROVE DropPart /\ GonePart
  BY <1>8, <1>u DEF ReqDrop, vars, rest, seat
<1>9. DropPart /\ GonePart
  BY <1>1, <1>2, <1>3, <1>4, <1>5, <1>6, <1>7, <1>8 DEF Next
<1> QED BY <1>9 DEF DropPart, GonePart

(* Who marks messages read, and when an operation may be aborted. *)
LEMMA AbortStep == ASSUME TypeInv, AbortInv, [Next]_vars PROVE AbortInv'
<1>0. CoordType /\ PubType /\ RestType /\ AdmType
  BY TypeParts
<1> USE <1>0
<1>a. /\ Admin \in Actors /\ Admin \notin Slots
      /\ \A r \in Reqs : r \in Actors /\ r # Admin /\ r \notin Slots
      /\ \A s \in Slots : s \in Actors /\ Attach(s) \in Actors /\ Attach(s) # Admin /\ Attach(s) \notin Slots
  BY TeamAssumption DEF Actors, Attach
<1> DEFINE SettleOf(a) == \A b \in Actors \ {a} : settle'[b] = settle[b]
           LoopPart == \A s \in Slots : settle'[s] # {} => lpc'[s] = "peek"
           HaltPart == adm'.pc \in {"halting", "halted"} => settle'[Admin] = {}
           NotHalted == adm'.pc \in {"halting", "halted"} => adm.pc \in {"halting", "halted"}
<1>g. LoopPart /\ HaltPart => AbortInv'
  BY AbortedStep DEF AbortInv, Halted
<1>c. ASSUME NEW a \in Actors, NEW s, NEW c, SetConstraint(a, s, c) PROVE SettleOf(a)
  BY <1>c DEF SetConstraint, PubType
<1>d. ASSUME NEW a, SettleOf(a), a \notin Slots, UNCHANGED lpc PROVE LoopPart
  BY <1>a, <1>d DEF AbortInv
<1>e. UNCHANGED settle => SettleOf(Admin) /\ (UNCHANGED lpc => LoopPart) /\ (NotHalted => HaltPart)
  BY DEF AbortInv, Halted
<1>h. ASSUME NEW a, a # Admin, SettleOf(a), NotHalted PROVE HaltPart
  BY <1>a, <1>h DEF AbortInv, Halted
<1>i. UNCHANGED adm => NotHalted
  OBVIOUS
<1> USE DEF NoFault, Fault
<1>1. ASSUME NEW r \in Reqs, ReqStep(r) PROVE LoopPart /\ HaltPart
  <2>1. UNCHANGED lpc /\ NotHalted
    BY <1>1 DEF ReqStep, NoticeWrite, ReqSync, ReqSet, ReqAcquire, ReqWrite, ReqCommit, ReqNotify, loops, rest, AdmType
  <2>2. SettleOf(r)
    <3>1. CASE ReqSet(r)
      <4>1. SetConstraint(r, To(r), seen[r])
        BY <3>1 DEF ReqSet
      <4> HIDE DEF SettleOf
      <4> QED BY <1>a, <1>c, <4>1
    <3>2. CASE ReqCommit(r)
      BY <3>2 DEF ReqCommit, PubType
    <3>3. CASE UNCHANGED settle
      BY <3>3
    <3> QED BY <1>1, <3>1, <3>2, <3>3 DEF ReqStep, NoticeWrite, ReqSync, ReqAcquire, ReqWrite, ReqNotify
  <2> HIDE DEF LoopPart, HaltPart, SettleOf, NotHalted
  <2> QED BY <1>a, <1>d, <1>h, <2>1, <2>2, TeamAssumption
<1>2. ASSUME NEW s \in Slots, LoopStep(s) PROVE LoopPart /\ HaltPart
  <2>1. UNCHANGED adm
    BY <1>2 DEF LoopStep, LoopSync, LoopSet, LoopPeek, LoopReconcile, LoopNext, LoopSignal, LoopPrepareFails, LoopPrepared,
       LoopStart, LoopRefused, LoopSkipped, LoopLateCancel, LoopLateDrop, LoopTurnEnds, LoopFail, LoopFinish,
       IdleStep, LoopIdle, LoopNote, LoopWake, LoopWoke, LoopAbort, rest, seat
  <2>2. CASE LoopSet(s)
    <3>1. SettleOf(s) /\ lpc'[s] = "peek" /\ \A q \in Slots \ {s} : lpc'[q] = lpc[q]
      <4>1. SetConstraint(s, s, seen[s]) /\ lpc'[s] = "peek" /\ \A q \in Slots \ {s} : lpc'[q] = lpc[q]
        BY <2>2 DEF LoopSet, GoTo, RestType
      <4> HIDE DEF SettleOf
      <4> QED BY <1>a, <1>c, <4>1
    <3>2. LoopPart
      BY <1>a, <3>1 DEF AbortInv
    <3> HIDE DEF LoopPart, HaltPart, SettleOf
    <3> QED BY <1>a, <1>h, <1>i, <2>1, <3>1, <3>2
  <2>3. CASE LoopAbort(s)
    <3>1. /\ \A b \in Actors : settle'[b] = settle[b] \/ settle'[b] = {}
          /\ settle'[s] = {} /\ \A q \in Slots \ {s} : lpc'[q] = lpc[q]
      BY <1>a, <2>3 DEF LoopAbort, GoTo, RestType, PubType
    <3>2. LoopPart
      BY <1>a, <3>1 DEF AbortInv
    <3>3. HaltPart
      BY <1>a, <2>1, <3>1 DEF AbortInv, Halted
    <3> QED BY <3>2, <3>3
  <2>4. CASE ~LoopSet(s) /\ ~LoopAbort(s)
    <3>1. UNCHANGED settle
      BY <1>2, <2>4 DEF LoopStep, LoopSync, LoopPeek, LoopReconcile, LoopNext, LoopSignal, LoopPrepareFails, LoopPrepared,
         LoopStart, LoopRefused, LoopSkipped, LoopLateCancel, LoopLateDrop, LoopTurnEnds, LoopFail, LoopFinish,
         IdleStep, LoopIdle, LoopNote, LoopWake, LoopWoke
    <3>2. \A q \in Slots \ {s} : lpc'[q] = lpc[q]
      BY <1>2, <2>4 DEF LoopStep, LoopSync, LoopPeek, LoopReconcile, LoopNext, LoopSignal, LoopPrepareFails, LoopPrepared,
         LoopStart, LoopRefused, LoopSkipped, LoopLateCancel, LoopLateDrop, LoopTurnEnds, LoopFail, LoopFinish,
         IdleStep, LoopIdle, LoopNote, LoopWake, LoopWoke, GoTo, RestType
    <3>3. settle[s] = {} \/ LoopPeek(s)
      BY <1>2, <2>4 DEF LoopStep, LoopSync, LoopReconcile, LoopNext, LoopSignal, LoopPrepareFails, LoopPrepared,
         LoopStart, LoopRefused, LoopSkipped, LoopLateCancel, LoopLateDrop, LoopTurnEnds, LoopFail, LoopFinish,
         IdleStep, LoopIdle, LoopNote, LoopWake, LoopWoke, Clear, AbortInv
    <3>4. settle[s] = {}
      BY <3>3 DEF LoopPeek, Clear
    <3> QED BY <1>e, <1>i, <2>1, <3>1, <3>2, <3>4 DEF AbortInv
  <2> QED BY <2>2, <2>3, <2>4
<1>3. ASSUME NEW s \in Slots, AttachStep(s) \/ Repair(s) PROVE LoopPart /\ HaltPart
  <2>1. UNCHANGED adm
    BY <1>3 DEF AttachStep, AttachStart, AttachReady, AttachFails, AttachPublish, Repair
  <2>2. CASE AttachStart(s) \/ AttachPublish(s)
    <3>1. SettleOf(Attach(s)) /\ UNCHANGED lpc
      <4>1. (\E c : SetConstraint(Attach(s), s, c)) /\ UNCHANGED lpc
        BY <2>2 DEF AttachStart, AttachPublish, loops
      <4> HIDE DEF SettleOf
      <4> QED BY <1>a, <1>c, <4>1
    <3> HIDE DEF LoopPart, HaltPart, SettleOf
    <3> QED BY <1>a, <1>d, <1>h, <1>i, <2>1, <3>1
  <2>3. CASE AttachReady(s) \/ AttachFails(s) \/ Repair(s)
    <3>1. UNCHANGED settle /\ \A q \in Slots : lpc'[q] = IF q = s /\ lpc[q] = "gone" THEN lpc'[q] ELSE lpc[q]
      BY <2>3 DEF AttachReady, AttachFails, Repair, loops, RestType
    <3> QED BY <1>e, <1>i, <2>1, <3>1 DEF AbortInv
  <2> QED BY <1>3, <2>2, <2>3 DEF AttachStep
<1>4. ASSUME AdminGoesOn \/ AdminBegins PROVE LoopPart /\ HaltPart
  <2>0. adm.slot \in Slots
    BY DEF AdmType
  <2>1. UNCHANGED lpc
    BY <1>4 DEF AdminGoesOn, CancelRunWork, StopTurn, TurnsStopped, CancelSnapshotTurn, CancelBatch, RemoveLoop,
       RemovePersist, RemoveRestore, RemoveAgent, FinishRemove, StopSession, AdminBegins, BeginCancelRun, StopWork, BeginCancelChild,
       PauseSlot, BeginRemove, loops
  <2>2. CASE CancelRunWork
    <3>1. SettleOf(Admin)
      BY <2>2 DEF CancelRunWork, CancelRun, PubType
    <3>2. adm'.pc \notin {"halting", "halted"}
      BY <2>2 DEF CancelRunWork, CancelRun, AdmType
    <3>3. LoopPart
      <4> HIDE DEF LoopPart, SettleOf
      <4> QED BY <1>a, <1>d, <2>1, <3>1, TeamAssumption
    <3> QED BY <3>2, <3>3
  <2>3. CASE ~CancelRunWork
    <3>1. UNCHANGED settle
      BY <1>4, <2>3 DEF AdminGoesOn, StopTurn, TurnsStopped, CancelSnapshotTurn, CancelBatch, RemoveLoop, RemovePersist,
         RemoveRestore, RemoveAgent, FinishRemove, StopSession, AdminBegins, BeginCancelRun, StopWork, BeginCancelChild,
         PauseSlot, BeginRemove
    <3>2. adm'.pc \in {"halting", "halted"} => settle[Admin] = {}
      BY <1>4, <2>3 DEF AdminGoesOn, StopTurn, TurnsStopped, CancelSnapshotTurn, CancelBatch, RemoveLoop, RemovePersist,
         RemoveRestore, RemoveAgent, FinishRemove, StopSession, AdminBegins, BeginCancelRun, StopWork, BeginCancelChild,
         PauseSlot, BeginRemove, Begin, Clear, AdmType
    <3> QED BY <1>e, <2>1, <3>1, <3>2 DEF AbortInv
  <2> QED BY <2>2, <2>3
<1>5. ASSUME NEW a \in Actors, ActorStep(a) PROVE LoopPart /\ HaltPart
  <2>1. CASE Publish(a)
    BY <1>e, <1>i, <2>1 DEF Publish, loops, rest, seat
  <2>2. CASE MarkRead(a)
    BY <1>a, <1>i, <2>2 DEF MarkRead, loops, rest, seat, PubType, AbortInv, Halted
  <2>3. CASE MarkReadFails(a)
    <3>1. LoopPart
      BY <1>a, <2>3 DEF MarkReadFails, PubType, RestType, AbortInv
    <3>2. adm' = adm \/ adm'.pc = "idle"
      BY <2>3 DEF MarkReadFails, AdmType
    <3> QED BY <1>a, <2>3, <3>1, <3>2 DEF MarkReadFails, PubType, AbortInv, Halted
  <2> QED BY <1>5, <2>1, <2>2, <2>3 DEF ActorStep
<1>6. ASSUME UNCHANGED vars PROVE LoopPart /\ HaltPart
  <2>1. UNCHANGED <<settle, lpc, adm>>
    BY <1>6 DEF vars, loops, rest, seat
  <2> QED BY <1>i, <2>1 DEF AbortInv, Halted
<1>7. ASSUME NEW r \in Reqs, ReqDrop(r) PROVE LoopPart /\ HaltPart
  <2>1. UNCHANGED <<lpc, adm>> /\ SettleOf(r)
    BY <1>7 DEF ReqDrop, loops, rest, PubType
  <2> HIDE DEF LoopPart, HaltPart, SettleOf, NotHalted
  <2> QED BY <1>a, <1>d, <1>h, <1>i, <2>1, TeamAssumption
<1>8. ASSUME AdminDrop PROVE LoopPart /\ HaltPart
  <2>1. UNCHANGED lpc /\ adm'.pc = "idle" /\ SettleOf(Admin)
    BY <1>8 DEF AdminDrop, loops, AdmType, PubType
  <2>2. LoopPart
    <3> HIDE DEF LoopPart, SettleOf
    <3> QED BY <1>a, <1>d, <2>1, TeamAssumption
  <2> QED BY <2>1, <2>2
<1> HIDE DEF LoopPart, HaltPart
<1> QED BY <1>1, <1>2, <1>3, <1>4, <1>5, <1>6, <1>7, <1>8, <1>g DEF Next

(* A slot that holds a batch keeps its loop on it: a loop leaves its batch   *)
(* only by giving it back, an aborted one only on a removed slot.            *)
LEMMA WedgeStep ==
    ASSUME TypeInv, IntentHome, BatchInv, AbortInv, SlotNotWedged, CoordMoves, [Next]_vars
    PROVE  SlotNotWedged'
<1>0. CoordType /\ PubType /\ RestType /\ AdmType
  BY TypeParts
<1> USE <1>0
<1> DEFINE LoopKept(s) == lpc[s] \in Executing => lpc'[s] \in Executing /\ lbatch'[s].op = lbatch[s].op
           Excused(s)  == s \in removed' \/ active'[s].op = 0 \/ adm'.pc \in {"halting", "halted"}
           HaltKept    == adm.pc \in {"halting", "halted"} => adm'.pc \in {"halting", "halted"}
<1>m. NoBatch.op = 0
  BY DEF NoBatch
<1>r. removed \subseteq removed'
  BY OntoStep DEF Onto
<1>k. ASSUME BatchesKept, HaltKept, \A s \in Slots : LoopKept(s) \/ Excused(s) PROVE SlotNotWedged'
  <2> SUFFICES ASSUME NEW s \in Slots, ~Excused(s) PROVE lpc'[s] \in Executing /\ lbatch'[s].op = active'[s].op
    BY DEF SlotNotWedged, Halted
  <2>1. active'[s].op = active[s].op
    BY <1>k, <1>m DEF BatchesKept
  <2> QED BY <1>k, <1>r, <2>1 DEF SlotNotWedged, Halted
<1>c. ASSUME NEW s \in Slots, Claims(s) PROVE SlotNotWedged'
  <2>1. /\ active' = [active EXCEPT ![s] = [op |-> nextOp[s] + 1, ids |-> Claimed(s), turn |-> FALSE]]
        /\ lpc' = [lpc EXCEPT ![s] = "prepare"]
        /\ lbatch' = [lbatch EXCEPT ![s] = [op |-> nextOp[s] + 1, ids |-> Claimed(s), ok |-> TRUE]]
        /\ UNCHANGED <<adm, removed>>
    BY <1>c DEF Claims, LoopNext, Claim, rest, hist, marks, GoTo
  <2>2. lpc'[s] \in Executing /\ active'[s].op = nextOp[s] + 1 /\ lbatch'[s].op = nextOp[s] + 1
    BY <2>1 DEF CoordType, RestType, Executing
  <2>3. \A q \in Slots \ {s} : active'[q] = active[q] /\ lbatch'[q] = lbatch[q] /\ lpc'[q] = lpc[q]
    BY <2>1 DEF CoordType, RestType
  <2> QED BY <2>1, <2>2, <2>3 DEF SlotNotWedged, Halted
<1>d. BatchesKept \/ \E s \in Slots : Claims(s)
  BY DEF CoordMoves
<1> SUFFICES ASSUME ~(\E s \in Slots : Claims(s)), BatchesKept
             PROVE  HaltKept /\ \A s \in Slots : LoopKept(s) \/ Excused(s)
  BY <1>k, <1>c, <1>d
<1> USE DEF NoFault, Fault
<1>1. ASSUME NEW r \in Reqs, ReqStep(r) PROVE HaltKept /\ UNCHANGED <<lpc, lbatch>>
  BY <1>1 DEF ReqStep, NoticeWrite, ReqSync, ReqSet, ReqAcquire, ReqWrite, ReqCommit, ReqNotify, loops, rest
<1>2. ASSUME NEW s \in Slots, LoopStep(s) PROVE UNCHANGED adm /\ \A q \in Slots : LoopKept(q) \/ Excused(q)
  <2>1. UNCHANGED adm
    BY <1>2 DEF LoopStep, LoopSync, LoopSet, LoopPeek, LoopReconcile, LoopNext, LoopSignal, LoopPrepareFails, LoopPrepared,
       LoopStart, LoopRefused, LoopSkipped, LoopLateCancel, LoopLateDrop, LoopTurnEnds, LoopFail, LoopFinish,
       IdleStep, LoopIdle, LoopNote, LoopWake, LoopWoke, LoopAbort, rest, seat
  <2>2. ASSUME \A q \in Slots \ {s} : lpc'[q] = lpc[q] /\ lbatch'[q].op = lbatch[q].op, LoopKept(s) \/ Excused(s)
        PROVE  \A q \in Slots : LoopKept(q) \/ Excused(q)
    BY <2>2
  <2>3. ASSUME lpc[s] \in Executing, IsCurrent(s, lbatch[s].op) => active'[s].op = 0
        PROVE  LoopKept(s) \/ Excused(s)
    <3>1. CASE active[s].op = lbatch[s].op
      BY <2>3, <3>1 DEF IsCurrent
    <3>2. CASE active[s].op # lbatch[s].op
      <4>1. s \in removed \/ active[s].op = 0 \/ adm.pc \in {"halting", "halted"}
        BY <3>2 DEF SlotNotWedged, Halted
      <4>2. active'[s].op = active[s].op \/ active'[s].op = 0
        BY <1>m DEF BatchesKept
      <4> QED BY <1>r, <2>1, <4>1, <4>2
    <3> QED BY <3>1, <3>2
  <2> HIDE DEF LoopKept, Excused
  <2>g. ASSUME NEW pc, GoTo(s, pc) PROVE lpc'[s] = pc /\ \A q \in Slots \ {s} : lpc'[q] = lpc[q]
    BY <2>g DEF GoTo, RestType
  <2>4. CASE LoopSync(s) \/ LoopSet(s) \/ LoopPeek(s) \/ LoopReconcile(s) \/ LoopSignal(s) \/ IdleStep(s)
    <3>1. lpc[s] \notin Executing /\ lbatch' = lbatch /\ \E pc : GoTo(s, pc)
      BY <2>4 DEF LoopSync, LoopSet, LoopPeek, LoopReconcile, LoopSignal, IdleStep, LoopIdle, LoopNote, LoopWake, LoopWoke, Executing
    <3>2. LoopKept(s)
      BY <3>1 DEF LoopKept
    <3> QED BY <2>1, <2>2, <2>g, <3>1, <3>2
  <2>5. CASE LoopNext(s)
    <3>1. lpc[s] \notin Executing /\ (\A q \in Slots \ {s} : lbatch'[q] = lbatch[q]) /\ \E pc : GoTo(s, pc)
      BY <2>5 DEF LoopNext, RestType, Executing
    <3>2. LoopKept(s)
      BY <3>1 DEF LoopKept
    <3> QED BY <2>1, <2>2, <2>g, <3>1, <3>2
  <2>6. CASE LoopPrepared(s) \/ LoopStart(s) \/ LoopLateCancel(s) \/ LoopLateDrop(s) \/ LoopRefused(s)
    <3>1. lbatch' = lbatch /\ \E pc \in Executing : GoTo(s, pc)
      BY <2>6 DEF LoopPrepared, LoopStart, LoopLateCancel, LoopLateDrop, LoopRefused, Executing
    <3>2. LoopKept(s)
      BY <2>g, <3>1 DEF LoopKept
    <3> QED BY <2>1, <2>2, <2>g, <3>1, <3>2
  <2>7. CASE LoopTurnEnds(s)
    <3>1. \A q \in Slots : lbatch'[q].op = lbatch[q].op
      BY <2>7 DEF LoopTurnEnds, RestType
    <3>2. \E pc \in Executing : GoTo(s, pc)
      BY <2>7 DEF LoopTurnEnds, Executing
    <3>3. LoopKept(s)
      BY <2>g, <3>1, <3>2 DEF LoopKept
    <3> QED BY <2>1, <2>2, <2>g, <3>1, <3>2, <3>3
  <2>8. CASE LoopPrepareFails(s) \/ LoopSkipped(s) \/ LoopFail(s) \/ LoopFinish(s)
    <3>1. lpc[s] \in Executing /\ lbatch' = lbatch /\ \E pc : GoTo(s, pc)
      BY <2>8 DEF LoopPrepareFails, LoopSkipped, LoopFail, LoopFinish, Executing
    <3>2. IsCurrent(s, lbatch[s].op) => active' = [active EXCEPT ![s] = NoBatch]
      BY <2>8 DEF LoopPrepareFails, LoopSkipped, LoopFail, LoopFinish, RetryStart, TerminalizeBatch
    <3>3. IsCurrent(s, lbatch[s].op) => active'[s].op = 0
      BY <1>m, <3>2 DEF CoordType
    <3> QED BY <2>1, <2>2, <2>3, <2>g, <3>1, <3>3
  <2>9. CASE LoopAbort(s)
    <3>1. lbatch' = lbatch /\ \E pc : GoTo(s, pc)
      BY <2>9 DEF LoopAbort
    <3>2. s \in removed \/ adm.pc = "halted"
      BY <2>9 DEF LoopAbort, AbortInv
    <3>3. Excused(s)
      BY <1>r, <2>1, <3>2 DEF Excused
    <3> QED BY <2>1, <2>2, <2>g, <3>1, <3>3
  <2> QED BY <1>2, <2>4, <2>5, <2>6, <2>7, <2>8, <2>9 DEF LoopStep
<1>3. ASSUME NEW s \in Slots, AttachStep(s) \/ Repair(s) PROVE UNCHANGED adm /\ \A q \in Slots : LoopKept(q)
  <2>1. CASE AttachReady(s)
    BY <2>1 DEF AttachReady, RestType, Executing
  <2>2. CASE ~AttachReady(s)
    BY <1>3, <2>2 DEF AttachStep, AttachStart, AttachFails, AttachPublish, Repair, loops
  <2> QED BY <2>1, <2>2
<1>4. ASSUME AdminGoesOn \/ AdminBegins PROVE HaltKept /\ UNCHANGED <<lpc, lbatch>>
  <2>1. UNCHANGED <<lpc, lbatch>>
    BY <1>4 DEF AdminGoesOn, CancelRunWork, StopTurn, TurnsStopped, CancelSnapshotTurn, CancelBatch, RemoveLoop,
       RemovePersist, RemoveRestore, RemoveAgent, FinishRemove, StopSession, AdminBegins, BeginCancelRun, StopWork, BeginCancelChild,
       PauseSlot, BeginRemove, loops
  <2>2. HaltKept
    BY <1>4 DEF AdminGoesOn, CancelRunWork, StopTurn, TurnsStopped, CancelSnapshotTurn, CancelBatch, RemoveLoop,
       RemovePersist, RemoveRestore, RemoveAgent, FinishRemove, StopSession, AdminBegins, BeginCancelRun, StopWork, BeginCancelChild,
       PauseSlot, BeginRemove, Begin, AdmType
  <2> QED BY <2>1, <2>2
<1>5. ASSUME NEW a \in Actors, ActorStep(a) PROVE HaltKept /\ \A s \in Slots : LoopKept(s)
  <2>1. CASE Publish(a) \/ MarkRead(a)
    BY <2>1 DEF Publish, MarkRead, loops, rest, seat
  <2>2. CASE MarkReadFails(a)
    <3>1. /\ settle[a] # {} /\ lbatch' = lbatch
          /\ lpc' = IF a \in Slots THEN [lpc EXCEPT ![a] = "wait"] ELSE lpc
          /\ adm' = IF a = Admin THEN [adm EXCEPT !.pc = "idle", !.todo = {}] ELSE adm
      BY <2>2 DEF MarkReadFails
    <3> QED BY <3>1 DEF AbortInv, Halted, RestType, Executing
  <2> QED BY <1>5, <2>1, <2>2 DEF ActorStep
<1>6. CASE AdminDrop \/ (\E r \in Reqs : ReqDrop(r)) \/ UNCHANGED vars
  BY <1>6 DEF AdminDrop, ReqDrop, vars, loops, rest
<1> QED BY <1>1, <1>2, <1>3, <1>4, <1>5, <1>6 DEF Next

(* The inductive invariant holds at first. *)
LEMMA InvInit == ASSUME Init PROVE IInv
<1>1. TypeInv
  BY TypeInit
<1>n. NoBatch.op = 0 /\ NoBatch.ids = {}
  BY DEF NoBatch
<1>2. IntentHome
  BY <1>n DEF Init, IntentHome, IdsOf
<1>3. NewInv
  BY TeamAssumption DEF Init, NewInv, Ids
<1>4. BatchInv
  BY <1>n DEF Init, BatchInv, Executing
<1>5. AbortInv
  BY DEF Init, AbortInv, Halted, Actors, Departing
<1>6. SlotNotWedged
  BY <1>n DEF Init, SlotNotWedged
<1> QED BY <1>1, <1>2, <1>3, <1>4, <1>5, <1>6 DEF IInv

(* Every step keeps the inductive invariant. *)
LEMMA InvStep == ASSUME IInv, [Next]_vars PROVE IInv' /\ CoordMoves
<1>1. TypeInv' /\ CoordMoves
  BY TypeStep, CoordStep DEF IInv
<1>2. NewInv' /\ BatchInv'
  BY <1>1, NewStep, BatchStep DEF IInv
<1>3. IntentHome'
  BY <1>1 DEF CoordMoves
<1>4. AbortInv' /\ SlotNotWedged'
  BY <1>1, <1>3, AbortStep, WedgeStep DEF IInv
<1> QED BY <1>1, <1>2, <1>3, <1>4 DEF IInv

(* The inductive invariant is one. *)
THEOREM TeamInvariant == Spec => []IInv
<1>1. Init => IInv
  BY InvInit
<1>2. IInv /\ [Next]_vars => IInv'
  BY InvStep
<1> QED BY <1>1, <1>2, PTL DEF Spec

(* No intent is lost or held twice: it waits in a queue exactly while it is  *)
(* queued and belongs to the batch of its slot exactly while it is starting  *)
(* or running, whatever cancel_run, retry_start, set_runtime_constraint and  *)
(* stop do around it.                                                        *)
THEOREM IntentsHaveOneHome == Spec => []IntentHome
<1>1. IInv => IntentHome
  BY DEF IInv
<1> QED BY <1>1, TeamInvariant, PTL

(* A slot of a running session that holds a batch has its event loop working *)
(* on that batch, so WaitingForCompletion ends; only a removal, which takes  *)
(* the loop from the registry without telling the coordinator, breaks this,  *)
(* and only for its own slot.                                                *)
THEOREM SlotsAreNotWedged == Spec => []SlotNotWedged
<1>1. IInv => SlotNotWedged
  BY DEF IInv
<1> QED BY <1>1, TeamInvariant, PTL

(* A settled intent stays as it was settled: completed, failed or cancelled  *)
(* work is never served, requeued or settled again.                          *)
SettledOnce == \A i \in Ids : ist[i] \in Terminal => ist'[i] = ist[i]

(* A settled intent keeps its state and no intent vanishes. *)
LEMMA SettledStep ==
    ASSUME IInv, CoordMoves
    PROVE  SettledOnce /\ \A i \in Ids : ist'[i] = "none" => ist[i] = "none"
<1> DEFINE Goal == SettledOnce /\ \A i \in Ids : ist'[i] = "none" => ist[i] = "none"
<1>0. CoordType /\ RestType
  BY TypeParts DEF IInv
<1>1. CASE Onward
  BY <1>1 DEF Onward, SettledOnce
<1>2. ASSUME NEW r \in Reqs, ReqCommit(r), CommitEnqueue(r) PROVE Goal
  <2>1. ist[<<r, 0>>] = "none"
    BY <1>2 DEF IInv, NewInv, ReqCommit
  <2>2. ist' = [ist EXCEPT ![<<r, 0>>] = "queued"]
    BY <1>2 DEF CommitEnqueue
  <2> QED BY <1>0, <2>1, <2>2 DEF SettledOnce, CoordType, Terminal
<1>3. ASSUME NEW s \in Slots, LoopReconcile(s) PROVE Goal
  <2> DEFINE stale == {i \in queue \cap IdsOf(s) : HasMessage(i) /\ i[1] \notin lunread[s]}
             owned == {i[1] : i \in Live(IdsOf(s)) \ stale}
             fresh == {<<r, FreshCopy(r)>> : r \in lunread[s] \ owned}
  <2>1. /\ \A r \in lunread[s] \ owned : ~Exhausted(r)
        /\ ist' = [i \in Ids |-> IF i \in stale THEN "completed"
                                 ELSE IF i \in fresh THEN "queued" ELSE ist[i]]
    BY <1>3 DEF LoopReconcile, ReconcileMailbox
  <2>2. lunread[s] \subseteq Reqs
    BY <1>0 DEF RestType
  <2>3. \A i \in fresh : ist[i] = "none"
    BY <2>1, <2>2, FreshCopyUnused
  <2>4. \A i \in stale : ist[i] = "queued"
    BY DEF IInv, IntentHome
  <2> HIDE DEF stale, owned, fresh
  <2> QED BY <2>1, <2>3, <2>4 DEF SettledOnce, Terminal
<1> HIDE DEF Goal
<1>4. Goal
  BY <1>1, <1>2, <1>3 DEF CoordMoves, Creates, Goal
<1> QED BY <1>4 DEF Goal

(* No step settles an intent twice, late answers of a loop, of a cancel and  *)
(* of a pause on a snapshot included: the operation id makes them stale.     *)
THEOREM IntentsSettleOnce == Spec => [][SettledOnce]_vars
<1>1. IInv /\ [Next]_vars => [SettledOnce]_vars
  BY InvStep, SettledStep
<1> QED BY <1>1, TeamInvariant, PTL DEF Spec

-----------------------------------------------------------------------------
(* The mailbox *)

(* What a method of the coordinator tells its caller to mark read are the    *)
(* messages of live intents.                                                 *)
SettlesLive(a) == \/ UNCHANGED settle
                  \/ \E S \in SUBSET Ids : /\ \A i \in S : ist[i] \in LiveStates
                                           /\ settle' = [settle EXCEPT ![a] = Messages(S)]

(* The methods that do so. *)
LEMMA LiveSettled ==
    ASSUME CoordType, IntentHome, NEW a,
           \/ \E s \in Slots, c \in Constraints : SetConstraint(a, s, c)
           \/ a = Admin /\ \E n : CancelRun(n)
    PROVE  SettlesLive(a)
<1>0. \A s \in Slots : \A i \in active[s].ids : i \in Ids /\ ist[i] \in LiveStates
  BY DEF IntentHome, IdsOf, LiveStates
<1>1. ASSUME NEW s \in Slots, NEW c \in Constraints, SetConstraint(a, s, c) PROVE SettlesLive(a)
  <2> DEFINE live == Live(IdsOf(s))
             back == IF c = "stopped" THEN {} ELSE {i \in live : RunOf(i) = 0}
  <2>1. UNCHANGED settle \/ settle' = [settle EXCEPT ![a] = Messages(live \ back)]
    BY <1>1 DEF SetConstraint
  <2>2. live \ back \in SUBSET Ids /\ \A i \in live \ back : ist[i] \in LiveStates
    BY DEF Live, IdsOf
  <2> HIDE DEF live, back
  <2> QED BY <2>1, <2>2 DEF SettlesLive
<1>2. ASSUME NEW n, CancelRun(n), a = Admin PROVE SettlesLive(a)
  <2> DEFINE hit  == {s \in Slots : \E i \in active[s].ids : RunOf(i) = n}
             held == UNION {active[s].ids : s \in hit}
             gone == {i \in held : RunOf(i) = n}
                     \cup {i \in Ids : RunOf(i) = n /\ ist[i] = "queued"}
  <2>1. settle' = [settle EXCEPT ![a] = Messages(gone)]
    BY <1>2 DEF CancelRun
  <2>2. gone \in SUBSET Ids /\ \A i \in gone : ist[i] \in LiveStates
    BY <1>0 DEF LiveStates
  <2> HIDE DEF gone
  <2> QED BY <2>1, <2>2 DEF SettlesLive
<1> QED BY <1>1, <1>2

(* Nothing refers to a message before its row is written. *)
LEMMA MailStep == ASSUME IInv, MailInv, CoordMoves, [Next]_vars PROVE MailInv'
<1>0. CoordType /\ PubType /\ RestType /\ AdmType /\ IntentHome /\ NewInv
  BY TypeParts DEF IInv
<1> USE <1>0
<1>s. UNCHANGED scn
  BY DEF CoordMoves
<1>h. /\ \A r \in Reqs : (Kind(r))' = Kind(r) /\ (To(r))' = To(r) /\ (Persists(r))' = Persists(r)
      /\ \A i \in Ids : (HasMessage(i))' = HasMessage(i) /\ i[1] \in Reqs
  BY <1>s DEF Kind, To, Persists, HasMessage, Ids
<1>t. \A r \in Reqs : Kind(r) \in Kinds /\ To(r) \in Slots /\ r \in Actors
  BY DEF Kind, To, RestType, Workloads, Actors
<1> DEFINE Grow       == \A r \in Reqs : mail[r] # "none" => mail'[r] # "none"
           RowPart    == \A r \in Reqs : RowInv(r)'
           FirstPart  == \A r \in Reqs : mail'[r] = "none" => prompted'[r] = 0
           OwnPart    == \A r \in Reqs : settle'[r] # {} => rpc'[r] \in {"acquire", "done"}
           IstPart    == \A i \in Ids : HasMessage(i) /\ ist'[i] # "none" => mail'[i[1]] # "none"
           SettlePart == \A a \in Actors : \A r \in settle'[a] : mail'[r] # "none"
           UnreadPart == \A s \in Slots : \A r \in lunread'[s] : mail'[r] # "none" /\ To(r) = s
           BatchPart  == \A s \in Slots : \A i \in lbatch'[s].ids : HasMessage(i) => mail'[i[1]] # "none"
<1>g. ASSUME RowPart, FirstPart, OwnPart, IstPart, SettlePart, UnreadPart, BatchPart, TypeInv' PROVE MailInv'
  <2>1. \A s \in Slots : lunread'[s] \subseteq Reqs /\ lbatch'[s].ids \subseteq Ids
    BY <1>g DEF TypeInv, TypeOK
  <2> QED BY <1>g, <1>h, <2>1 DEF MailInv
<1>l. ASSUME NEW a, SettlesLive(a) PROVE \A b \in Actors : \A r \in settle'[b] : mail[r] # "none"
  <2>1. CASE UNCHANGED settle
    BY <2>1 DEF MailInv
  <2>2. ASSUME NEW S \in SUBSET Ids, \A i \in S : ist[i] \in LiveStates, settle' = [settle EXCEPT ![a] = Messages(S)]
        PROVE  \A b \in Actors : \A r \in settle'[b] : mail[r] # "none"
    <3>1. \A r \in Messages(S) : mail[r] # "none"
      BY <2>2 DEF Messages, MailInv, LiveStates
    <3> QED BY <2>2, <3>1 DEF MailInv, PubType
  <2> QED BY <1>l, <2>1, <2>2 DEF SettlesLive
<1>i. ASSUME Grow PROVE IstPart
  <2>1. CASE Onward
    BY <1>h, <1>i, <2>1 DEF Onward, MailInv
  <2>2. ASSUME NEW r \in Reqs, ReqCommit(r), CommitEnqueue(r) PROVE IstPart
    <3>1. ist' = [ist EXCEPT ![<<r, 0>>] = "queued"] /\ rpc[r] = "commit"
      BY <2>2 DEF CommitEnqueue, ReqCommit
    <3>2. Kind(r) # "signal" => mail[r] # "none"
      BY <1>t, <3>1 DEF MailInv, RowInv, Kinds, Persists
    <3>3. <<r, 0>> \in Ids /\ <<r, 0>>[1] = r
      BY TeamAssumption DEF Ids
    <3> QED BY <1>h, <1>i, <3>1, <3>2, <3>3 DEF MailInv, HasMessage, CoordType
  <2>3. ASSUME NEW s \in Slots, LoopReconcile(s) PROVE IstPart
    <3> DEFINE stale == {i \in queue \cap IdsOf(s) : HasMessage(i) /\ i[1] \notin lunread[s]}
               owned == {i[1] : i \in Live(IdsOf(s)) \ stale}
               fresh == {<<r, FreshCopy(r)>> : r \in lunread[s] \ owned}
    <3>1. ist' = [i \in Ids |-> IF i \in stale THEN "completed"
                                   ELSE IF i \in fresh THEN "queued" ELSE ist[i]]
      BY <2>3 DEF LoopReconcile, ReconcileMailbox
    <3>2. \A i \in fresh : i[1] \in lunread[s]
      OBVIOUS
    <3>3. \A i \in stale : ist[i] = "queued"
      BY DEF IntentHome
    <3> HIDE DEF stale, owned, fresh
    <3> QED BY <1>h, <1>i, <3>1, <3>2, <3>3 DEF MailInv
  <2> QED BY <2>1, <2>2, <2>3 DEF CoordMoves, Creates
<1>k. ASSUME Grow, \E a : SettlesLive(a) PROVE SettlePart
  <2>1. \A b \in Actors : \A r \in settle'[b] : mail[r] # "none"
    BY <1>k, <1>l
  <2>2. CASE UNCHANGED settle
    BY <1>k, <2>1, <2>2 DEF PubType
  <2>3. ASSUME NEW a, NEW S \in SUBSET Ids, settle' = [settle EXCEPT ![a] = Messages(S)] PROVE SettlePart
    <3>1. Messages(S) \subseteq Reqs
      BY <2>3, IntentSets DEF CoordType
    <3> QED BY <1>k, <2>1, <2>3, <3>1 DEF PubType
  <2> QED BY <1>k, <2>2, <2>3 DEF SettlesLive
<1>u. ASSUME Grow, UNCHANGED lunread PROVE UnreadPart
  BY <1>u DEF MailInv, RestType
<1>b. ASSUME Grow, \A s \in Slots : lbatch'[s].ids = lbatch[s].ids PROVE BatchPart
  BY <1>b, <1>h DEF MailInv, RestType
<1>r. ASSUME UNCHANGED <<rpc, mail>> PROVE RowPart
  BY <1>r, <1>h DEF RowInv, MailInv
<1>y. TypeInv'
  BY TypeStep DEF IInv
<1> HIDE DEF RowPart, FirstPart, OwnPart, IstPart, SettlePart, UnreadPart, BatchPart
<1> USE DEF NoFault, Fault
<1>o. ASSUME NEW a, \A b \in Actors \ {a} : settle'[b] = settle[b] \/ settle'[b] = {},
             \A r \in Reqs \ {a} : rpc'[r] = rpc[r], a \in Reqs => settle'[a] = {} \/ rpc'[a] \in {"acquire", "done"}
      PROVE  OwnPart
  BY <1>o, <1>t DEF OwnPart, MailInv
<1>f. ASSUME NEW a, SettlesLive(a) PROVE \A b \in Actors \ {a} : settle'[b] = settle[b]
  BY <1>f DEF SettlesLive, PubType
<1>e. ASSUME UNCHANGED settle PROVE SettlesLive(Admin)
  BY <1>e DEF SettlesLive
<1>a. /\ Admin \in Actors /\ Admin \notin Reqs
      /\ \A s \in Slots : /\ s \in Actors /\ s \notin Reqs /\ SeenConstraint(s) \in Constraints
                           /\ Attach(s) \in Actors /\ Attach(s) \notin Reqs
  BY TeamAssumption DEF Actors, Attach, SeenConstraint, Constraints, RestType
<1>v. {"starting", "ready", "failed", "removing"} \subseteq Constraints
  BY DEF Constraints
<1>z. UNCHANGED mail => Grow
  OBVIOUS
<1> HIDE DEF Grow
(* a step that leaves the loops, the requests and the mailbox alone *)
<1>q. ASSUME NEW a, a \notin Reqs, SettlesLive(a), UNCHANGED <<rpc, mail, lunread>>,
             \A s \in Slots : lbatch'[s].ids = lbatch[s].ids
      PROVE  Grow /\ RowPart /\ OwnPart /\ SettlePart /\ UnreadPart /\ BatchPart
  <2>1. Grow
    BY <1>q, <1>z
  <2>2. \A b \in Actors \ {a} : settle'[b] = settle[b]
    BY <1>f, <1>q
  <2>3. OwnPart
    BY <1>o, <1>q, <2>2
  <2> QED BY <1>b, <1>k, <1>q, <1>r, <1>u, <2>1, <2>3
<1>p. ASSUME Grow PROVE FirstPart
  <2>1. ASSUME NEW s \in Slots, LoopStart(s) PROVE FirstPart
    <3>1. UNCHANGED mail /\ \A r \in Reqs : prompted'[r] = prompted[r] \/ r \in lunread[s]
      BY <2>1 DEF LoopStart, RestType
    <3> QED BY <3>1 DEF FirstPart, MailInv
  <2>2. CASE UNCHANGED prompted
    BY <1>p, <2>2 DEF FirstPart, Grow, MailInv, RestType
  <2>3. UNCHANGED prompted \/ \E s \in Slots : LoopStart(s)
    <3>1. ASSUME NEW r \in Reqs, ReqStep(r) \/ ReqDrop(r) PROVE UNCHANGED prompted
      BY <3>1 DEF ReqStep, NoticeWrite, ReqSync, ReqSet, ReqAcquire, ReqWrite, ReqCommit, ReqNotify, ReqDrop, hist
    <3>2. ASSUME NEW s \in Slots, LoopStep(s), ~LoopStart(s) PROVE UNCHANGED prompted
      BY <3>2 DEF LoopStep, LoopSync, LoopSet, LoopPeek, LoopReconcile, LoopNext, LoopSignal, LoopPrepareFails, LoopPrepared,
         LoopRefused, LoopSkipped, LoopLateCancel, LoopLateDrop, LoopTurnEnds, LoopFail, LoopFinish,
         IdleStep, LoopIdle, LoopNote, LoopWake, LoopWoke, LoopAbort, hist
    <3>3. ASSUME NEW s \in Slots, AttachStep(s) \/ Repair(s) PROVE UNCHANGED prompted
      BY <3>3 DEF AttachStep, AttachStart, AttachReady, AttachFails, AttachPublish, Repair, hist
    <3>4. ASSUME AdminGoesOn \/ AdminBegins \/ AdminDrop PROVE UNCHANGED prompted
      BY <3>4 DEF AdminGoesOn, CancelRunWork, StopTurn, TurnsStopped, CancelSnapshotTurn, CancelBatch, RemoveLoop,
         RemovePersist, RemoveRestore, RemoveAgent, FinishRemove, StopSession, AdminBegins, BeginCancelRun, StopWork,
         BeginCancelChild, PauseSlot, BeginRemove, AdminDrop, hist
    <3>5. ASSUME NEW a \in Actors, ActorStep(a) PROVE UNCHANGED prompted
      BY <3>5 DEF ActorStep, Publish, MarkRead, MarkReadFails, hist
    <3>6. CASE UNCHANGED vars
      BY <3>6 DEF vars, hist
    <3> QED BY <3>1, <3>2, <3>3, <3>4, <3>5, <3>6 DEF Next
  <2> QED BY <2>1, <2>2, <2>3
<1> SUFFICES Grow /\ RowPart /\ OwnPart /\ SettlePart /\ UnreadPart /\ BatchPart
  BY <1>g, <1>i, <1>p, <1>y
<1> DEFINE Goal == Grow /\ RowPart /\ OwnPart /\ SettlePart /\ UnreadPart /\ BatchPart
<1>1. ASSUME NEW r \in Reqs, ReqStep(r) PROVE Goal
  <2>1. UNCHANGED <<lunread, lbatch>>
    BY <1>1 DEF ReqStep, NoticeWrite, ReqSync, ReqSet, ReqAcquire, ReqWrite, ReqCommit, ReqNotify, loops
  <2>2. \A q \in Reqs \ {r} : rpc'[q] = rpc[q] /\ mail'[q] = mail[q]
    BY <1>1 DEF ReqStep, NoticeWrite, ReqSync, ReqSet, ReqAcquire, ReqWrite, ReqCommit, ReqNotify, RestType
  <2>3. rpc'[r] # "new" /\ (mail'[r] = mail[r] \/ mail'[r] = "unread")
    BY <1>1 DEF ReqStep, NoticeWrite, ReqSync, ReqSet, ReqAcquire, ReqWrite, ReqCommit, ReqNotify, RestType
  <2>4. Grow
    BY <2>2, <2>3 DEF Grow
  <2>5. RowInv(r)'
    <3> USE DEF RowInv, MailInv, RestType, Persists
    <3>1. CASE NoticeWrite(r)
      BY <1>h, <3>1 DEF NoticeWrite
    <3>2. CASE ReqSync(r)
      BY <1>h, <3>2 DEF ReqSync
    <3>3. CASE ReqSet(r)
      BY <1>h, <3>3 DEF ReqSet
    <3>4. CASE ReqAcquire(r)
      BY <1>h, <3>4 DEF ReqAcquire
    <3>5. CASE ReqWrite(r)
      BY <1>h, <3>5 DEF ReqWrite
    <3>6. CASE ReqCommit(r)
      BY <1>h, <3>6 DEF ReqCommit
    <3>7. CASE ReqNotify(r)
      BY <1>h, <3>7 DEF ReqNotify
    <3> QED BY <1>1, <3>1, <3>2, <3>3, <3>4, <3>5, <3>6, <3>7 DEF ReqStep
  <2>6. RowPart
    BY <1>h, <2>2, <2>5 DEF RowPart, RowInv, MailInv
  <2>7. OwnPart /\ SettlePart
    <3>1. CASE ReqSet(r)
      <4>1. seen[r] \in Constraints /\ SetConstraint(r, To(r), seen[r]) /\ rpc'[r] = "acquire"
        BY <3>1 DEF ReqSet, RestType
      <4>2. SettlesLive(r)
        BY <1>t, <4>1, LiveSettled
      <4> QED BY <1>f, <1>k, <1>o, <2>2, <2>4, <4>1, <4>2
    <3>2. CASE ReqCommit(r) /\ settle' # settle
      <4>1. rpc[r] = "commit" /\ rpc'[r] = "done" /\ settle' = [settle EXCEPT ![r] = IF HasMessage(<<r, 0>>) THEN {r} ELSE {}]
        BY <3>2 DEF ReqCommit, RestType
      <4>2. HasMessage(<<r, 0>>) => mail[r] # "none"
        BY <1>t, <4>1 DEF MailInv, RowInv, Kinds, Persists, HasMessage
      <4>3. OwnPart
        BY <1>o, <2>2, <4>1 DEF PubType
      <4>4. \A a \in Actors : \A q \in settle'[a] : q \in Reqs /\ mail[q] # "none"
        BY <4>1, <4>2 DEF PubType, MailInv
      <4> QED BY <2>4, <4>3, <4>4 DEF SettlePart, Grow
    <3>3. CASE UNCHANGED settle
      <4>1. rpc[r] \in {"acquire", "done"} /\ rpc'[r] \notin {"acquire", "done"} => settle[r] = {}
        BY <1>1, <3>3 DEF ReqStep, NoticeWrite, ReqSync, ReqSet, ReqAcquire, ReqWrite, ReqCommit, ReqNotify, RestType, Clear
      <4>2. settle[r] = {} \/ rpc'[r] \in {"acquire", "done"}
        BY <4>1 DEF MailInv
      <4>3. OwnPart
        BY <1>o, <2>2, <3>3, <4>2
      <4> QED BY <1>e, <1>k, <2>4, <3>3, <4>3
    <3> QED BY <1>1, <3>1, <3>2, <3>3 DEF ReqStep, NoticeWrite, ReqSync, ReqAcquire, ReqWrite, ReqNotify
  <2> QED BY <1>u, <1>b, <2>1, <2>4, <2>6, <2>7
<1>2. ASSUME NEW s \in Slots, LoopStep(s) PROVE Goal
  <2>r. LoopWake(s) \/ LoopAbort(s) \/ UNCHANGED rpc
    BY <1>2 DEF LoopStep, LoopSync, LoopSet, LoopPeek, LoopReconcile, LoopNext, LoopSignal, LoopPrepareFails, LoopPrepared,
       LoopStart, LoopRefused, LoopSkipped, LoopLateCancel, LoopLateDrop, LoopTurnEnds, LoopFail, LoopFinish,
       IdleStep, LoopIdle, LoopNote, LoopWoke, reqs
  <2>1. CASE LoopSet(s)
    <3>1. UNCHANGED <<rpc, mail, lunread, lbatch>> /\ seen[s] \in Constraints /\ SetConstraint(s, s, seen[s])
      BY <2>1 DEF LoopSet, reqs, RestType
    <3>2. SettlesLive(s)
      BY <3>1, LiveSettled
    <3> QED BY <1>a, <1>q, <3>1, <3>2
  <2>2. CASE LoopSync(s) \/ LoopReconcile(s) \/ LoopSignal(s) \/ LoopPrepareFails(s) \/ LoopPrepared(s)
             \/ LoopStart(s) \/ LoopSkipped(s) \/ LoopLateCancel(s) \/ LoopLateDrop(s) \/ LoopFail(s)
             \/ LoopFinish(s) \/ LoopIdle(s) \/ LoopWoke(s)
    <3>1. UNCHANGED <<rpc, mail, lunread, lbatch, settle>>
      BY <2>2 DEF LoopSync, LoopReconcile, LoopSignal, LoopPrepareFails, LoopPrepared, LoopStart, LoopSkipped,
         LoopLateCancel, LoopLateDrop, LoopFail, LoopFinish, LoopIdle, LoopWoke, reqs
    <3> QED BY <1>a, <1>e, <1>q, <3>1
  <2>3. CASE LoopPeek(s)
    <3>1. UNCHANGED <<rpc, mail, lbatch, settle>> /\ (UNCHANGED lunread \/ lunread' = [lunread EXCEPT ![s] = Unread(s)])
      BY <2>3 DEF LoopPeek, reqs
    <3>2. Grow /\ RowPart /\ SettlePart /\ OwnPart /\ BatchPart
      BY <1>a, <1>b, <1>e, <1>k, <1>o, <1>r, <1>z, <3>1
    <3>3. UnreadPart
      BY <3>1 DEF UnreadPart, MailInv, Unread, RestType
    <3> QED BY <3>2, <3>3
  <2>4. CASE LoopNext(s)
    <3>1. UNCHANGED <<rpc, mail, lunread, settle>>
      BY <2>4 DEF LoopNext, reqs
    <3>2. Grow /\ RowPart /\ SettlePart /\ OwnPart /\ UnreadPart
      BY <1>a, <1>e, <1>k, <1>o, <1>r, <1>u, <1>z, <3>1
    <3>3. \A i \in Class(s) : i \in Ids /\ ist[i] = "queued"
      BY DEF Class, IntentHome
    <3>4. Claimed(s) \subseteq Class(s)
      BY DEF Claimed
    <3>5. \A q \in Slots : lbatch'[q].ids \subseteq lbatch[q].ids \cup Class(s)
      BY <2>4, <3>4 DEF LoopNext, RestType
    <3>6. BatchPart
      BY <3>1, <3>3, <3>5 DEF BatchPart, MailInv
    <3> QED BY <3>2, <3>6
  <2>5. CASE LoopTurnEnds(s) \/ LoopRefused(s)
    <3>1. /\ UNCHANGED <<rpc, settle, lunread>> /\ \A q \in Slots : lbatch'[q].ids = lbatch[q].ids
          /\ UNCHANGED mail \/ mail' = [r \in Reqs |-> IF r \in Messages(lbatch[s].ids) THEN "read" ELSE mail[r]]
      <4>1. \A q \in Slots : lbatch'[q].ids = lbatch[q].ids
        <5>1. UNCHANGED lbatch \/ \E ok : lbatch' = [lbatch EXCEPT ![s].ok = ok]
          BY <2>5 DEF LoopTurnEnds, LoopRefused
        <5> QED BY <5>1 DEF RestType
      <4> QED BY <2>5, <4>1 DEF LoopTurnEnds, LoopRefused, reqs
    <3>2. \A r \in Messages(lbatch[s].ids) : mail[r] # "none"
      BY DEF MailInv, Messages
    <3>3. \A r \in Reqs : mail'[r] = "none" <=> mail[r] = "none"
      BY <3>1, <3>2
    <3>4. Grow
      BY <3>3 DEF Grow
    <3>5. RowPart
      BY <1>h, <3>1, <3>3 DEF RowPart, RowInv, MailInv
    <3> QED BY <1>a, <1>b, <1>e, <1>k, <1>o, <1>u, <3>1, <3>4, <3>5
  <2>6. CASE LoopAbort(s)
    <3>1. /\ UNCHANGED <<mail, lunread, lbatch>>
          /\ \A a \in Actors : settle'[a] = settle[a] \/ settle'[a] = {}
          /\ \A r \in Reqs : rpc'[r] = rpc[r] \/ (rpc'[r] = "done" /\ rpc[r] # "new")
      BY <2>6 DEF LoopAbort, Signalling, PubType
    <3>2. Grow
      BY <1>z, <3>1
    <3>3. RowPart
      BY <1>h, <3>1 DEF RowPart, RowInv, MailInv
    <3>4. OwnPart /\ SettlePart
      BY <1>t, <3>1 DEF OwnPart, SettlePart, MailInv
    <3> QED BY <1>b, <1>u, <3>1, <3>2, <3>3, <3>4
  <2>7. CASE LoopWake(s)
    <3>1. /\ UNCHANGED <<mail, lunread, lbatch, settle>>
          /\ \A r \in Reqs : rpc'[r] = rpc[r] \/ (Kind(r) = "signal" /\ rpc[r] = "new" /\ rpc'[r] = "sync")
      BY <2>7 DEF LoopWake, RestType
    <3>2. Grow
      BY <1>z, <3>1
    <3>3. RowPart
      BY <1>h, <3>1 DEF RowPart, RowInv, MailInv, Persists
    <3>4. OwnPart
      BY <1>t, <3>1 DEF OwnPart, MailInv
    <3> QED BY <1>b, <1>e, <1>k, <1>u, <3>1, <3>2, <3>3, <3>4
  <2>8. CASE LoopNote(s)
    <3>1. /\ UNCHANGED <<rpc, lunread, lbatch, settle>>
          /\ \A r \in Reqs : mail'[r] = mail[r] \/ (Kind(r) = "idle" /\ mail'[r] = "unread")
      BY <2>8 DEF LoopNote, RestType, reqs
    <3>2. Grow
      BY <3>1 DEF Grow
    <3>3. RowPart
      BY <1>h, <3>1 DEF RowPart, RowInv, MailInv, Persists
    <3>4. OwnPart
      BY <3>1 DEF OwnPart, MailInv
    <3> QED BY <1>b, <1>e, <1>k, <1>u, <3>1, <3>2, <3>3, <3>4
  <2> HIDE DEF Goal
  <2> QED BY <1>2, <2>1, <2>2, <2>3, <2>4, <2>5, <2>6, <2>7, <2>8 DEF LoopStep, IdleStep
<1>3. ASSUME NEW s \in Slots, AttachStep(s) \/ Repair(s) PROVE Goal
  <2>1. UNCHANGED <<rpc, mail, lunread, lbatch>>
    BY <1>3 DEF AttachStep, AttachStart, AttachReady, AttachFails, AttachPublish, Repair, reqs, loops
  <2>2. SettlesLive(Attach(s))
    <3>1. CASE UNCHANGED settle
      BY <3>1 DEF SettlesLive
    <3>2. CASE \E c \in Constraints : SetConstraint(Attach(s), s, c)
      BY <3>2, LiveSettled
    <3> QED BY <1>3, <1>v, <3>1, <3>2 DEF AttachStep, AttachStart, AttachReady, AttachFails, AttachPublish, Repair
  <2> QED BY <1>a, <1>q, <2>1, <2>2
<1>4. ASSUME AdminGoesOn \/ AdminBegins PROVE Goal
  <2>1. UNCHANGED <<rpc, mail, lunread, lbatch>>
    BY <1>4 DEF AdminGoesOn, CancelRunWork, StopTurn, TurnsStopped, CancelSnapshotTurn, CancelBatch, RemoveLoop,
       RemovePersist, RemoveRestore, RemoveAgent, FinishRemove, StopSession, AdminBegins, BeginCancelRun, StopWork, BeginCancelChild,
       PauseSlot, BeginRemove, loops, reqs
  <2>2. SettlesLive(Admin)
    <3>1. CASE UNCHANGED settle
      BY <3>1 DEF SettlesLive
    <3>2. CASE CancelRunWork
      BY <3>2, LiveSettled DEF CancelRunWork
    <3> QED BY <1>4, <3>1, <3>2 DEF AdminGoesOn, StopTurn, TurnsStopped, CancelSnapshotTurn, CancelBatch,
       RemoveLoop, RemovePersist, RemoveRestore, RemoveAgent, FinishRemove, StopSession, AdminBegins, BeginCancelRun, StopWork, BeginCancelChild, PauseSlot, BeginRemove
  <2> QED BY <1>a, <1>q, <2>1, <2>2
<1>5. ASSUME NEW a \in Actors, ActorStep(a) PROVE Goal
  <2>1. CASE Publish(a)
    <3>1. UNCHANGED <<rpc, mail, lunread, lbatch, settle>>
      BY <2>1 DEF Publish, reqs, loops
    <3> QED BY <1>a, <1>e, <1>q, <3>1
  <2>2. CASE MarkRead(a) \/ MarkReadFails(a)
    <3>1. /\ UNCHANGED <<lunread, lbatch>> /\ settle' = [settle EXCEPT ![a] = {}] /\ settle[a] # {}
          /\ \A r \in Reqs : rpc'[r] = rpc[r] \/ (r = a /\ rpc'[r] = "done")
          /\ UNCHANGED mail \/ mail' = [r \in Reqs |-> IF r \in settle[a] THEN "read" ELSE mail[r]]
      BY <2>2 DEF MarkRead, MarkReadFails, reqs, loops, RestType
    <3>2. \A r \in Reqs : mail'[r] = "none" <=> mail[r] = "none"
      BY <3>1 DEF MailInv
    <3>3. Grow
      BY <3>2 DEF Grow
    <3>4. RowPart
      <4>1. \A r \in Reqs : rpc'[r] = rpc[r] \/ (rpc[r] \in {"acquire", "done"} /\ rpc'[r] = "done")
        BY <3>1 DEF MailInv
      <4> QED BY <1>h, <3>2, <4>1 DEF RowPart, RowInv, MailInv
    <3>5. OwnPart
      BY <3>1 DEF OwnPart, MailInv, PubType
    <3>6. SettlePart
      BY <3>1, <3>2 DEF SettlePart, MailInv, PubType
    <3> QED BY <1>b, <1>u, <3>1, <3>3, <3>4, <3>5, <3>6
  <2> HIDE DEF Goal
  <2> QED BY <1>5, <2>1, <2>2 DEF ActorStep
<1>6. CASE UNCHANGED vars
  <2>1. UNCHANGED <<rpc, mail, lunread, lbatch, settle>>
    BY <1>6 DEF vars, reqs, loops
  <2> QED BY <1>a, <1>e, <1>q, <2>1
<1>7. ASSUME NEW r \in Reqs, ReqDrop(r) PROVE Goal
  <2>1. /\ UNCHANGED <<lunread, lbatch>> /\ settle' = [settle EXCEPT ![r] = {}]
        /\ \A q \in Reqs \ {r} : rpc'[q] = rpc[q] /\ mail'[q] = mail[q]
        /\ rpc'[r] = "done" /\ mail'[r] \in {mail[r], "unread"} /\ Kind(r) \in {"user", "notice", "departure", "recovery"}
    BY <1>7 DEF ReqDrop, loops, RestType
  <2>2. Grow
    BY <2>1 DEF Grow
  <2>3. RowPart
    BY <1>h, <2>1 DEF RowPart, RowInv, MailInv, Persists
  <2>4. OwnPart
    BY <1>t, <2>1 DEF OwnPart, MailInv, PubType
  <2>5. SettlePart
    BY <2>1 DEF SettlePart, MailInv, PubType
  <2> QED BY <1>b, <1>u, <2>1, <2>2, <2>3, <2>4, <2>5
<1>8. CASE AdminDrop
  <2>1. UNCHANGED <<rpc, mail, lunread, lbatch>> /\ settle' = [settle EXCEPT ![Admin] = Messages({})]
    BY <1>8 DEF AdminDrop, loops, reqs, Messages
  <2>2. SettlesLive(Admin)
    BY <2>1 DEF SettlesLive
  <2> QED BY <1>a, <1>q, <2>1, <2>2
<1> QED BY <1>1, <1>2, <1>3, <1>4, <1>5, <1>6, <1>7, <1>8 DEF Next

(* A member that was removed or stopped stays so, unless a failed removal    *)
(* restores it, and the operations that abort loops act on such members.     *)
LEMMA DeadStep ==
    ASSUME TypeInv, AbortInv, DeadInv, [Next]_vars
    PROVE  /\ DeadInv'
           /\ "db" \notin faults' => \A s \in Slots : Dead(s) => Dead(s)'
           /\ \A s \in Slots : Dead(s) /\ lpc[s] = "gone" => lpc'[s] = "gone"
<1>0. RestType /\ AdmType
  BY TypeParts
<1> USE <1>0 DEF NoFault, Fault
<1>o. faults \subseteq faults'
  BY OntoStep DEF Onto
<1> DEFINE Removal == {"removing"} \cup Departing
           Keeps == \A s \in Slots : Dead(s) => Dead(s)'
           Stays == \A s \in Slots : Dead(s) /\ lpc[s] = "gone" => lpc'[s] = "gone"
           Goal  == DeadInv' /\ ("db" \in faults' \/ Keeps) /\ Stays
<1>k. ASSUME Keeps, aborting' \subseteq aborting, adm' = adm \/ adm'.pc \notin Removal PROVE DeadInv'
  BY <1>k, <1>o DEF DeadInv, AdmType, RestType, Departing
<1>m. UNCHANGED member => Keeps
  BY DEF Dead
<1>n. UNCHANGED lpc => Stays
  OBVIOUS
<1>1. ASSUME NEW r \in Reqs, ReqStep(r) \/ ReqDrop(r) PROVE Goal
  <2>1. UNCHANGED <<member, aborting, lpc>>
    BY <1>1 DEF ReqStep, NoticeWrite, ReqSync, ReqSet, ReqAcquire, ReqWrite, ReqCommit, ReqNotify, ReqDrop, loops, rest, seat
  <2>2. adm' = adm \/ adm'.pc = "idle"
    BY <1>1 DEF ReqStep, NoticeWrite, ReqSync, ReqSet, ReqAcquire, ReqWrite, ReqCommit, ReqNotify, ReqDrop, rest, AdmType
  <2> QED BY <1>k, <1>m, <1>n, <2>1, <2>2 DEF Departing
<1>2. ASSUME NEW s \in Slots, LoopStep(s) PROVE Goal
  <2>1. UNCHANGED <<member, adm>> /\ aborting' \subseteq aborting
    BY <1>2 DEF LoopStep, LoopSync, LoopSet, LoopPeek, LoopReconcile, LoopNext, LoopSignal, LoopPrepareFails, LoopPrepared,
       LoopStart, LoopRefused, LoopSkipped, LoopLateCancel, LoopLateDrop, LoopTurnEnds, LoopFail, LoopFinish,
       IdleStep, LoopIdle, LoopNote, LoopWake, LoopWoke, LoopAbort, rest, seat
  <2>2. lpc[s] # "gone" /\ \A q \in Slots \ {s} : lpc'[q] = lpc[q]
    BY <1>2 DEF LoopStep, LoopSync, LoopSet, LoopPeek, LoopReconcile, LoopNext, LoopSignal, LoopPrepareFails, LoopPrepared,
       LoopStart, LoopRefused, LoopSkipped, LoopLateCancel, LoopLateDrop, LoopTurnEnds, LoopFail, LoopFinish,
       IdleStep, LoopIdle, LoopNote, LoopWake, LoopWoke, LoopAbort, AwaitPoints, GoTo, RestType
  <2> QED BY <1>k, <1>m, <2>1, <2>2
<1>3. ASSUME NEW s \in Slots, AttachStep(s) \/ Repair(s) PROVE Goal
  <2>1. UNCHANGED <<adm, aborting>>
    BY <1>3 DEF AttachStep, AttachStart, AttachReady, AttachFails, AttachPublish, Repair, seat
  <2>2. \/ UNCHANGED <<member, lpc>>
        \/ ~Dead(s) /\ \A q \in Slots \ {s} : member'[q] = member[q] /\ lpc'[q] = lpc[q]
    BY <1>3 DEF AttachStep, AttachStart, AttachReady, AttachFails, AttachPublish, Repair, RestType, Dead, loops
  <2>3. Keeps /\ Stays
    BY <2>2 DEF Dead
  <2> QED BY <1>k, <2>1, <2>3
<1>4. ASSUME AdminGoesOn \/ AdminBegins PROVE Goal
  <2>1. UNCHANGED lpc
    BY <1>4 DEF AdminGoesOn, CancelRunWork, StopTurn, TurnsStopped, CancelSnapshotTurn, CancelBatch, RemoveLoop,
       RemovePersist, RemoveRestore, RemoveAgent, FinishRemove, StopSession, AdminBegins, BeginCancelRun, StopWork, BeginCancelChild,
       PauseSlot, BeginRemove, loops
  <2>s. Stays
    BY <1>n, <2>1
  <2>k. ASSUME UNCHANGED <<member, aborting>>, adm'.pc \notin Removal PROVE Goal
    BY <1>k, <1>m, <2>k, <2>s
  <2>2. ASSUME FinishRemove PROVE Goal
    <3>1. adm'.pc = "departed" /\ UNCHANGED aborting /\ Keeps
      BY <2>2 DEF FinishRemove, Dead, RestType, AdmType, seat
    <3> QED BY <1>k, <2>s, <3>1 DEF Departing
  <2>3. ASSUME StopSession PROVE Goal
    <3>1. adm'.pc = "halted" /\ aborting' \subseteq Slots /\ \A s \in Slots : Dead(s)'
      BY <2>3 DEF StopSession, Dead, AdmType
    <3> QED BY <2>s, <3>1 DEF DeadInv, Departing
  <2>4. ASSUME NEW s \in Slots, BeginRemove(s) PROVE Goal
    <3>1. adm'.pc = "removing" /\ adm'.slot = s /\ UNCHANGED aborting /\ member' = [member EXCEPT ![s] = "removing"]
      BY <2>4 DEF BeginRemove, AdmType, seat
    <3> QED BY <1>o, <2>s, <3>1 DEF DeadInv, Dead, RestType, Departing
  <2>5. ASSUME RemoveLoop \/ RemoveAgent PROVE Goal
    <3>1. /\ adm.pc \in Removal /\ adm'.pc \in {"killing", "leaving"} /\ adm'.slot = adm.slot
          /\ UNCHANGED member /\ aborting' \subseteq aborting \cup {adm.slot}
      BY <2>5 DEF RemoveLoop, RemoveAgent, Unloop, AdmType, Departing
    <3> QED BY <1>m, <1>o, <2>s, <3>1 DEF DeadInv, Dead, Departing
  <2>6. ASSUME RemovePersist PROVE Goal
    <3>1. /\ adm.pc \in Removal /\ adm'.slot = adm.slot /\ UNCHANGED <<member, aborting>>
          /\ adm'.pc = "restoring" => "db" \in faults'
      BY <2>6 DEF RemovePersist, AdmType, seat, Departing
    <3> QED BY <1>m, <1>o, <2>s, <3>1 DEF DeadInv, Dead
  <2>7. ASSUME RemoveRestore PROVE Goal
    <3>1. adm.pc = "restoring" /\ adm'.pc = "idle"
      BY <2>7 DEF RemoveRestore, AdmType
    <3>2. "db" \in faults'
      BY <1>o, <3>1 DEF DeadInv
    <3> QED BY <2>s, <3>1, <3>2 DEF DeadInv, Departing
  <2>8. ASSUME CancelRunWork \/ StopTurn \/ TurnsStopped PROVE Goal
    BY <2>8, <2>k DEF CancelRunWork, CancelRun, StopTurn, TurnsStopped, AdmType, Departing, seat
  <2>9. ASSUME CancelSnapshotTurn \/ CancelBatch \/ BeginCancelRun \/ StopWork PROVE Goal
    <3>1. adm'.pc \in {"cancel_batch", "idle", "cancelling", "halting"}
      BY <2>9 DEF CancelSnapshotTurn, CancelBatch, BeginCancelRun, StopWork, AdmType
    <3>2. UNCHANGED <<member, aborting>>
      BY <2>9 DEF CancelSnapshotTurn, CancelBatch, BeginCancelRun, StopWork, seat
    <3> QED BY <2>k, <3>1, <3>2 DEF Departing
  <2>10. ASSUME NEW s \in Slots, BeginCancelChild(s) \/ PauseSlot(s) PROVE Goal
    <3>1. adm'.pc \in {"child", "idle"} /\ UNCHANGED <<member, aborting>>
      BY <2>10 DEF BeginCancelChild, PauseSlot, AdmType, seat
    <3> QED BY <2>k, <3>1 DEF Departing
  <2> HIDE DEF Goal
  <2> QED BY <1>4, <2>2, <2>3, <2>4, <2>5, <2>6, <2>7, <2>8, <2>9, <2>10 DEF AdminGoesOn, AdminBegins
<1>5. ASSUME AdminDrop \/ \E a \in Actors : ActorStep(a) PROVE Goal
  <2>1. UNCHANGED <<member, aborting>>
    BY <1>5 DEF AdminDrop, ActorStep, Publish, MarkRead, MarkReadFails, rest, seat
  <2>2. adm' = adm \/ adm'.pc = "idle"
    BY <1>5 DEF AdminDrop, ActorStep, Publish, MarkRead, MarkReadFails, rest, AdmType
  <2>3. Stays
    BY <1>5 DEF AdminDrop, ActorStep, Publish, MarkRead, MarkReadFails, loops, RestType, AbortInv
  <2> QED BY <1>k, <1>m, <2>1, <2>2, <2>3 DEF Departing
<1>6. ASSUME UNCHANGED vars PROVE Goal
  BY <1>6, <1>k, <1>m, <1>n DEF vars, loops, rest, seat
<1>7. Goal
  <2> HIDE DEF Goal
  <2> QED BY <1>1, <1>2, <1>3, <1>4, <1>5, <1>6 DEF Next
<1> QED BY <1>7

(* A message that was in a prompt is read before its slot peeks again. *)
LEMMA PromptStep ==
    ASSUME IInv, MailInv, DeadInv, PromptInv, CoordMoves, [Next]_vars
    PROVE  PromptInv'
<1>0. CoordType /\ PubType /\ RestType /\ AdmType
  BY TypeParts DEF IInv
<1> USE <1>0 DEF NoFault, Fault
<1>s. UNCHANGED scn
  BY DEF CoordMoves
<1>h. /\ \A r \in Reqs : (To(r))' = To(r) /\ To(r) \in Slots
      /\ \A i \in Ids : (HasMessage(i))' = HasMessage(i) /\ i[1] \in Reqs
  BY <1>s DEF To, HasMessage, Kind, Ids, RestType, Workloads
<1> SUFFICES ASSUME "db" \notin faults' PROVE PromptInv'
  BY DEF PromptInv
<1>d. \A s \in Slots : Dead(s) => Dead(s)' /\ (lpc[s] = "gone" => lpc'[s] = "gone")
  BY DeadStep DEF IInv
<1>f. faults \subseteq faults'
  BY OntoStep DEF Onto
<1>n. "db" \notin faults
  BY <1>f
<1>p. \A r \in Reqs : prompted[r] = 0 \/ prompted[r] = 1
  BY <1>n DEF PromptInv, RestType
<1> DEFINE Turn == {"late", "drop", "running"}
           Round == {"reconcile", "next", "prepare", "start"}
           ReadKept == \A r \in Reqs : mail[r] = "read" => mail'[r] = "read"
           TurnKept(s) == lpc[s] \in Turn =>
               \/ lpc'[s] \in Turn /\ lbatch'[s].ids = lbatch[s].ids
               \/ lpc'[s] = "gone" /\ Dead(s)
               \/ \A r \in Messages(lbatch[s].ids) : mail'[r] = "read"
           RoundKept(s) == lpc'[s] \in Round => lpc[s] \in Round /\ lunread'[s] = lunread[s]
<1>q. ASSUME NEW r \in Reqs, ReadKept, TurnKept(To(r)), prompted[r] = 1
      PROVE  \/ mail'[r] = "read"
             \/ lpc'[To(r)] \in Turn /\ r \in (Messages(lbatch[To(r)].ids))'
             \/ lpc'[To(r)] = "gone" /\ Dead(To(r))'
  <2>1. \/ mail[r] = "read"
        \/ lpc[To(r)] \in Turn /\ r \in Messages(lbatch[To(r)].ids)
        \/ lpc[To(r)] = "gone" /\ Dead(To(r))
    BY <1>n, <1>q DEF PromptInv
  <2>2. CASE mail[r] = "read"
    BY <1>q, <2>2
  <2>3. CASE lpc[To(r)] = "gone" /\ Dead(To(r))
    BY <1>d, <1>h, <2>3, <1>s DEF To
  <2>4. CASE lpc[To(r)] \in Turn /\ r \in Messages(lbatch[To(r)].ids)
    <3>1. CASE lpc'[To(r)] \in Turn /\ lbatch'[To(r)].ids = lbatch[To(r)].ids
      <4>1. r \in {i[1] : i \in {j \in lbatch'[To(r)].ids : HasMessage(j)}}
        BY <2>4, <3>1 DEF Messages
      <4> QED BY <1>s, <3>1, <4>1 DEF Messages, HasMessage, Kind, To
    <3>2. CASE lpc'[To(r)] = "gone" /\ Dead(To(r))
      BY <1>d, <1>h, <3>2, <1>s DEF To
    <3> QED BY <1>q, <2>4, <3>1, <3>2
  <2> QED BY <2>1, <2>2, <2>3, <2>4
<1>k. ASSUME ReadKept, UNCHANGED prompted, \A s \in Slots : TurnKept(s) /\ RoundKept(s) PROVE PromptInv'
  <2> SUFFICES ASSUME NEW r \in Reqs
               PROVE  /\ prompted[r] <= 1
                      /\ prompted[r] = 1 =>
                            \/ mail'[r] = "read"
                            \/ lpc'[To(r)] \in Turn /\ r \in (Messages(lbatch[To(r)].ids))'
                            \/ lpc'[To(r)] = "gone" /\ Dead(To(r))'
                      /\ \A s \in Slots : lpc'[s] \in Round /\ r \in lunread'[s] => prompted[r] = 0
    BY <1>h, <1>k, <1>s DEF PromptInv, To
  <2>1. prompted[r] <= 1
    BY <1>p
  <2>2. \A s \in Slots : lpc'[s] \in Round /\ r \in lunread'[s] => prompted[r] = 0
    BY <1>k, <1>n DEF PromptInv
  <2> QED BY <1>h, <1>k, <1>q, <2>1, <2>2
<1>m. ReadKept
  <2>1. CASE UNCHANGED mail
    BY <2>1
  <2>2. ASSUME NEW r \in Reqs, ReqStep(r) PROVE ReadKept
    <3>1. UNCHANGED mail \/ (mail' = [mail EXCEPT ![r] = "unread"] /\ mail[r] = "none")
      BY <2>2 DEF ReqStep, NoticeWrite, ReqSync, ReqSet, ReqAcquire, ReqWrite, ReqCommit, ReqNotify, MailInv, RowInv, Persists
    <3> QED BY <3>1 DEF RestType
  <2>d. ASSUME NEW r \in Reqs, ReqDrop(r) PROVE ReadKept
    <3>1. UNCHANGED mail \/ (mail' = [mail EXCEPT ![r] = "unread"] /\ mail[r] = "none")
      BY <2>d DEF ReqDrop, MailInv, RowInv
    <3> QED BY <3>1 DEF RestType
  <2>3. ASSUME NEW S, mail' = [r \in Reqs |-> IF r \in S THEN "read" ELSE mail[r]] PROVE ReadKept
    BY <2>3
  <2>n. ASSUME NEW s \in Slots, LoopNote(s) PROVE ReadKept
    <3>1. UNCHANGED mail \/ \E r \in Reqs : mail' = [mail EXCEPT ![r] = "unread"] /\ mail[r] = "none"
      BY <2>n DEF LoopNote
    <3> QED BY <3>1 DEF RestType
  <2>4. ASSUME NEW s \in Slots, LoopStep(s), ~LoopNote(s) PROVE ReadKept
    <3>1. UNCHANGED mail \/ mail' = [r \in Reqs |-> IF r \in Messages(lbatch[s].ids) THEN "read" ELSE mail[r]]
      BY <2>4 DEF LoopStep, LoopSync, LoopSet, LoopPeek, LoopReconcile, LoopNext, LoopSignal, LoopPrepareFails, LoopPrepared,
       LoopStart, LoopRefused, LoopSkipped, LoopLateCancel, LoopLateDrop, LoopTurnEnds, LoopFail, LoopFinish,
       IdleStep, LoopIdle, LoopWake, LoopWoke, LoopAbort
    <3> QED BY <2>1, <2>3, <3>1
  <2>5. ASSUME NEW s \in Slots, AttachStep(s) \/ Repair(s) PROVE UNCHANGED mail
    BY <2>5 DEF AttachStep, AttachStart, AttachReady, AttachFails, AttachPublish, Repair
  <2>6. ASSUME AdminGoesOn \/ AdminBegins \/ AdminDrop PROVE UNCHANGED mail
    BY <2>6 DEF AdminDrop, AdminGoesOn, CancelRunWork, StopTurn, TurnsStopped, CancelSnapshotTurn, CancelBatch, RemoveLoop,
       RemovePersist, RemoveRestore, RemoveAgent, FinishRemove, StopSession, AdminBegins, BeginCancelRun, StopWork, BeginCancelChild,
       PauseSlot, BeginRemove
  <2>7. ASSUME NEW a \in Actors, ActorStep(a) PROVE ReadKept
    <3>1. UNCHANGED mail \/ mail' = [r \in Reqs |-> IF r \in settle[a] THEN "read" ELSE mail[r]]
      BY <2>7 DEF ActorStep, Publish, MarkRead, MarkReadFails
    <3> QED BY <2>1, <2>3, <3>1
  <2> HIDE DEF ReadKept
  <2> QED BY <2>1, <2>2, <2>d, <2>n, <2>4, <2>5, <2>6, <2>7 DEF Next, vars
<1>i. UNCHANGED <<lpc, lbatch, lunread>> => \A s \in Slots : TurnKept(s) /\ RoundKept(s)
  OBVIOUS
<1> HIDE DEF ReadKept, Turn, Round, TurnKept, RoundKept
<1>1. ASSUME NEW r \in Reqs, ReqStep(r) \/ ReqDrop(r) PROVE UNCHANGED <<lpc, lbatch, lunread, prompted>>
  BY <1>1 DEF ReqDrop, ReqStep, NoticeWrite, ReqSync, ReqSet, ReqAcquire, ReqWrite, ReqCommit, ReqNotify, loops, hist, marks
<1>2. ASSUME NEW s \in Slots, LoopStep(s) PROVE PromptInv'
  <2>g. ASSUME NEW pc, GoTo(s, pc) PROVE lpc'[s] = pc /\ \A q \in Slots \ {s} : lpc'[q] = lpc[q]
    BY <2>g DEF GoTo, RestType
  <2>o. ASSUME NEW q \in Slots, lpc'[q] = lpc[q], lbatch'[q] = lbatch[q], lunread'[q] = lunread[q]
        PROVE TurnKept(q) /\ RoundKept(q)
    BY <2>o DEF TurnKept, RoundKept
  <2>k. ASSUME UNCHANGED prompted, TurnKept(s), RoundKept(s), NEW pc, GoTo(s, pc), UNCHANGED lunread,
               \A q \in Slots \ {s} : lbatch'[q] = lbatch[q]
        PROVE  PromptInv'
    BY <1>k, <1>m, <2>g, <2>k, <2>o
  <2>1. CASE LoopSync(s) \/ LoopSet(s) \/ LoopSignal(s) \/ LoopPrepareFails(s) \/ LoopSkipped(s) \/ LoopFail(s)
             \/ LoopFinish(s) \/ IdleStep(s)
    <3>1. /\ UNCHANGED <<prompted, lunread, lbatch>> /\ lpc[s] \notin Turn
          /\ \E pc : GoTo(s, pc) /\ pc \notin Round
      BY <2>1 DEF LoopSync, LoopSet, LoopSignal, LoopPrepareFails, LoopSkipped, LoopFail, LoopFinish,
         IdleStep, LoopIdle, LoopNote, LoopWake, LoopWoke, Turn, Round, hist, marks
    <3> QED BY <2>k, <2>g, <3>1 DEF TurnKept, RoundKept
  <2>2. CASE LoopReconcile(s) \/ LoopNext(s) \/ LoopPrepared(s)
    <3>1. /\ UNCHANGED <<prompted, lunread>> /\ lpc[s] \in Round \ Turn /\ \E pc : GoTo(s, pc)
          /\ \A q \in Slots \ {s} : lbatch'[q] = lbatch[q]
      BY <2>2 DEF LoopReconcile, LoopNext, LoopPrepared, Turn, Round, hist, marks, RestType
    <3> QED BY <2>k, <2>g, <3>1 DEF TurnKept, RoundKept
  <2>3. CASE LoopLateCancel(s) \/ LoopLateDrop(s)
    <3>1. /\ UNCHANGED <<prompted, lunread, lbatch>> /\ \E pc : GoTo(s, pc) /\ pc \in Turn \ Round
      BY <2>3 DEF LoopLateCancel, LoopLateDrop, Turn, Round, hist, marks
    <3> QED BY <2>k, <2>g, <3>1 DEF TurnKept, RoundKept
  <2>4. CASE LoopTurnEnds(s) \/ LoopRefused(s)
    <3>1. /\ UNCHANGED <<prompted, lunread>> /\ \E pc : GoTo(s, pc) /\ pc \notin Round
      BY <2>4 DEF LoopTurnEnds, LoopRefused, Round, hist, marks
    <3>2. mail' = [r \in Reqs |-> IF r \in Messages(lbatch[s].ids) THEN "read" ELSE mail[r]]
      BY <2>4 DEF LoopTurnEnds, LoopRefused
    <3>3. Messages(lbatch[s].ids) \subseteq Reqs
      BY IntentSets DEF CoordType, RestType
    <3>4. \A q \in Slots \ {s} : lbatch'[q] = lbatch[q]
      BY <2>4 DEF LoopTurnEnds, LoopRefused, RestType
    <3>5. TurnKept(s)
      BY <3>2, <3>3 DEF TurnKept
    <3>6. RoundKept(s)
      BY <2>g, <3>1 DEF RoundKept
    <3> QED BY <2>k, <3>1, <3>4, <3>5, <3>6
  <2>5. CASE LoopAbort(s)
    <3>1. /\ UNCHANGED <<prompted, lunread, lbatch>> /\ GoTo(s, "gone") /\ "gone" \notin Round
      BY <2>5 DEF LoopAbort, Round, hist, marks
    <3>2. Dead(s)
      BY <1>n, <2>5 DEF LoopAbort, DeadInv
    <3> QED BY <2>k, <2>g, <3>1, <3>2 DEF TurnKept, RoundKept
  <2>6. CASE LoopPeek(s)
    <3>1. /\ lpc[s] = "peek" /\ GoTo(s, "reconcile") /\ lunread' = [lunread EXCEPT ![s] = Unread(s)]
          /\ UNCHANGED <<mail, lbatch, prompted>>
      BY <2>6 DEF LoopPeek, hist, marks
    <3>2. \A r \in Unread(s) : prompted[r] = 0
      <4>1. ASSUME NEW r \in Unread(s) PROVE prompted[r] = 0
        <5>1. r \in Reqs /\ To(r) = s /\ mail[r] = "unread"
          BY DEF Unread
        <5> QED BY <1>n, <1>p, <3>1, <5>1 DEF PromptInv
      <4> QED BY <4>1
    <3>3. ASSUME NEW q \in Slots PROVE TurnKept(q)
      <4>1. lpc'[q] = lpc[q] \/ lpc[q] = "peek"
        BY <2>g, <3>1
      <4> QED BY <3>1, <4>1 DEF TurnKept, Turn
    <3> SUFFICES ASSUME NEW r \in Reqs
                 PROVE  /\ prompted[r] <= 1
                        /\ prompted[r] = 1 =>
                              \/ mail'[r] = "read"
                              \/ lpc'[To(r)] \in Turn /\ r \in (Messages(lbatch[To(r)].ids))'
                              \/ lpc'[To(r)] = "gone" /\ Dead(To(r))'
                        /\ \A q \in Slots : lpc'[q] \in Round /\ r \in lunread'[q] => prompted[r] = 0
      BY <1>h, <1>s, <3>1 DEF PromptInv, To, Turn, Round
    <3>4. \A q \in Slots : lpc'[q] \in Round /\ r \in lunread'[q] => prompted[r] = 0
      <4>1. \A q \in Slots \ {s} : lpc'[q] = lpc[q] /\ lunread'[q] = lunread[q]
        BY <2>g, <3>1 DEF RestType
      <4>2. lunread'[s] = Unread(s)
        BY <3>1 DEF RestType
      <4> QED BY <1>n, <3>2, <4>1, <4>2 DEF PromptInv, Round
    <3> QED BY <1>h, <1>m, <1>p, <1>q, <3>3, <3>4
  <2>7. CASE LoopStart(s)
    <3>1. /\ lpc[s] = "start" /\ UNCHANGED <<mail, lunread, lbatch>>
          /\ GoTo(s, "late") \/ GoTo(s, "running")
          /\ \A r \in Reqs : prompted'[r] = IF r \in Messages(lbatch[s].ids) \cap lunread[s] /\ prompted[r] < 2
                                       THEN prompted[r] + 1 ELSE prompted[r]
      BY <2>7 DEF LoopStart
    <3>2. ASSUME NEW q \in Slots PROVE TurnKept(q)
      <4>1. lpc'[q] = lpc[q] \/ lpc[q] = "start"
        BY <2>g, <3>1
      <4> QED BY <3>1, <4>1 DEF TurnKept, Turn
    <3>3. \A q \in Slots : lpc'[q] \in Round => q # s /\ lpc[q] \in Round
      BY <2>g, <3>1 DEF Round
    <3> SUFFICES ASSUME NEW r \in Reqs
                 PROVE  /\ prompted'[r] <= 1
                        /\ prompted'[r] = 1 =>
                              \/ mail'[r] = "read"
                              \/ lpc'[To(r)] \in Turn /\ r \in (Messages(lbatch[To(r)].ids))'
                              \/ lpc'[To(r)] = "gone" /\ Dead(To(r))'
                        /\ \A q \in Slots : lpc'[q] \in Round /\ r \in lunread'[q] => prompted'[r] = 0
      BY <1>h, <1>s, <3>1 DEF PromptInv, To, Turn, Round
    <3>4. CASE r \in Messages(lbatch[s].ids) \cap lunread[s]
      <4>1. prompted[r] = 0 /\ To(r) = s
        BY <1>n, <3>1, <3>4 DEF PromptInv, MailInv
      <4>2. prompted'[r] = 1
        BY <3>1, <3>4, <4>1
      <4>3. lpc'[s] \in Turn
        BY <2>g, <3>1 DEF Turn
      <4>4. r \in (Messages(lbatch[To(r)].ids))'
        <5>1. r \in {i[1] : i \in {j \in lbatch'[s].ids : HasMessage(j)}}
          BY <3>1, <3>4 DEF Messages
        <5> QED BY <1>s, <4>1, <5>1 DEF Messages, HasMessage, Kind, To
      <4>5. \A q \in Slots : lpc'[q] \in Round => r \notin lunread'[q]
        BY <3>1, <3>3, <4>1 DEF MailInv
      <4> QED BY <4>1, <4>2, <4>3, <4>4, <4>5
    <3>5. CASE r \notin Messages(lbatch[s].ids) \cap lunread[s]
      <4>1. prompted'[r] = prompted[r]
        BY <3>1, <3>5
      <4>2. \A q \in Slots : lpc'[q] \in Round /\ r \in lunread'[q] => prompted[r] = 0
        BY <1>n, <3>1, <3>3 DEF PromptInv, Round
      <4> QED BY <1>h, <1>m, <1>p, <1>q, <3>2, <4>1, <4>2
    <3> QED BY <3>4, <3>5
  <2> QED BY <1>2, <2>1, <2>2, <2>3, <2>4, <2>5, <2>6, <2>7 DEF LoopStep
<1>3. ASSUME NEW s \in Slots, AttachStep(s) \/ Repair(s) PROVE UNCHANGED prompted /\ \A q \in Slots : TurnKept(q) /\ RoundKept(q)
  <2>1. UNCHANGED <<prompted, lunread, lbatch>>
    BY <1>3 DEF AttachStep, AttachStart, AttachReady, AttachFails, AttachPublish, Repair, loops, hist, marks
  <2>2. \A q \in Slots : lpc'[q] = lpc[q] \/ (lpc[q] = "gone" /\ lpc'[q] = "wait")
    BY <1>3 DEF AttachStep, AttachStart, AttachReady, AttachFails, AttachPublish, Repair, loops, RestType
  <2> QED BY <2>1, <2>2 DEF TurnKept, RoundKept, Turn, Round
<1>4. ASSUME AdminGoesOn \/ AdminBegins \/ AdminDrop PROVE UNCHANGED <<lpc, lbatch, lunread, prompted>>
  BY <1>4 DEF AdminDrop, AdminGoesOn, CancelRunWork, StopTurn, TurnsStopped, CancelSnapshotTurn, CancelBatch, RemoveLoop,
       RemovePersist, RemoveRestore, RemoveAgent, FinishRemove, StopSession, AdminBegins, BeginCancelRun, StopWork, BeginCancelChild,
       PauseSlot, BeginRemove, loops, hist, marks
<1>5. ASSUME NEW a \in Actors, ActorStep(a) PROVE UNCHANGED <<lpc, lbatch, lunread, prompted>>
  BY <1>5 DEF ActorStep, Publish, MarkRead, MarkReadFails, loops, hist, marks
<1>6. CASE UNCHANGED vars
  BY <1>6, <1>i, <1>k, <1>m DEF vars, loops, hist, marks
<1> QED BY <1>1, <1>2, <1>3, <1>4, <1>5, <1>6, <1>i, <1>k, <1>m DEF Next

(* The invariants of the mailbox are inductive on top of the first one. *)
DeliveryInv == IInv /\ MailInv /\ DeadInv /\ PromptInv

(* They hold in every state of the session. *)
THEOREM DeliveryInvariant == Spec => []DeliveryInv
<1>1. Init => DeliveryInv
  <2> SUFFICES ASSUME Init PROVE DeliveryInv
    OBVIOUS
  <2>1. IInv
    BY InvInit
  <2>2. CoordType /\ PubType /\ RestType /\ AdmType
    BY <2>1, TypeParts DEF IInv
  <2>3. MailInv
    <3>1. \A r \in Reqs : Kind(r) \in Kinds /\ r \in Actors
      BY <2>2 DEF Kind, RestType, Workloads, Actors
    <3>2. \A r \in Reqs : RowInv(r)
      BY <3>1 DEF Init, RowInv, Persists, Kinds
    <3> QED BY <3>1, <3>2 DEF Init, MailInv
  <2>4. DeadInv /\ PromptInv
    BY DEF Init, DeadInv, Departing, PromptInv
  <2> QED BY <2>1, <2>3, <2>4 DEF DeliveryInv
<1>2. DeliveryInv /\ [Next]_vars => DeliveryInv'
  <2> SUFFICES ASSUME DeliveryInv, [Next]_vars PROVE DeliveryInv'
    OBVIOUS
  <2>1. IInv' /\ CoordMoves
    BY InvStep DEF DeliveryInv
  <2>2. MailInv' /\ PromptInv'
    BY <2>1, MailStep, PromptStep DEF DeliveryInv
  <2>3. DeadInv'
    BY DeadStep DEF DeliveryInv, IInv
  <2> QED BY <2>1, <2>2, <2>3 DEF DeliveryInv
<1> QED BY <1>1, <1>2, PTL DEF Spec

(* No message is part of two prompts, whatever cancel_run, retry_start, a    *)
(* repaired runtime and reconcile_mailbox requeue, unless the database       *)
(* failed to mark it read.                                                   *)
THEOREM MessagesDeliveredOnce == Spec => []DeliveredOnce
<1>1. DeliveryInv => DeliveredOnce
  BY DEF DeliveryInv, PromptInv, DeliveredOnce
<1> QED BY <1>1, DeliveryInvariant, PTL

-----------------------------------------------------------------------------
(* Cancelled turns *)

(* What the administrative operations know of themselves. *)
LEMMA CallStep == ASSUME TypeInv, AbortInv, CallInv, [Next]_vars PROVE CallInv' /\ admDone \subseteq admDone'
<1>0. CoordType /\ PubType /\ RestType /\ AdmType
  BY TypeParts
<1> USE <1>0 DEF NoFault, Fault
<1> DEFINE AdmPart == /\ adm'.pc # "stopping" => adm'.todo = {}
                      /\ adm'.pc \in {"child", "cancel_batch"} => admDone' \cap {"cancel_child", "pause"} # {}
                      /\ adm'.pc = "cancelling" => "cancel_run" \in admDone' /\ adm'.run # 0
                      /\ adm'.pc \in {"halting", "halted"} => "stop" \in admDone'
           RunPart == run'.id = 0 => run'.status = "none"
           ConPart == \A s \in Slots : constraint'[s] = "stopped" => "stop" \in admDone'
           MemPart == \A s \in Slots : member'[s] = "stopped" => "stop" \in admDone'
           SeePart == \A a \in Reqs \cup Slots : seen'[a] = "stopped" => "stop" \in admDone'
           Goal == AdmPart /\ RunPart /\ ConPart /\ MemPart /\ SeePart /\ admDone \subseteq admDone'
<1>g. Goal => CallInv'
  BY DEF CallInv, Halted
<1>k. /\ UNCHANGED <<adm, admDone>> => AdmPart /\ admDone \subseteq admDone'
      /\ UNCHANGED run => RunPart
      /\ UNCHANGED constraint /\ admDone \subseteq admDone' => ConPart
      /\ UNCHANGED member /\ admDone \subseteq admDone' => MemPart
      /\ UNCHANGED seen /\ admDone \subseteq admDone' => SeePart
  BY DEF CallInv, Halted
<1>c. ASSUME NEW a, NEW s \in Slots, NEW c, c = "stopped" => "stop" \in admDone, SetConstraint(a, s, c), admDone \subseteq admDone'
      PROVE  ConPart
  <2>1. constraint' = [constraint EXCEPT ![s] = c]
    BY <1>c DEF SetConstraint
  <2> QED BY <1>c, <2>1 DEF CallInv, CoordType
<1>v. \A s \in Slots : SeenConstraint(s) = "stopped" => "stop" \in admDone
  BY DEF SeenConstraint, CallInv, RestType
<1>t. \A r \in Reqs : To(r) \in Slots
  BY DEF To, RestType, Workloads
<1>1. ASSUME NEW r \in Reqs, ReqStep(r) PROVE Goal
  <2>1. UNCHANGED <<admDone, member>>
    BY <1>1 DEF ReqStep, NoticeWrite, ReqSync, ReqSet, ReqAcquire, ReqWrite, ReqCommit, ReqNotify, rest, seat
  <2>a. AdmPart
    <3>1. adm' = adm \/ (adm.pc = "departed" /\ adm'.pc = "idle" /\ adm'.todo = adm.todo)
      BY <1>1 DEF ReqStep, NoticeWrite, ReqSync, ReqSet, ReqAcquire, ReqWrite, ReqCommit, ReqNotify, rest, seat, AdmType
    <3> QED BY <1>k, <2>1, <3>1 DEF CallInv
  <2>2. RunPart
    <3>1. CASE ReqAcquire(r)
      <4>1. UNCHANGED run \/ \E n \in Bindings(r) : run' = BoundRun(r, n)
        BY <3>1 DEF ReqAcquire
      <4>2. \A n \in Bindings(r) : BoundRun(r, n) = run \/ BoundRun(r, n) = [id |-> run.id + 1, status |-> "accepted"]
        BY DEF Bindings, BoundRun
      <4>3. run.id \in Nat
        BY TeamAssumption DEF RestType
      <4> QED BY <1>k, <4>1, <4>2, <4>3
    <3> QED BY <1>1, <1>k, <3>1 DEF ReqStep, NoticeWrite, ReqSync, ReqSet, ReqWrite, ReqCommit, ReqNotify
  <2>3. SeePart
    <3>1. CASE ReqSync(r)
      <4>1. UNCHANGED seen \/ seen' = [seen EXCEPT ![r] = SeenConstraint(To(r))]
        BY <3>1 DEF ReqSync
      <4> QED BY <1>t, <1>v, <2>1, <4>1 DEF CallInv, RestType
    <3> QED BY <1>1, <1>k, <2>1, <3>1 DEF ReqStep, NoticeWrite, ReqSet, ReqAcquire, ReqWrite, ReqCommit, ReqNotify
  <2>4. ConPart
    <3>1. CASE ReqSet(r)
      BY <1>c, <1>t, <2>1, <3>1 DEF ReqSet, CallInv
    <3>2. CASE UNCHANGED constraint
      BY <1>k, <2>1, <3>2
    <3> QED BY <1>1, <3>1, <3>2 DEF ReqStep, NoticeWrite, ReqSync, ReqAcquire, ReqWrite, ReqCommit, ReqNotify, coord,
          AbortEnqueue, CommitEnqueue
  <2> QED BY <1>k, <2>1, <2>a, <2>2, <2>3, <2>4
<1>2. ASSUME NEW s \in Slots, LoopStep(s) PROVE Goal
  <2>1. UNCHANGED <<adm, admDone, member, run>>
    BY <1>2 DEF LoopStep, LoopSync, LoopSet, LoopPeek, LoopReconcile, LoopNext, LoopSignal, LoopPrepareFails, LoopPrepared,
       LoopStart, LoopRefused, LoopSkipped, LoopLateCancel, LoopLateDrop, LoopTurnEnds, LoopFail, LoopFinish,
       IdleStep, LoopIdle, LoopNote, LoopWake, LoopWoke, LoopAbort, rest, seat
  <2>2. SeePart
    <3>1. UNCHANGED seen \/ seen' = [seen EXCEPT ![s] = SeenConstraint(s)]
      BY <1>2 DEF LoopStep, LoopSync, LoopSet, LoopPeek, LoopReconcile, LoopNext, LoopSignal, LoopPrepareFails, LoopPrepared,
         LoopStart, LoopRefused, LoopSkipped, LoopLateCancel, LoopLateDrop, LoopTurnEnds, LoopFail, LoopFinish,
         IdleStep, LoopIdle, LoopNote, LoopWake, LoopWoke, LoopAbort, reqs
    <3> QED BY <1>v, <2>1, <3>1 DEF CallInv, RestType
  <2>3. ConPart
    <3>1. CASE LoopSet(s)
      <4>1. SetConstraint(s, s, seen[s]) /\ (seen[s] = "stopped" => "stop" \in admDone)
        BY <3>1 DEF LoopSet, CallInv
      <4> QED BY <1>c, <2>1, <4>1
    <3>2. CASE ~LoopSet(s)
      <4>1. UNCHANGED constraint
        BY <1>2, <3>2 DEF LoopStep, LoopSync, LoopPeek, LoopReconcile, LoopNext, LoopSignal, LoopPrepareFails, LoopPrepared,
           LoopStart, LoopRefused, LoopSkipped, LoopLateCancel, LoopLateDrop, LoopTurnEnds, LoopFail, LoopFinish,
           IdleStep, LoopIdle, LoopNote, LoopWake, LoopWoke, LoopAbort, coord,
           ReconcileMailbox, Claim, CompleteSignals, RetryStart, MarkStarted, TerminalizeBatch
      <4> QED BY <1>k, <2>1, <4>1
    <3> QED BY <3>1, <3>2
  <2> QED BY <1>k, <2>1, <2>2, <2>3
<1>3. ASSUME NEW s \in Slots, AttachStep(s) \/ Repair(s) PROVE Goal
  <2>1. UNCHANGED <<adm, admDone, run, seen>>
    BY <1>3 DEF AttachStep, AttachStart, AttachReady, AttachFails, AttachPublish, Repair, reqs
  <2>2. MemPart
    BY <1>3, <2>1 DEF AttachStep, AttachStart, AttachReady, AttachFails, AttachPublish, Repair, CallInv, RestType
  <2>3. ConPart
    <3>1. CASE AttachStart(s) \/ AttachPublish(s)
      BY <1>c, <2>1, <3>1 DEF AttachStart, AttachPublish
    <3> QED BY <1>3, <1>k, <2>1, <3>1 DEF AttachStep, AttachReady, AttachFails, Repair, coord
  <2> QED BY <1>k, <2>1, <2>2, <2>3
<1>4. ASSUME AdminGoesOn PROVE Goal
  <2>0. adm.slot \in Slots
    BY DEF AdmType
  <2>1. UNCHANGED <<admDone, run, seen>>
    BY <1>4 DEF AdminGoesOn, CancelRunWork, StopTurn, TurnsStopped, CancelSnapshotTurn, CancelBatch, RemoveLoop,
       RemovePersist, RemoveRestore, RemoveAgent, FinishRemove, StopSession, reqs
  <2>2. AdmPart
    BY <1>4, <2>1 DEF AdminGoesOn, CancelRunWork, CancelRun, StopTurn, TurnsStopped, CancelSnapshotTurn, CancelBatch, RemoveLoop,
       RemovePersist, RemoveRestore, RemoveAgent, FinishRemove, StopSession, AdmType, CallInv, Halted
  <2>3. MemPart
    BY <1>4, <2>0, <2>1 DEF AdminGoesOn, CancelRunWork, StopTurn, TurnsStopped, CancelSnapshotTurn, CancelBatch, RemoveLoop,
       RemovePersist, RemoveRestore, RemoveAgent, FinishRemove, StopSession, RestType, CallInv, Halted
  <2>4. ConPart
    BY <1>4, <1>k, <2>1 DEF AdminGoesOn, CancelRunWork, CancelRun, StopTurn, TurnsStopped, CancelSnapshotTurn,
       CancelBatch, TerminalizeBatch, RemoveLoop, RemovePersist, RemoveRestore, RemoveAgent, FinishRemove, StopSession, coord
  <2> QED BY <1>k, <2>1, <2>2, <2>3, <2>4
<1>5. ASSUME AdminBegins PROVE Goal
  <2>1. UNCHANGED seen /\ admDone \subseteq admDone'
    BY <1>5 DEF AdminBegins, BeginCancelRun, StopWork, BeginCancelChild, PauseSlot, BeginRemove, Begin, reqs
  <2>2. RunPart
    BY <1>5 DEF AdminBegins, BeginCancelRun, StopWork, BeginCancelChild, PauseSlot, BeginRemove, RestType, CallInv, Active
  <2>3. AdmPart
    <3>0. adm.pc = "idle" /\ adm.todo = {}
      BY <1>5 DEF AdminBegins, BeginCancelRun, StopWork, BeginCancelChild, PauseSlot, BeginRemove, Begin, CallInv
    <3>1. CASE BeginCancelRun
      <4>1. /\ adm'.pc = "cancelling" /\ adm'.run = run.id /\ adm'.todo = adm.todo
            /\ "cancel_run" \in admDone' /\ run.status \in Active
        BY <3>1 DEF BeginCancelRun, Begin, AdmType
      <4>2. run.id # 0
        BY <4>1 DEF CallInv, Active
      <4> QED BY <3>0, <4>1, <4>2
    <3>2. CASE StopWork
      BY <3>0, <3>2 DEF StopWork, Begin, AdmType
    <3>3. ASSUME NEW s \in Slots, BeginCancelChild(s) PROVE AdmPart
      <4>1. adm'.pc = "child" /\ adm'.todo = adm.todo /\ "cancel_child" \in admDone'
        BY <3>3 DEF BeginCancelChild, Begin, AdmType
      <4> QED BY <3>0, <4>1
    <3>4. ASSUME NEW s \in Slots, PauseSlot(s) PROVE AdmPart
      <4>1. adm'.pc \in {"idle", "child"} /\ adm'.todo = adm.todo /\ "pause" \in admDone'
        BY <3>4 DEF PauseSlot, Begin, AdmType
      <4> QED BY <3>0, <4>1
    <3>5. ASSUME NEW s \in Slots, BeginRemove(s) PROVE AdmPart
      <4>1. adm'.pc = "removing" /\ adm'.todo = adm.todo
        BY <3>5 DEF BeginRemove, AdmType
      <4> QED BY <3>0, <4>1
    <3> QED BY <1>5, <3>1, <3>2, <3>3, <3>4, <3>5 DEF AdminBegins
  <2>4. ConPart
    BY <1>5, <2>1 DEF AdminBegins, BeginCancelRun, StopWork, BeginCancelChild, PauseSlot, BeginRemove, Begin, CallInv, coord
  <2>5. MemPart
    <3>1. UNCHANGED member \/ \E s \in Slots : member' = [member EXCEPT ![s] = "removing"]
      BY <1>5 DEF AdminBegins, BeginCancelRun, StopWork, BeginCancelChild, PauseSlot, BeginRemove
    <3>2. CASE UNCHANGED member
      BY <1>k, <2>1, <3>2
    <3>3. ASSUME NEW s \in Slots, member' = [member EXCEPT ![s] = "removing"] PROVE MemPart
      BY <2>1, <3>3 DEF CallInv, RestType
    <3> QED BY <3>1, <3>2, <3>3
  <2> QED BY <1>k, <2>1, <2>2, <2>3, <2>4, <2>5
<1>6. ASSUME NEW a \in Actors, ActorStep(a) PROVE Goal
  <2>1. UNCHANGED <<admDone, member, seen, constraint>>
    BY <1>6 DEF ActorStep, Publish, MarkRead, MarkReadFails, rest, seat, reqs, coord
  <2>2. AdmPart
    <3>1. CASE UNCHANGED adm
      BY <1>k, <2>1, <3>1
    <3>2. CASE ~UNCHANGED adm
      <4>1. adm' = [adm EXCEPT !.pc = "idle", !.todo = {}]
        BY <1>6, <3>2 DEF ActorStep, Publish, MarkRead, MarkReadFails, rest, seat
      <4>2. adm'.pc = "idle" /\ adm'.todo = {}
        BY <4>1 DEF AdmType
      <4> QED BY <4>2
    <3> QED BY <3>1, <3>2
  <2>3. RunPart
    BY <1>6 DEF ActorStep, Publish, MarkRead, MarkReadFails, ApplySummary, RestType, CallInv
  <2> QED BY <1>k, <2>1, <2>2, <2>3
<1>7. ASSUME UNCHANGED vars PROVE Goal
  <2>1. UNCHANGED <<adm, admDone, run, constraint, member, seen>>
    BY <1>7 DEF vars, rest, seat, reqs, coord
  <2> QED BY <1>k, <2>1
<1>8. ASSUME AdminDrop \/ \E r \in Reqs : ReqDrop(r) PROVE Goal
  <2>1. UNCHANGED <<admDone, run, constraint, member, seen>>
    BY <1>8 DEF AdminDrop, ReqDrop, rest, reqs, coord
  <2>2. adm' = adm \/ (adm'.pc = "idle" /\ adm'.todo = {})
    BY <1>8 DEF AdminDrop, ReqDrop, rest, AdmType
  <2>3. AdmPart
    BY <1>k, <2>1, <2>2
  <2> QED BY <1>k, <2>1, <2>3
<1>9. Goal
  <2> HIDE DEF Goal
  <2> QED BY <1>1, <1>2, <1>3, <1>4, <1>5, <1>6, <1>7, <1>8 DEF Next
<1> QED BY <1>9, <1>g

(* The batch of a loop stays a set of intents of its slot that exist. *)
LEMMA OwnStep == ASSUME IInv, OwnInv, CoordMoves, [Next]_vars PROVE OwnInv'
<1>0. TypeInv /\ CoordType /\ RestType
  BY TypeParts DEF IInv
<1>1. \A s \in Slots : IdsOf(s)' = IdsOf(s) /\ IdsOf(s) \subseteq Ids
  BY DEF CoordMoves, IdsOf, To
<1>2. \A i \in Ids : ist'[i] = "none" => ist[i] = "none"
  BY SettledStep
<1>3. ASSUME NEW s \in Slots, Claims(s) PROVE OwnInv'
  <2>1. /\ lpc' = [lpc EXCEPT ![s] = "prepare"]
        /\ lbatch' = [lbatch EXCEPT ![s] = [op |-> nextOp[s] + 1, ids |-> Claimed(s), ok |-> TRUE]]
    BY <1>3 DEF Claims, LoopNext, GoTo
  <2>2. lbatch'[s].ids = Claimed(s) /\ \A q \in Slots \ {s} : lbatch'[q] = lbatch[q] /\ lpc'[q] = lpc[q]
    BY <1>0, <2>1 DEF RestType
  <2>3. \A i \in Claimed(s) : i \in IdsOf(s) /\ ist[i] # "none"
    BY DEF Claimed, Class, IInv, IntentHome
  <2>4. ASSUME NEW q \in Slots, lpc'[q] \in Executing, NEW i \in lbatch'[q].ids PROVE i \in IdsOf(q) /\ ist[i] # "none"
    BY <2>2, <2>3, <2>4 DEF OwnInv
  <2> QED BY <1>1, <1>2, <2>4 DEF OwnInv
<1>4. CASE \A s \in Slots : lpc'[s] \in Executing =>
              lpc[s] \in Executing /\ lbatch'[s].op = lbatch[s].op /\ lbatch'[s].ids = lbatch[s].ids
  <2>1. ASSUME NEW q \in Slots, lpc'[q] \in Executing, NEW i \in lbatch'[q].ids PROVE i \in IdsOf(q) /\ ist[i] # "none"
    BY <1>4, <2>1 DEF OwnInv
  <2> QED BY <1>1, <1>2, <2>1 DEF OwnInv
<1> QED BY <1>0, <1>3, <1>4, LoopsKept

(* An intent is cancelled by a run cancel of its run or by its loop, as long *)
(* as nobody stops the session or cancels one slot.                          *)
LEMMA WhoCancels ==
    ASSUME IInv, CallInv, Calm', admDone \subseteq admDone', [Next]_vars, UNCHANGED scn
    PROVE  \A i \in Ids : ist'[i] = "cancelled" =>
              \/ ist[i] = "cancelled"
              \/ CancelRunWork /\ RunOf(i) = adm.run /\ ist[i] \in LiveStates
              \/ \E s \in Slots : LoopLateDrop(s) /\ To(i[1]) = s
<1>0. CoordType /\ PubType /\ RestType /\ AdmType /\ IntentHome /\ BatchInv
  BY TypeParts DEF IInv
<1> USE <1>0 DEF NoFault, Fault
<1> DEFINE Only == \A i \in Ids : ist'[i] = "cancelled" =>
                      \/ ist[i] = "cancelled"
                      \/ CancelRunWork /\ RunOf(i) = adm.run /\ ist[i] \in LiveStates
                      \/ \E s \in Slots : LoopLateDrop(s) /\ To(i[1]) = s
           None == \A i \in Ids : ist'[i] = "cancelled" => ist[i] = "cancelled"
<1>n. None => Only
  OBVIOUS
<1>k. ist' = ist => None
  OBVIOUS
<1>d. "stop" \notin admDone /\ admDone \cap {"cancel_child", "pause"} = {} /\ "stop" \notin admDone'
      /\ admDone' \cap {"cancel_child", "pause"} = {}
  BY DEF Calm
<1>c. ASSUME NEW a, NEW s \in Slots, NEW c \in Constraints \ {"stopped"}, SetConstraint(a, s, c) PROVE None
  BY <1>c DEF SetConstraint
<1>t. /\ \A r \in Reqs : To(r) \in Slots
      /\ \A a \in Reqs \cup Slots : seen[a] \in Constraints \ {"stopped"}
  BY <1>d DEF To, RestType, Workloads, CallInv
<1>1. ASSUME NEW r \in Reqs, ReqStep(r) PROVE None
  <2>1. CASE ReqSet(r)
    BY <1>c, <1>t, <2>1 DEF ReqSet
  <2>2. CASE ReqCommit(r) /\ CommitEnqueue(r)
    <3>1. ist' = [ist EXCEPT ![<<r, 0>>] = "queued"]
      BY <2>2 DEF CommitEnqueue
    <3> QED BY <3>1 DEF CoordType
  <2>3. CASE ist' = ist
    BY <1>k, <2>3
  <2> HIDE DEF None
  <2> QED BY <1>1, <2>1, <2>2, <2>3 DEF ReqStep, NoticeWrite, ReqSync, ReqAcquire, ReqWrite, ReqCommit, ReqNotify, coord, AbortEnqueue
<1>2. ASSUME NEW s \in Slots, LoopStep(s) PROVE Only
  <2>1. CASE LoopSet(s)
    BY <1>c, <1>t, <1>n, <2>1 DEF LoopSet
  <2>2. CASE LoopReconcile(s)
    <3>1. None
      BY <2>2 DEF LoopReconcile, ReconcileMailbox
    <3> QED BY <1>n, <3>1
  <2>3. CASE LoopNext(s) \/ LoopSignal(s)
    <3>1. None
      BY <2>3 DEF LoopNext, LoopSignal, Claim, CompleteSignals, coord
    <3> QED BY <1>n, <3>1
  <2>4. CASE LoopPrepareFails(s) \/ LoopSkipped(s) \/ LoopStart(s)
    <3>1. None
      BY <2>4 DEF LoopPrepareFails, LoopSkipped, LoopStart, RetryStart, MarkStarted, coord
    <3> QED BY <1>n, <3>1
  <2>5. CASE LoopFinish(s) \/ LoopFail(s)
    <3>1. None
      BY <2>5 DEF LoopFinish, LoopFail, TerminalizeBatch, coord
    <3> QED BY <1>n, <3>1
  <2>6. CASE LoopLateDrop(s)
    <3>1. lpc[s] \in Executing /\ (ist' = ist \/ (IsCurrent(s, lbatch[s].op) /\ \A i \in Ids : i \notin lbatch[s].ids => ist'[i] = ist[i]))
      BY <2>6 DEF LoopLateDrop, TerminalizeBatch, coord, Executing
    <3>2. IsCurrent(s, lbatch[s].op) => \A i \in lbatch[s].ids : To(i[1]) = s
      BY <3>1 DEF IsCurrent, BatchInv, IntentHome, IdsOf
    <3> QED BY <2>6, <3>1, <3>2
  <2>7. CASE LoopSync(s) \/ LoopPeek(s) \/ LoopPrepared(s) \/ LoopRefused(s) \/ LoopLateCancel(s) \/ LoopTurnEnds(s)
             \/ IdleStep(s) \/ LoopAbort(s)
    <3>1. ist' = ist
      BY <2>7 DEF LoopSync, LoopPeek, LoopPrepared, LoopRefused, LoopLateCancel, LoopTurnEnds,
         IdleStep, LoopIdle, LoopNote, LoopWake, LoopWoke, LoopAbort, coord
    <3> QED BY <1>n, <1>k, <3>1
  <2> HIDE DEF Only
  <2> QED BY <1>2, <2>1, <2>2, <2>3, <2>4, <2>5, <2>6, <2>7 DEF LoopStep
<1>3. ASSUME NEW s \in Slots, AttachStep(s) \/ Repair(s) PROVE None
  <2>1. CASE AttachStart(s) \/ AttachPublish(s)
    BY <1>c, <2>1 DEF AttachStart, AttachPublish, Constraints
  <2>2. CASE ~(AttachStart(s) \/ AttachPublish(s))
    <3>1. ist' = ist
      BY <1>3, <2>2 DEF AttachStep, AttachReady, AttachFails, Repair, coord
    <3> QED BY <1>k, <3>1
  <2> HIDE DEF None
  <2> QED BY <2>1, <2>2
<1>4. ASSUME AdminGoesOn PROVE Only
  <2>1. CASE CancelRunWork
    <3> DEFINE hit  == {s \in Slots : \E i \in active[s].ids : RunOf(i) = adm.run}
               held == UNION {active[s].ids : s \in hit}
               gone == {i \in held : RunOf(i) = adm.run} \cup {i \in Ids : RunOf(i) = adm.run /\ ist[i] = "queued"}
               back == held \ gone
    <3>1. \A i \in Ids : ist'[i] = IF i \in gone THEN "cancelled" ELSE IF i \in back THEN "queued" ELSE ist[i]
      BY <2>1 DEF CancelRunWork, CancelRun
    <3>2. \A i \in gone : RunOf(i) = adm.run /\ ist[i] \in LiveStates
      BY DEF IntentHome, LiveStates
    <3> HIDE DEF gone, back
    <3> QED BY <2>1, <3>1, <3>2
  <2>4. ~CancelBatch
    BY <1>d DEF CancelBatch, CallInv
  <2>5. CASE ~CancelRunWork
    <3>1. ist' = ist
      BY <1>4, <2>4, <2>5 DEF AdminGoesOn, StopTurn, TurnsStopped, CancelSnapshotTurn, RemoveLoop,
         RemovePersist, RemoveRestore, RemoveAgent, FinishRemove, StopSession, coord
    <3> QED BY <1>n, <1>k, <3>1
  <2> HIDE DEF Only
  <2> QED BY <2>1, <2>5
<1>5. ASSUME AdminBegins PROVE ist' = ist
  <2>1. ~StopWork
    BY <1>d DEF StopWork, Begin
  <2> QED BY <1>5, <2>1 DEF AdminBegins, BeginCancelRun, BeginCancelChild, PauseSlot, BeginRemove, coord
<1>6. ASSUME NEW a \in Actors, ActorStep(a) PROVE ist' = ist
  BY <1>6 DEF ActorStep, Publish, MarkRead, MarkReadFails, coord
<1>7. ASSUME AdminDrop \/ (\E r \in Reqs : ReqDrop(r)) \/ UNCHANGED vars PROVE ist' = ist
  BY <1>7 DEF AdminDrop, ReqDrop, vars, coord
<1>8. Only
  <2> HIDE DEF Only, None
  <2> QED BY <1>n, <1>k, <1>1, <1>2, <1>3, <1>4, <1>5, <1>6, <1>7 DEF Next
<1> QED BY <1>8

(* What every step keeps while the database and the port do not fail: turns  *)
(* that were told to stop, a run cancel that is over, the run of an intent.  *)
LEMMA CalmStep ==
    ASSUME IInv, CallInv, Calm', admDone \subseteq admDone', UNCHANGED scn, [Next]_vars
    PROVE  /\ Calm
           /\ stopped \cup adm.todo \subseteq stopped' \cup adm'.todo
           /\ RunWasCancelled => RunWasCancelled'
           /\ \A i \in Ids : ist[i] # "none" => RunOf(i)' = RunOf(i)
<1>0. CoordType /\ PubType /\ RestType /\ AdmType /\ NewInv
  BY TypeParts DEF IInv
<1> USE <1>0 DEF NoFault, Fault
<1> DEFINE Faulty == faults \subseteq faults'
           Telling == stopped \cup adm.todo \subseteq stopped' \cup adm'.todo
           Over == adm'.pc = "cancelling" => adm.pc = "cancelling" \/ "cancel_run" \notin admDone
           Bound == \A i \in Ids : ist[i] # "none" => RunOf(i)' = RunOf(i)
           Goal == Faulty /\ Telling /\ Over /\ Bound
<1>o. Onto
  BY OntoStep
<1>g. Goal => Calm /\ (RunWasCancelled => RunWasCancelled')
  BY <1>o DEF Onto, Calm, RunWasCancelled
<1>f. faults' \cap {"db", "port"} = {}
  BY DEF Calm
<1>b. leaseRun' = leaseRun => Bound
  BY DEF RunOf
<1>a. UNCHANGED <<adm, stopped>> => Telling /\ Over
  OBVIOUS
<1>1. ASSUME NEW r \in Reqs, ReqStep(r) PROVE Goal
  <2>1. UNCHANGED stopped /\ Faulty /\ (adm' = adm \/ (adm'.pc = "idle" /\ adm'.todo = adm.todo))
    BY <1>1 DEF ReqStep, NoticeWrite, ReqSync, ReqSet, ReqAcquire, ReqWrite, ReqCommit, ReqNotify, rest, seat, hist, marks, AdmType
  <2>2. Bound
    <3>1. CASE ReqAcquire(r)
      <4>1. ist[<<r, 0>>] = "none"
        BY <3>1 DEF ReqAcquire, NewInv
      <4>2. \A q \in Reqs \ {r} : leaseRun'[q] = leaseRun[q]
        BY <3>1 DEF ReqAcquire, CoordType
      <4>3. ASSUME NEW i \in Ids, ist[i] # "none" PROVE RunOf(i)' = RunOf(i)
        <5>1. i[1] \in Reqs /\ i = <<i[1], i[2]>>
          BY DEF Ids
        <5> QED BY <4>1, <4>2, <4>3, <5>1 DEF RunOf
      <4> QED BY <4>3
    <3>2. CASE ~ReqAcquire(r)
      <4>1. leaseRun' = leaseRun
        BY <1>1, <3>2 DEF ReqStep, NoticeWrite, ReqSync, ReqSet, ReqWrite, ReqCommit, ReqNotify, coord, SetConstraint,
           AbortEnqueue, CommitEnqueue
      <4> QED BY <1>b, <4>1
    <3> QED BY <3>1, <3>2
  <2> QED BY <1>a, <2>1, <2>2
<1>2. ASSUME NEW s \in Slots, LoopStep(s) PROVE Goal
  <2>1. UNCHANGED <<adm, leaseRun>>
    BY <1>2 DEF LoopStep, LoopSync, LoopSet, LoopPeek, LoopReconcile, LoopNext, LoopSignal, LoopPrepareFails, LoopPrepared,
       LoopStart, LoopRefused, LoopSkipped, LoopLateCancel, LoopLateDrop, LoopTurnEnds, LoopFail, LoopFinish,
       IdleStep, LoopIdle, LoopNote, LoopWake, LoopWoke, LoopAbort, rest, seat, coord,
       SetConstraint, ReconcileMailbox, Claim, CompleteSignals, RetryStart, MarkStarted, TerminalizeBatch
  <2>2. stopped \subseteq stopped' /\ Faulty
    BY <1>2 DEF LoopStep, LoopSync, LoopSet, LoopPeek, LoopReconcile, LoopNext, LoopSignal, LoopPrepareFails, LoopPrepared,
       LoopStart, LoopRefused, LoopSkipped, LoopLateCancel, LoopLateDrop, LoopTurnEnds, LoopFail, LoopFinish,
       IdleStep, LoopIdle, LoopNote, LoopWake, LoopWoke, LoopAbort, hist, marks, CancelTurn
  <2> QED BY <1>b, <2>1, <2>2
<1>3. ASSUME NEW s \in Slots, AttachStep(s) \/ Repair(s) PROVE Goal
  <2>1. UNCHANGED <<adm, stopped, leaseRun>> /\ Faulty
    BY <1>3 DEF AttachStep, AttachStart, AttachReady, AttachFails, AttachPublish, Repair, hist, marks, coord, SetConstraint
  <2> QED BY <1>a, <1>b, <2>1
<1>4. ASSUME AdminGoesOn PROVE Goal
  <2>1. UNCHANGED leaseRun /\ Faulty
    BY <1>4 DEF AdminGoesOn, CancelRunWork, CancelRun, StopTurn, TurnsStopped, CancelSnapshotTurn, CancelBatch, RemoveLoop,
       RemovePersist, RemoveRestore, RemoveAgent, FinishRemove, StopSession, coord, CancelTurn, SetConstraint, TerminalizeBatch
  <2>2. Over
    BY <1>4 DEF AdminGoesOn, CancelRunWork, CancelRun, StopTurn, TurnsStopped, CancelSnapshotTurn, CancelBatch, RemoveLoop,
       RemovePersist, RemoveRestore, RemoveAgent, FinishRemove, StopSession, AdmType
  <2>3. Telling
    <3>1. CASE StopTurn
      <4>1. PICK turn \in adm.todo : \/ CancelTurn(turn) /\ adm' = [adm EXCEPT !.todo = @ \ {turn}]
                                     \/ status[turn[1]] = "none" /\ UNCHANGED status
        BY <3>1 DEF StopTurn, seat
      <4>2. turn[1] \in Slots
        BY DEF AdmType
      <4>3. status'[turn[1]] # "none"
        BY <4>2 DEF Calm
      <4>4. CancelTurn(turn) /\ adm' = [adm EXCEPT !.todo = @ \ {turn}]
        BY <4>1, <4>3
      <4>5. stopped' = stopped \cup {turn}
        BY <1>f, <4>4 DEF CancelTurn
      <4>6. adm'.todo = adm.todo \ {turn}
        BY <4>4 DEF AdmType
      <4> QED BY <4>5, <4>6
    <3>2. CASE CancelRunWork
      <4>1. adm.todo = {} /\ stopped' = stopped
        BY <3>2 DEF CancelRunWork, CallInv, hist, marks
      <4> QED BY <4>1
    <3>3. CASE ~(StopTurn \/ CancelRunWork)
      <4>1. adm'.todo = adm.todo
        BY <1>4, <3>3 DEF AdminGoesOn, TurnsStopped, CancelSnapshotTurn, CancelBatch, RemoveLoop,
           RemovePersist, RemoveRestore, RemoveAgent, FinishRemove, StopSession, AdmType
      <4>2. stopped \subseteq stopped'
        BY <1>4, <3>3 DEF AdminGoesOn, TurnsStopped, CancelSnapshotTurn, CancelBatch, RemoveLoop,
           RemovePersist, RemoveRestore, RemoveAgent, FinishRemove, StopSession, hist, marks, CancelTurn
      <4> QED BY <4>1, <4>2
    <3> QED BY <3>1, <3>2, <3>3
  <2> QED BY <1>b, <2>1, <2>2, <2>3
<1>5. ASSUME AdminBegins PROVE Goal
  <2>1. UNCHANGED <<leaseRun, stopped>> /\ Faulty
    BY <1>5 DEF AdminBegins, BeginCancelRun, StopWork, StopAll, BeginCancelChild, PauseSlot, BeginRemove, coord, hist, marks
  <2>2. Over
    BY <1>5 DEF AdminBegins, BeginCancelRun, StopWork, BeginCancelChild, PauseSlot, BeginRemove, AdmType, Begin
  <2>3. adm'.todo = adm.todo
    BY <1>5 DEF AdminBegins, BeginCancelRun, StopWork, BeginCancelChild, PauseSlot, BeginRemove, AdmType
  <2> QED BY <1>b, <2>1, <2>2, <2>3
<1>6. ASSUME NEW a \in Actors, ActorStep(a) PROVE Goal
  <2>1. ~MarkReadFails(a)
    BY <1>f DEF MarkReadFails
  <2>2. UNCHANGED <<adm, stopped, leaseRun, faults>>
    BY <1>6, <2>1 DEF ActorStep, Publish, MarkRead, rest, seat, hist, marks, coord
  <2> QED BY <1>a, <1>b, <2>2
<1>7. ASSUME UNCHANGED vars PROVE Goal
  <2>1. UNCHANGED <<adm, stopped, leaseRun, faults>>
    BY <1>7 DEF vars, rest, seat, hist, marks, coord
  <2> QED BY <1>a, <1>b, <2>1
<1>8. ASSUME NEW r \in Reqs, ReqDrop(r) PROVE Goal
  <2>1. UNCHANGED <<adm, stopped, leaseRun, faults>>
    BY <1>8 DEF ReqDrop, rest, coord
  <2> QED BY <1>a, <1>b, <2>1
<1>d. ~AdminDrop
  BY DEF AdminDrop, Dropped, Calm
<1>9. Goal
  <2> HIDE DEF Goal
  <2> QED BY <1>1, <1>2, <1>3, <1>4, <1>5, <1>6, <1>7, <1>8, <1>d DEF Next
<1> QED BY <1>9, <1>g

(* What a step of somebody else can do to the batch of a loop: nothing, a    *)
(* failed member takes it, or a run cancel does and tells the turn to stop.  *)
LEMMA BatchFate ==
    ASSUME IInv, CallInv, Calm', admDone \subseteq admDone', UNCHANGED scn, [Next]_vars,
           NEW q \in Slots \ removed', ~LoopStep(q), lpc[q] \in Executing
    PROVE  /\ lpc'[q] = lpc[q] /\ lbatch'[q] = lbatch[q]
           /\ \/ active'[q] = active[q]
              \/ \A i \in active[q].ids : ist'[i] = "failed" \/ (RunOf(i) = 0 /\ ist'[i] = "queued")
              \/ /\ CancelRunWork /\ adm'.pc # "cancelling"
                 /\ \A i \in active[q].ids : ist'[i] = IF RunOf(i) = adm.run THEN "cancelled" ELSE "queued"
                 /\ active[q].turn => <<q, active[q].op>> \in adm'.todo
<1>0. CoordType /\ PubType /\ RestType /\ AdmType /\ IntentHome
  BY TypeParts DEF IInv
<1> USE <1>0 DEF NoFault, Fault
<1> DEFINE Same == lpc'[q] = lpc[q] /\ lbatch'[q] = lbatch[q]
           Taken == \A i \in active[q].ids : ist'[i] = "failed" \/ (RunOf(i) = 0 /\ ist'[i] = "queued")
           Cancelled == /\ CancelRunWork /\ adm'.pc # "cancelling"
                        /\ \A i \in active[q].ids : ist'[i] = IF RunOf(i) = adm.run THEN "cancelled" ELSE "queued"
                        /\ active[q].turn => <<q, active[q].op>> \in adm'.todo
           Kept == active'[q] = active[q]
           Goal == Same /\ (Kept \/ Taken \/ Cancelled)
<1>k. /\ UNCHANGED active => Kept
      /\ UNCHANGED loops => Same
  BY DEF loops
<1>f. faults' \cap {"db", "port"} = {}
  BY DEF Calm
<1>d. "stop" \notin admDone /\ admDone \cap {"cancel_child", "pause"} = {} /\ "stop" \notin admDone'
      /\ admDone' \cap {"cancel_child", "pause"} = {}
  BY DEF Calm
<1>i. \A i \in active[q].ids : i \in Live(IdsOf(q)) /\ i \in Ids
  BY DEF IntentHome, Live, LiveStates, IdsOf
<1>c. ASSUME NEW a, NEW s \in Slots, NEW c \in Constraints \ {"stopped"}, SetConstraint(a, s, c) PROVE Kept \/ Taken
  <2>1. CASE s = q /\ c = "failed"
    BY <1>c, <1>i, <2>1 DEF SetConstraint
  <2>2. CASE ~(s = q /\ c = "failed")
    BY <1>c, <2>2 DEF SetConstraint, CoordType
  <2> QED BY <2>1, <2>2
<1>t. /\ \A r \in Reqs : To(r) \in Slots
      /\ \A a \in Reqs \cup Slots : seen[a] \in Constraints \ {"stopped"}
  BY <1>d DEF To, RestType, Workloads, CallInv
<1>1. ASSUME NEW r \in Reqs, ReqStep(r) PROVE Goal
  <2>1. UNCHANGED loops
    BY <1>1 DEF ReqStep, NoticeWrite, ReqSync, ReqSet, ReqAcquire, ReqWrite, ReqCommit, ReqNotify
  <2>2. CASE ReqSet(r)
    <3>1. Kept \/ Taken
      BY <1>c, <1>t, <2>2 DEF ReqSet
    <3> QED BY <1>k, <2>1, <3>1
  <2>3. CASE ~ReqSet(r)
    <3>1. UNCHANGED active
      BY <1>1, <2>3 DEF ReqStep, NoticeWrite, ReqSync, ReqAcquire, ReqWrite, ReqCommit, ReqNotify, coord, AbortEnqueue, CommitEnqueue
    <3> QED BY <1>k, <2>1, <3>1
  <2> QED BY <2>2, <2>3
<1>2. ASSUME NEW s \in Slots, LoopStep(s) PROVE Goal
  <2>1. s # q
    BY <1>2
  <2>2. \E pc : GoTo(s, pc)
    BY <1>2 DEF LoopStep, LoopSync, LoopSet, LoopPeek, LoopReconcile, LoopNext, LoopSignal, LoopPrepareFails, LoopPrepared,
       LoopStart, LoopRefused, LoopSkipped, LoopLateCancel, LoopLateDrop, LoopTurnEnds, LoopFail, LoopFinish,
       IdleStep, LoopIdle, LoopNote, LoopWake, LoopWoke, LoopAbort
  <2>3. lbatch'[q] = lbatch[q]
    BY <1>2, <2>1 DEF LoopStep, LoopSync, LoopSet, LoopPeek, LoopReconcile, LoopNext, LoopSignal, LoopPrepareFails, LoopPrepared,
       LoopStart, LoopRefused, LoopSkipped, LoopLateCancel, LoopLateDrop, LoopTurnEnds, LoopFail, LoopFinish,
       IdleStep, LoopIdle, LoopNote, LoopWake, LoopWoke, LoopAbort, RestType, loops
  <2>4. Same
    BY <2>1, <2>2, <2>3 DEF GoTo, RestType
  <2>5. CASE LoopSet(s)
    <3>1. Kept \/ Taken
      BY <1>c, <1>t, <2>5 DEF LoopSet
    <3> QED BY <2>4, <3>1
  <2>6. CASE ~LoopSet(s)
    <3>1. Kept
      BY <1>2, <2>1, <2>6 DEF LoopStep, LoopSync, LoopPeek, LoopReconcile, LoopNext, LoopSignal, LoopPrepareFails, LoopPrepared,
       LoopStart, LoopRefused, LoopSkipped, LoopLateCancel, LoopLateDrop, LoopTurnEnds, LoopFail, LoopFinish,
       IdleStep, LoopIdle, LoopNote, LoopWake, LoopWoke, LoopAbort, CoordType, coord,
       ReconcileMailbox, Claim, CompleteSignals, RetryStart, MarkStarted, TerminalizeBatch
    <3> QED BY <2>4, <3>1
  <2> QED BY <2>5, <2>6
<1>3. ASSUME NEW s \in Slots, AttachStep(s) \/ Repair(s) PROVE Goal
  <2>1. Same
    BY <1>3 DEF AttachStep, AttachStart, AttachReady, AttachFails, AttachPublish, Repair, loops, RestType, Executing
  <2>2. CASE AttachStart(s) \/ AttachPublish(s)
    <3>1. Kept \/ Taken
      BY <1>c, <2>2 DEF AttachStart, AttachPublish, Constraints
    <3> QED BY <2>1, <3>1
  <2>3. CASE ~(AttachStart(s) \/ AttachPublish(s))
    <3>1. UNCHANGED active
      BY <1>3, <2>3 DEF AttachStep, AttachReady, AttachFails, Repair, coord
    <3> QED BY <1>k, <2>1, <3>1
  <2> QED BY <2>2, <2>3
<1>4. ASSUME AdminGoesOn PROVE Goal
  <2>1. UNCHANGED loops
    BY <1>4 DEF AdminGoesOn, CancelRunWork, StopTurn, TurnsStopped, CancelSnapshotTurn, CancelBatch, RemoveLoop,
       RemovePersist, RemoveRestore, RemoveAgent, FinishRemove, StopSession
  <2>2. CASE CancelRunWork
    <3> DEFINE hit  == {s \in Slots : \E i \in active[s].ids : RunOf(i) = adm.run}
               held == UNION {active[s].ids : s \in hit}
               gone == {i \in held : RunOf(i) = adm.run} \cup {i \in Ids : RunOf(i) = adm.run /\ ist[i] = "queued"}
               back == held \ gone
    <3>1. /\ \A i \in Ids : ist'[i] = IF i \in gone THEN "cancelled" ELSE IF i \in back THEN "queued" ELSE ist[i]
          /\ active' = [s \in Slots |-> IF s \in hit THEN NoBatch ELSE active[s]]
          /\ adm' = [adm EXCEPT !.pc = "stopping",
                                !.todo = {<<s, active[s].op>> : s \in {p \in hit : active[p].turn}}]
      BY <2>2 DEF CancelRunWork, CancelRun
    <3>2. CASE q \in hit
      <4>1. \A i \in active[q].ids : i \in Ids /\ i \in held /\ (i \in gone <=> RunOf(i) = adm.run)
        BY <1>i, <3>2
      <4>2. adm'.pc = "stopping" /\ adm'.todo = {<<s, active[s].op>> : s \in {p \in hit : active[p].turn}}
        BY <3>1 DEF AdmType
      <4> HIDE DEF hit, held, gone
      <4> QED BY <1>k, <2>1, <2>2, <3>1, <3>2, <4>1, <4>2
    <3>3. CASE q \notin hit
      <4> HIDE DEF hit
      <4> QED BY <1>k, <2>1, <3>1, <3>3
    <3> QED BY <3>2, <3>3
  <2>5. ~CancelBatch
    BY <1>d DEF CancelBatch, CallInv
  <2>6. CASE ~CancelRunWork
    <3>1. UNCHANGED active
      BY <1>4, <2>5, <2>6 DEF AdminGoesOn, StopTurn, TurnsStopped, CancelSnapshotTurn, RemoveLoop,
         RemovePersist, RemoveRestore, RemoveAgent, FinishRemove, StopSession, coord
    <3> QED BY <1>k, <2>1, <3>1
  <2> QED BY <2>2, <2>6
<1>5. ASSUME AdminBegins PROVE Goal
  <2>1. ~StopWork
    BY <1>d DEF StopWork, Begin
  <2>2. UNCHANGED <<active, loops>>
    BY <1>5, <2>1 DEF AdminBegins, BeginCancelRun, BeginCancelChild, PauseSlot, BeginRemove, coord
  <2> QED BY <1>k, <2>2
<1>6. ASSUME NEW a \in Actors, ActorStep(a) PROVE Goal
  <2>1. ~MarkReadFails(a)
    BY <1>f DEF MarkReadFails
  <2>2. UNCHANGED <<active, loops>>
    BY <1>6, <2>1 DEF ActorStep, Publish, MarkRead, coord
  <2> QED BY <1>k, <2>2
<1>7. ASSUME AdminDrop \/ (\E r \in Reqs : ReqDrop(r)) \/ UNCHANGED vars PROVE Goal
  <2>1. UNCHANGED <<active, loops>>
    BY <1>7 DEF AdminDrop, ReqDrop, vars, coord
  <2> QED BY <1>k, <2>1
<1>8. Goal
  <2> HIDE DEF Goal
  <2> QED BY <1>1, <1>2, <1>3, <1>4, <1>5, <1>6, <1>7 DEF Next
<1> QED BY <1>8

(* A turn that lost its batch stays told, or keeps an intent that lasts. *)
LEMMA TellStep ==
    ASSUME IInv, CallInv, OwnInv, TellInv, CoordMoves, admDone \subseteq admDone', [Next]_vars
    PROVE  TellInv'
<1> SUFFICES ASSUME Calm', NEW q \in Slots \ removed' PROVE Informed(q)'
  BY DEF TellInv
<1>0. CoordType /\ PubType /\ RestType /\ AdmType /\ IntentHome /\ BatchInv
  BY TypeParts DEF IInv
<1>s. UNCHANGED scn /\ q \in Slots \ removed
  BY <1>0, OntoStep DEF CoordMoves, Onto
<1>c. /\ Calm
      /\ stopped \cup adm.todo \subseteq stopped' \cup adm'.todo
      /\ RunWasCancelled => RunWasCancelled'
      /\ \A i \in Ids : ist[i] # "none" => RunOf(i)' = RunOf(i)
  BY <1>s, CalmStep
<1>w. Informed(q)
  BY <1>c, <1>s DEF TellInv
<1>t. \A i \in Ids : ist[i] \in Terminal => ist'[i] = ist[i]
  BY SettledStep DEF SettledOnce
<1>o. lpc[q] \in Executing => \A i \in lbatch[q].ids : i \in Ids /\ To(i[1]) = q /\ ist[i] # "none"
  BY <1>s DEF OwnInv, IdsOf
<1> DEFINE AllCancelled == \A i \in lbatch[q].ids : ist[i] = "cancelled"
<1>l. ASSUME lpc[q] \in Executing, ~LoopLateDrop(q), NEW i \in lbatch[q].ids, Lasting(i) PROVE Lasting(i)'
  <2>1. i \in Ids /\ To(i[1]) = q /\ ist[i] # "none"
    BY <1>l, <1>o
  <2>2. ist'[i] # "cancelled"
    <3> SUFFICES ASSUME ist'[i] = "cancelled" PROVE FALSE
      OBVIOUS
    <3>1. ist[i] # "cancelled" /\ ist[i] \notin Terminal
      BY <1>l, <1>t, <2>1 DEF Lasting, Terminal
    <3>2. CancelRunWork /\ RunOf(i) = adm.run
      BY <1>l, <1>s, <2>1, <3>1, WhoCancels
    <3>3. ~RunWasCancelled /\ adm.run # 0
      BY <3>2 DEF CancelRunWork, RunWasCancelled, CallInv
    <3> QED BY <1>l, <3>1, <3>2, <3>3 DEF Lasting, Terminal
  <2>3. ist[i] \in {"failed", "completed"} => ist'[i] = ist[i]
    BY <1>t, <2>1 DEF Terminal
  <2> QED BY <1>c, <1>l, <2>1, <2>2, <2>3 DEF Lasting
<1>v. ASSUME lpc[q] \in Executing, ~LoopLateDrop(q), lbatch'[q] = lbatch[q], Survives(q) PROVE Survives(q)'
  BY <1>v, <1>l DEF Survives
<1>a. ASSUME lpc[q] \in Executing, AllCancelled PROVE \A i \in lbatch[q].ids : ist'[i] = "cancelled"
  BY <1>a, <1>o, <1>t DEF Terminal
<1>d. lbatch'[q] = lbatch[q] /\ Told(q) => Told(q)'
  BY <1>c DEF Told
<1>e. lpc'[q] \notin {"prepare", "start", "drop", "running"} => Informed(q)'
  BY DEF Informed
<1>1. CASE lpc[q] \in Executing /\ ~LoopStep(q)
  <2> DEFINE Taken == \A i \in active[q].ids : ist'[i] = "failed" \/ (RunOf(i) = 0 /\ ist'[i] = "queued")
             Cancelled == /\ CancelRunWork /\ adm'.pc # "cancelling"
                          /\ \A i \in active[q].ids : ist'[i] = IF RunOf(i) = adm.run THEN "cancelled" ELSE "queued"
                          /\ active[q].turn => <<q, active[q].op>> \in adm'.todo
  <2>1. lpc'[q] = lpc[q] /\ lbatch'[q] = lbatch[q] /\ (active'[q] = active[q] \/ Taken \/ Cancelled)
    BY <1>1, <1>s, BatchFate
  <2>2. ~LoopLateDrop(q)
    BY <1>1 DEF LoopStep
  <2>b. active[q].op = lbatch[q].op => lbatch[q].ids = active[q].ids /\ lbatch[q].ids # {}
    BY <1>0, <1>1 DEF BatchInv
  <2>3. ASSUME active[q].op = lbatch[q].op, Taken PROVE Survives(q)'
    <3>1. PICK i \in lbatch[q].ids : TRUE
      BY <2>3, <2>b
    <3>2. i \in Ids /\ ist[i] # "none" /\ i \in active[q].ids
      BY <1>1, <1>o, <2>3, <2>b, <3>1
    <3>3. Lasting(i)'
      BY <1>c, <2>3, <3>2 DEF Lasting
    <3> QED BY <2>1, <3>1, <3>3 DEF Survives
  <2>4. ASSUME active[q].op = lbatch[q].op, Cancelled
        PROVE  /\ Survives(q)' \/ \A i \in lbatch[q].ids : ist'[i] = "cancelled"
               /\ active[q].turn => Told(q)'
    <3>1. active[q].turn => Told(q)'
      BY <2>1, <2>4 DEF Told
    <3>2. RunWasCancelled'
      BY <2>4 DEF CancelRunWork, CallInv, RunWasCancelled
    <3>3. ASSUME NEW i \in lbatch[q].ids, ist'[i] # "cancelled" PROVE Survives(q)'
      <4>1. Lasting(i)'
        BY <3>2, <3>3 DEF Lasting
      <4> QED BY <2>1, <4>1 DEF Survives
    <3> QED BY <3>1, <3>3
  <2>5. active[q].op # lbatch[q].op => active'[q].op # lbatch[q].op
    <3>1. active'[q].op = active[q].op \/ active'[q].op = 0
      <4>1. CASE BatchesKept
        BY <4>1 DEF BatchesKept, NoBatch
      <4>2. ASSUME NEW s \in Slots, Claims(s) PROVE active'[q] = active[q]
        BY <1>0, <1>1, <4>2 DEF Claims, LoopStep, Claim, CoordType
      <4> QED BY <4>1, <4>2 DEF CoordMoves
    <3>2. lbatch[q].op # 0
      BY <1>0, <1>1 DEF BatchInv
    <3> QED BY <3>1, <3>2
  <2> HIDE DEF Taken, Cancelled
  <2>6. CASE lpc[q] \in {"prepare", "start"}
    <3>1. ASSUME active'[q].op # lbatch[q].op
          PROVE  (\A i \in lbatch[q].ids : ist'[i] = "cancelled") \/ Survives(q)'
      <4>1. CASE active[q].op = lbatch[q].op
        BY <2>1, <2>3, <2>4, <3>1, <4>1
      <4>2. CASE active[q].op # lbatch[q].op
        BY <1>1, <1>w, <1>a, <1>v, <2>1, <2>2, <2>6, <4>2 DEF Informed
      <4> QED BY <4>1, <4>2
    <3> QED BY <2>1, <2>6, <3>1 DEF Informed
  <2>7. CASE lpc[q] = "drop"
    BY <1>d, <1>w, <2>1, <2>7 DEF Informed
  <2>8. CASE lpc[q] = "running"
    <3>1. (active'[q].op = lbatch[q].op /\ active'[q].turn) \/ Told(q)' \/ Survives(q)'
      <4>1. CASE active[q].op = lbatch[q].op /\ active[q].turn
        BY <2>1, <2>3, <2>4, <4>1
      <4>2. CASE Told(q) \/ Survives(q)
        BY <1>1, <1>d, <1>v, <2>1, <2>2, <4>2
      <4> QED BY <1>w, <2>8, <4>1, <4>2 DEF Informed
    <3> QED BY <2>1, <2>8, <3>1 DEF Informed
  <2> QED BY <1>e, <2>1, <2>6, <2>7, <2>8
<1> USE <1>0 DEF NoFault, Fault
<1>g. ASSUME NEW pc, GoTo(q, pc) PROVE lpc'[q] = pc
  BY <1>g DEF GoTo, RestType
<1>2. CASE lpc[q] \notin Executing /\ ~Claims(q)
  <2>1. CASE \E s \in Slots : Claims(s)
    <3>1. PICK s \in Slots : Claims(s)
      BY <2>1
    <3>2. lpc'[q] = lpc[q]
      BY <1>2, <3>1 DEF Claims, LoopNext, GoTo, RestType
    <3> QED BY <1>2, <1>e, <3>2 DEF Executing
  <2>2. CASE lpc'[q] \in Executing => lpc[q] \in Executing
    BY <1>2, <1>e, <2>2 DEF Executing
  <2>3. TypeInv
    BY DEF IInv
  <2> QED BY <2>1, <2>2, <2>3, LoopsKept
<1>3. CASE Claims(q)
  <2>1. /\ active' = [active EXCEPT ![q] = [op |-> nextOp[q] + 1, ids |-> Claimed(q), turn |-> FALSE]]
        /\ GoTo(q, "prepare")
        /\ lbatch' = [lbatch EXCEPT ![q] = [op |-> nextOp[q] + 1, ids |-> Claimed(q), ok |-> TRUE]]
    BY <1>3 DEF Claims, LoopNext, Claim
  <2>2. active'[q].op = lbatch'[q].op /\ lpc'[q] = "prepare"
    BY <1>g, <2>1 DEF CoordType, RestType
  <2> QED BY <2>2 DEF Informed
<1>4. CASE lpc[q] \in Executing /\ LoopStep(q)
  <2>1. CASE LoopStart(q)
    <3>1. lbatch' = lbatch /\ lpc[q] = "start" /\ ~LoopLateDrop(q)
      BY <2>1 DEF LoopStart, LoopLateDrop
    <3>2. CASE IsCurrent(q, lbatch[q].op)
      <4>1. active' = [active EXCEPT ![q].turn = TRUE] /\ (GoTo(q, "late") \/ GoTo(q, "running"))
        BY <2>1, <3>2 DEF LoopStart, MarkStarted
      <4>2. active'[q].op = lbatch'[q].op /\ active'[q].turn
        BY <3>1, <3>2, <4>1 DEF CoordType, Batches, IsCurrent
      <4>3. lpc'[q] \in {"late", "running"}
        BY <1>g, <4>1
      <4> QED BY <4>2, <4>3 DEF Informed
    <3>3. CASE ~IsCurrent(q, lbatch[q].op)
      <4>1. CASE AllCancelled
        <5>1. GoTo(q, "late")
          BY <2>1, <3>3, <4>1 DEF LoopStart
        <5> QED BY <1>e, <1>g, <5>1
      <4>2. CASE ~AllCancelled
        <5>1. GoTo(q, "running")
          BY <2>1, <3>3, <4>2 DEF LoopStart
        <5>2. Survives(q)
          BY <1>w, <3>1, <3>3, <4>2 DEF Informed, IsCurrent
        <5>3. Survives(q)'
          BY <1>4, <1>v, <3>1, <5>2
        <5>4. lpc'[q] = "running"
          BY <1>g, <5>1
        <5> QED BY <5>3, <5>4 DEF Informed
      <4> QED BY <4>1, <4>2
    <3> QED BY <3>2, <3>3
  <2>p. CASE LoopPrepared(q)
    <3>1. /\ lpc[q] = "prepare" /\ GoTo(q, "start") /\ ~LoopLateDrop(q)
          /\ UNCHANGED <<lbatch, active, ist>>
      BY <2>p DEF LoopPrepared, LoopLateDrop, coord
    <3>2. lpc'[q] = "start"
      BY <1>g, <3>1
    <3>3. active'[q].op # lbatch'[q].op => (\A i \in lbatch[q].ids : ist'[i] = "cancelled") \/ Survives(q)'
      BY <1>4, <1>v, <1>w, <3>1 DEF Informed
    <3> QED BY <3>1, <3>2, <3>3 DEF Informed
  <2>2. CASE LoopLateCancel(q)
    <3>1. GoTo(q, "drop") /\ lbatch' = lbatch /\ <<q, lbatch[q].op>> \in stopped'
      BY <2>2 DEF LoopLateCancel, CancelTurn, Calm
    <3>2. lpc'[q] = "drop" /\ Told(q)'
      BY <1>g, <3>1 DEF Told
    <3> QED BY <3>2 DEF Informed
  <2>3. CASE LoopLateDrop(q)
    <3>1. GoTo(q, "running") /\ lbatch' = lbatch /\ lpc[q] = "drop"
      BY <2>3 DEF LoopLateDrop
    <3>2. lpc'[q] = "running" /\ Told(q)'
      BY <1>d, <1>g, <1>w, <3>1 DEF Informed
    <3> QED BY <3>2 DEF Informed
  <2>4. CASE LoopPrepareFails(q) \/ LoopSkipped(q) \/ LoopRefused(q) \/ LoopTurnEnds(q) \/ LoopFail(q) \/ LoopFinish(q) \/ LoopAbort(q)
    <3>1. \E pc \in {"wait", "finish", "fail", "sync", "idle", "gone"} : GoTo(q, pc)
      BY <2>4 DEF LoopPrepareFails, LoopSkipped, LoopRefused, LoopTurnEnds, LoopFail, LoopFinish, LoopAbort
    <3> QED BY <1>e, <1>g, <3>1
  <2>5. ~(LoopSync(q) \/ LoopSet(q) \/ LoopPeek(q) \/ LoopReconcile(q) \/ LoopNext(q) \/ LoopSignal(q) \/ IdleStep(q))
    BY <1>4 DEF LoopSync, LoopSet, LoopPeek, LoopReconcile, LoopNext, LoopSignal,
       IdleStep, LoopIdle, LoopNote, LoopWake, LoopWoke, Executing
  <2> QED BY <1>4, <2>1, <2>p, <2>2, <2>3, <2>4, <2>5 DEF LoopStep
<1> QED BY <1>1, <1>2, <1>3, <1>4

(* The invariant of a cancelled turn *)
TurnInv == IInv /\ CallInv /\ OwnInv /\ TellInv

(* It is one. *)
THEOREM TurnInvariant == Spec => []TurnInv
<1>1. Init => TurnInv
  <2> HAVE Init
  <2>1. IInv
    BY InvInit
  <2>2. CallInv
    BY DEF Init, CallInv, Halted, InitialConstraint
  <2>3. \A s \in Slots : lpc[s] \notin Executing
    BY DEF Init, Executing
  <2>4. OwnInv /\ TellInv
    BY <2>3 DEF OwnInv, TellInv, Informed, Executing
  <2> QED BY <2>1, <2>2, <2>4 DEF TurnInv
<1>2. TurnInv /\ [Next]_vars => TurnInv'
  <2> HAVE TurnInv /\ [Next]_vars
  <2>1. IInv /\ CallInv /\ OwnInv /\ TellInv /\ TypeInv /\ AbortInv
    BY DEF TurnInv, IInv
  <2>2. IInv' /\ CoordMoves
    BY <2>1, InvStep
  <2>3. CallInv' /\ admDone \subseteq admDone'
    BY <2>1, CallStep
  <2>4. OwnInv' /\ TellInv'
    BY <2>1, <2>2, <2>3, OwnStep, TellStep
  <2> QED BY <2>2, <2>3, <2>4 DEF TurnInv
<1> QED BY <1>1, <1>2, PTL DEF Spec

(* A turn all of whose work was cancelled was told to stop, or the cancel    *)
(* is about to tell it, whichever of cancel_run and mark_started comes       *)
(* first and whatever requests, failing members and other turns do meanwhile. *)
THEOREM CancelledTurnsStop == Spec => []CancelledTurnStops
<1>1. TurnInv => CancelledTurnStops
  <2> SUFFICES ASSUME TurnInv, Calm, NEW s \in Slots \ removed, lpc[s] = "running",
                      \A i \in lbatch[s].ids : ist[i] = "cancelled"
               PROVE  Told(s)
    BY DEF CancelledTurnStops, Calm, Told
  <2>1. (active[s].op = lbatch[s].op /\ active[s].turn) \/ Told(s) \/ Survives(s)
    BY DEF TurnInv, TellInv, Informed
  <2>2. ~Survives(s)
    BY DEF Survives, Lasting
  <2>3. ~(active[s].op = lbatch[s].op)
    <3>1. lpc[s] \in Executing
      BY DEF Executing
    <3>2. active[s].op = lbatch[s].op => lbatch[s].ids # {} /\ lbatch[s].ids = active[s].ids
      BY <3>1 DEF TurnInv, IInv, BatchInv
    <3> QED BY <3>2 DEF TurnInv, IInv, IntentHome
  <2> QED BY <2>1, <2>2, <2>3
<1> QED BY <1>1, TurnInvariant, PTL
=============================================================================
