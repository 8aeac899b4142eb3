----------------------------- MODULE Decisions -----------------------------
(***************************************************************************)
(* One decision of crates/aionui-decision: service.rs (DecisionService)    *)
(* and the statements of repository.rs it issues.                          *)
(*                                                                         *)
(* A decision is put to several brains.  Every launch begins a session,    *)
(* named by its revision, whose task runs the brains without an opinion    *)
(* side by side, each in up to three attempts.  Pause, cancel and the      *)
(* other requests run beside it: they signal the task through the entry in *)
(* active_runs and then write the rows, in statements of their own.        *)
(*                                                                         *)
(* Evidence carries the retrieval bundles it was derived from; which of it *)
(* an external brain is given depends on them.                             *)
(*                                                                         *)
(* Abstracted: texts, roles and tools; the rows of sessions, turns and the *)
(* egress audit, which no operation reads for a choice; all hits of one    *)
(* bundle are one piece of evidence; an unknown location counts as         *)
(* external, as in the code; the decision exists, with all its brains.     *)
(***************************************************************************)
EXTENDS Naturals, FiniteSets, Sequences

CONSTANTS Brains,
          Requests,    \* calls of the service
          Free,        \* the launch lock is free
          Scenarios,   \* the workloads Init chooses from
          MinBrains,   \* MIN_BRAINS (3 in the code)
          MaxSessions  \* bound: sessions begun

Kinds     == {"start", "continue", "pause", "interject", "cancel", "refresh", "unused"}
Results   == {"opinion", "retryable", "fatal"}
Locations == {"local", "external"}

(* A workload: what each request asks for; the consent of the bundles a     *)
(* retrieval may bring (none if empty), and of the one stored at creation;  *)
(* where the brains run, what attempts may end with and whether there is a  *)
(* fallback; failing statements and crashes left; whether a handler may be  *)
(* dropped, or fail, at an await                                            *)
Workloads == [kind : [Requests -> Kinds], consent : SUBSET BOOLEAN, stored : SUBSET BOOLEAN,
              where : [Brains -> SUBSET Locations], results : SUBSET Results, fallback : BOOLEAN,
              faults : 0..2, crashes : 0..2, drops : BOOLEAN]

ASSUME DecisionAssumption ==
    /\ Scenarios \subseteq Workloads
    /\ IsFiniteSet(Brains) /\ MinBrains \in Nat \ {0} /\ MaxSessions \in Nat
    /\ Free \notin Requests

VARIABLES
    scn,        \* the workload, fixed by Init
    status,     \* decisions.status
    bstate,     \* decision_brains.state
    opinions,   \* candidates stored for a brain
    resolution, \* "none", or whether the stored resolution is partial
    revision,   \* sessions begun
    consents,   \* consents[n]: cloud_authorized of the n-th retrieval bundle
    evidence,   \* decision_evidence
    up,         \* the process: "up", "down", "half" recovered
    active,     \* the session in active_runs, 0: none
    control,    \* control[g]: the watch channel of a session
    lock,       \* holder of launch_lock
    tpc, ctx,   \* session tasks: program counter, context loaded
    bpc,        \* bpc[g][b]: a brain in a session's task
    rpc, rgen,  \* requests: program counter, session begun
    faults, crashes,
    sentOut,    \* history: bundles shown to an external brain, with the current bundle
    cancelled, overtaken, \* history: a cancel was written, beside an operation past its check
    abandoned   \* history: an operation ended without undoing its part of a launch

rows   == <<status, bstate, opinions, resolution, revision>>
known  == <<consents, evidence>>
memory == <<active, control, lock>>
tasks  == <<tpc, ctx, bpc>>
calls  == <<rpc, rgen>>
budget == <<faults, crashes>>
ghosts == <<sentOut, cancelled, overtaken, abandoned>>
vars   == <<scn, rows, known, up, memory, tasks, calls, budget, ghosts>>

Sessions == 1..MaxSessions
Kind(r)  == scn.kind[r]
Bundles  == 1..Len(consents)
Latest   == Len(consents)
NoContext == [evidence |-> {}, latest |-> 0]
NoRun     == [pc |-> "over", attempt |-> 0, where |-> "local"]

(* evidence: where it comes from (the origin_location), retrieval_bundle_id, *)
(* lineage_bundle_ids, cloud_egress_allowed; contents is history, the        *)
(* bundles whose text went into it                                           *)
Evidence(bundles) == [origin : Locations \cup {"user", "knowledge"}, bundle : bundles \cup {0},
                      lineage : SUBSET bundles, allowed : BOOLEAN, contents : SUBSET bundles]
UserNote     == [origin |-> "user", bundle |-> 0, lineage |-> {}, allowed |-> TRUE, contents |-> {}]
Hits(n, yes) == [origin |-> "knowledge", bundle |-> n, lineage |-> {n}, allowed |-> yes, contents |-> {n}]

TypeOK ==
    /\ status \in {"draft", "running", "paused", "completed", "cancelled", "failed"}
    /\ bstate \in [Brains -> {"pending", "running", "completed", "failed", "cancelled"}]
    /\ opinions \in [Brains -> Nat] /\ resolution \in {"none", "partial", "full"}
    /\ revision \in 0..MaxSessions /\ consents \in Seq(BOOLEAN) /\ evidence \subseteq Evidence(Bundles)
    /\ up \in {"up", "down", "half"}
    /\ active \in 0..revision /\ lock \in Requests \cup {Free}
    /\ control \in [Sessions -> {"running", "paused", "cancelled"}]
    /\ tpc \in [Sessions -> {"none", "load", "brains", "read", "fail", "finish", "error", "errorfail", "leave"}]
    /\ ctx \in [Sessions -> [evidence : SUBSET Evidence(Bundles), latest : Bundles \cup {0}]]
    /\ bpc \in [Sessions -> [Brains -> [pc : {"mark", "try", "won", "lost", "paused", "cancelled", "over"},
                                        attempt : 0..3, where : Locations]]]
    /\ rpc \in [Requests -> {"new", "lock", "entry", "refresh", "begin", "write", "insert", "spawn",
                             "signal", "status", "brains", "done"}]
    /\ rgen \in [Requests -> 0..revision]
    /\ faults \in 0..2 /\ crashes \in 0..2
    /\ sentOut \subseteq Bundles \X (Bundles \cup {0})
    /\ cancelled \in BOOLEAN /\ overtaken \in BOOLEAN /\ abandoned \in BOOLEAN

Init ==
    /\ scn \in Scenarios
    /\ status = "draft" /\ bstate = [b \in Brains |-> "pending"] /\ opinions = [b \in Brains |-> 0]
    /\ resolution = "none" /\ revision = 0
    /\ \/ scn.stored = {} /\ consents = <<>> /\ evidence = {UserNote}
       \/ \E yes \in scn.stored : consents = <<yes>> /\ evidence = {UserNote, Hits(1, yes)}
    /\ up = "up" /\ active = 0 /\ lock = Free /\ control = [g \in Sessions |-> "running"]
    /\ tpc = [g \in Sessions |-> "none"] /\ ctx = [g \in Sessions |-> NoContext]
    /\ bpc = [g \in Sessions |-> [b \in Brains |-> NoRun]]
    /\ rpc = [r \in Requests |-> "new"] /\ rgen = [r \in Requests |-> 0]
    /\ faults = scn.faults /\ crashes = scn.crashes
    /\ sentOut = {} /\ cancelled = FALSE /\ overtaken = FALSE /\ abandoned = FALSE

GoTo(r, pc)   == rpc' = [rpc EXCEPT ![r] = pc]
TaskTo(g, pc) == tpc' = [tpc EXCEPT ![g] = pc]
Completed == {b \in Brains : bstate[b] = "completed"}

-----------------------------------------------------------------------------
(* start, continue_decision and launch *)

StartRead(r) ==
    /\ Kind(r) = "start" /\ rpc[r] = "new" /\ up = "up"
    /\ GoTo(r, IF status = "draft" THEN "lock" ELSE "done")
    /\ UNCHANGED <<scn, rows, known, up, memory, tasks, rgen, budget, ghosts>>

RecoverablePartial == status = "completed" /\ resolution = "partial" /\ Completed # Brains

ContinueRead(r) ==
    /\ Kind(r) = "continue" /\ rpc[r] = "new" /\ up = "up"
    /\ GoTo(r, IF status \in {"paused", "failed"} \/ RecoverablePartial THEN "lock" ELSE "done")
    /\ UNCHANGED <<scn, rows, known, up, memory, tasks, rgen, budget, ghosts>>

LaunchLock(r) ==
    /\ rpc[r] = "lock" /\ lock = Free
    /\ lock' = r /\ GoTo(r, "entry")
    /\ UNCHANGED <<scn, rows, known, up, active, control, tasks, rgen, budget, ghosts>>

(* a request that ends gives the launch lock back *)
Return(r) == GoTo(r, "done") /\ lock' = IF lock = r THEN Free ELSE lock

(* mutant: a run that was told to stop is not waited for *)
MutantDoesNotWait(r) ==
    /\ rpc[r] = "entry"
    /\ IF (active # 0 => control[active] # "running") /\ Cardinality(Brains) >= MinBrains
       THEN GoTo(r, "refresh") /\ UNCHANGED lock
       ELSE Return(r)
    /\ UNCHANGED <<scn, rows, known, up, active, control, tasks, rgen, budget, ghosts>>

(* a run in progress refuses the launch; one that is stopping is polled for *)
(* a second, with the lock held, and refuses it if it is still there        *)
LaunchEntry(r) ==
    /\ rpc[r] = "entry"
    /\ IF active = 0 /\ Cardinality(Brains) >= MinBrains
       THEN GoTo(r, "refresh") /\ UNCHANGED lock
       ELSE Return(r)
    /\ UNCHANGED <<scn, rows, known, up, active, control, tasks, rgen, budget, ghosts>>

(* retrieve_knowledge and store_retrieval_evidence: a bundle with or        *)
(* without consent, or nothing                                              *)
StoreBundle ==
    \/ \E yes \in scn.consent :
          consents' = Append(consents, yes) /\ evidence' = evidence \cup {Hits(Latest + 1, yes)}
    \/ UNCHANGED known

(* refresh_from_gateway *)
LaunchRefresh(r) ==
    /\ rpc[r] = "refresh"
    /\ StoreBundle
    /\ GoTo(r, "begin")
    /\ UNCHANGED <<scn, rows, up, memory, tasks, rgen, budget, ghosts>>

(* mutant: a cancelled decision may begin a session *)
MutantBeginsCancelled(r) ==
    /\ rpc[r] = "begin"
    /\ IF status = "running" \/ (status = "completed" /\ Completed = Brains)
       THEN Return(r) ELSE GoTo(r, "write") /\ UNCHANGED lock
    /\ UNCHANGED <<scn, rows, known, up, active, control, tasks, rgen, budget, ghosts>>

(* begin_session: the check *)
BeginCheck(r) ==
    /\ rpc[r] = "begin"
    /\ IF status \in {"running", "cancelled"} \/ (status = "completed" /\ Completed = Brains)
       THEN Return(r) ELSE GoTo(r, "write") /\ UNCHANGED lock
    /\ UNCHANGED <<scn, rows, known, up, active, control, tasks, rgen, budget, ghosts>>

(* begin_session: the transaction, which checks nothing *)
BeginWrite(r) ==
    /\ rpc[r] = "write" /\ revision < MaxSessions              \* bound MaxSessions
    /\ revision' = revision + 1 /\ rgen' = [rgen EXCEPT ![r] = revision + 1]
    /\ status' = "running"
    /\ bstate' = [b \in Brains |-> IF bstate[b] \in {"failed", "cancelled"} THEN "pending" ELSE bstate[b]]
    /\ GoTo(r, "insert")
    /\ UNCHANGED <<scn, opinions, resolution, known, up, memory, tasks, budget, ghosts>>

LaunchInsert(r) ==
    /\ rpc[r] = "insert"
    /\ active' = rgen[r] /\ control' = [control EXCEPT ![rgen[r]] = "running"]
    /\ GoTo(r, "spawn")
    /\ UNCHANGED <<scn, rows, known, up, lock, tasks, rgen, budget, ghosts>>

LaunchSpawn(r) ==
    /\ rpc[r] = "spawn"
    /\ TaskTo(rgen[r], "load")
    /\ Return(r)
    /\ UNCHANGED <<scn, rows, known, up, active, control, ctx, bpc, rgen, budget, ghosts>>

-----------------------------------------------------------------------------
(* pause, interject, cancel, refresh_knowledge *)

Stops(r) == Kind(r) \in {"pause", "interject", "cancel"}

(* an interjection pauses a running decision and is stored otherwise *)
StopRead(r) ==
    /\ Stops(r) /\ rpc[r] = "new" /\ up = "up"
    /\ GoTo(r, IF status = "running" \/ (Kind(r) = "cancel" /\ status # "completed") THEN "signal" ELSE "done")
    /\ UNCHANGED <<scn, rows, known, up, memory, tasks, rgen, budget, ghosts>>

Wanted(r) == IF Kind(r) = "cancel" THEN "cancelled" ELSE "paused"

(* signal *)
StopSignal(r) ==
    /\ rpc[r] = "signal"
    /\ control' = IF active = 0 THEN control ELSE [control EXCEPT ![active] = Wanted(r)]
    /\ GoTo(r, "status")
    /\ UNCHANGED <<scn, rows, known, up, active, lock, tasks, rgen, budget, ghosts>>

(* operations that have checked the status and have still to write it *)
PastCheck(r) ==
    \/ \E g \in Sessions : tpc[g] \in {"fail", "finish", "errorfail"}
    \/ \E q \in Requests \ {r} : \/ rpc[q] = "write"
                                 \/ rpc[q] \in {"signal", "status"} /\ Kind(q) # "cancel"

(* set_control_state, first statement *)
StopStatus(r) ==
    /\ rpc[r] = "status"
    /\ status' = Wanted(r)
    /\ cancelled' = (cancelled \/ Kind(r) = "cancel")
    /\ overtaken' = (overtaken \/ (Kind(r) = "cancel" /\ PastCheck(r)))
    /\ GoTo(r, "brains")
    /\ UNCHANGED <<scn, bstate, opinions, resolution, revision, known, up, memory, tasks, rgen, budget,
                   sentOut, abandoned>>

(* set_control_state, last statement *)
StopBrains(r) ==
    /\ rpc[r] = "brains"
    /\ bstate' = [b \in Brains |->
                    IF Kind(r) = "cancel" /\ bstate[b] # "completed" THEN "cancelled"
                    ELSE IF Kind(r) # "cancel" /\ bstate[b] = "running" THEN "pending"
                    ELSE bstate[b]]
    /\ GoTo(r, "done")
    /\ UNCHANGED <<scn, status, opinions, resolution, revision, known, up, memory, tasks, rgen, budget, ghosts>>

RefreshKnowledge(r) ==
    /\ Kind(r) = "refresh" /\ rpc[r] = "new" /\ up = "up"
    /\ StoreBundle
    /\ GoTo(r, "done")
    /\ UNCHANGED <<scn, rows, up, memory, tasks, rgen, budget, ghosts>>

(* a statement of the request fails, required knowledge is missing, or the  *)
(* client is gone and the handler is dropped at an await                    *)
RequestAborts(r) ==
    /\ scn.drops /\ rpc[r] \notin {"new", "done"}
    /\ Return(r)
    /\ abandoned' = (abandoned \/ rpc[r] \in {"insert", "spawn"})
    /\ UNCHANGED <<scn, rows, known, up, active, control, tasks, rgen, budget, sentOut, cancelled, overtaken>>

-----------------------------------------------------------------------------
(* run_brain and execute_attempt *)

(* mutant: an opinion may leave if all its inputs may, whatever bundle is   *)
(* current now                                                              *)
MutantAllowsOld(e, latest) ==
    \/ e.origin = "user"
    \/ e.origin = "knowledge" /\ latest # 0 /\ consents[latest] /\ e.bundle = latest
    \/ e.origin \in Locations /\ e.allowed

(* external_evidence_allowed *)
ExternalEvidenceAllowed(e, latest) ==
    \/ e.origin = "user"
    \/ e.origin = "knowledge" /\ latest # 0 /\ consents[latest] /\ e.bundle = latest
    \/ /\ e.origin \in Locations /\ e.allowed
       /\ e.lineage = {} \/ (latest # 0 /\ consents[latest] /\ e.lineage \subseteq {latest})

(* evidence_for_brain *)
Selected(g, where) ==
    {e \in ctx[g].evidence : where = "local" \/ ExternalEvidenceAllowed(e, ctx[g].latest)}

(* the evidence an opinion becomes: it inherits what it was given *)
Opinion(g, where) ==
    LET given   == Selected(g, where)
        lineage == UNION {e.lineage \cup ({e.bundle} \ {0}) : e \in given}
    IN  [origin |-> where, bundle |-> IF ctx[g].latest \in lineage THEN ctx[g].latest ELSE 0,
         lineage |-> lineage, allowed |-> \A e \in given : e.allowed,
         contents |-> UNION {e.contents : e \in given}]

BrainTo(g, b, pc) == bpc' = [bpc EXCEPT ![g][b].pc = pc]

BrainMark(g, b) ==
    /\ bpc[g][b].pc = "mark"
    /\ bstate' = [bstate EXCEPT ![b] = "running"]
    /\ bpc' = [bpc EXCEPT ![g][b] = [pc |-> "try", attempt |-> 1, where |-> "local"]]
    /\ UNCHANGED <<scn, status, opinions, resolution, revision, known, up, memory, tpc, ctx, calls, budget, ghosts>>

(* mutant: the fallback is retried as well *)
MutantRetriesOn(g, b) ==
    LET n == bpc[g][b].attempt
    IN  bpc' = [bpc EXCEPT ![g][b] = IF n >= 2 /\ ~scn.fallback
                                     THEN [@ EXCEPT !.pc = "lost"] ELSE [@ EXCEPT !.attempt = n + 1]]

(* a retryable failure: the brain once more, then the fallback if there is one *)
RetryBrain(g, b) ==
    LET n == bpc[g][b].attempt
    IN  bpc' = [bpc EXCEPT ![g][b] = IF n = 3 \/ (n = 2 /\ ~scn.fallback)
                                     THEN [@ EXCEPT !.pc = "lost"] ELSE [@ EXCEPT !.attempt = n + 1]]

(* execute_attempt: the brain is shown the evidence its location allows and *)
(* answers, fails or runs into the deadline                                 *)
BrainTry(g, b) ==
    /\ bpc[g][b].pc = "try"
    /\ \E where \in scn.where[b] :
         /\ sentOut' = IF where = "local" THEN sentOut
                       ELSE sentOut \cup {<<n, ctx[g].latest>> : n \in UNION {e.contents : e \in Selected(g, where)}}
         /\ \/ "opinion" \in scn.results
               /\ bpc' = [bpc EXCEPT ![g][b].pc = "won", ![g][b].where = where]
            \/ "retryable" \in scn.results /\ RetryBrain(g, b)
            \/ "fatal" \in scn.results /\ BrainTo(g, b, "lost")
    /\ UNCHANGED <<scn, rows, known, up, memory, tpc, ctx, calls, budget, cancelled, overtaken, abandoned>>

(* the signal wins the select *)
BrainHalts(g, b) ==
    /\ bpc[g][b].pc = "try" /\ control[g] # "running"
    /\ BrainTo(g, b, control[g])
    /\ UNCHANGED <<scn, rows, known, up, memory, tpc, ctx, calls, budget, ghosts>>

(* complete_opinion, in one transaction *)
BrainWins(g, b) ==
    /\ bpc[g][b].pc = "won"
    /\ bstate' = [bstate EXCEPT ![b] = "completed"]
    /\ opinions' = [opinions EXCEPT ![b] = @ + 1]
    /\ evidence' = evidence \cup {Opinion(g, bpc[g][b].where)}
    /\ bpc' = [bpc EXCEPT ![g][b] = NoRun]
    /\ UNCHANGED <<scn, status, resolution, revision, consents, up, memory, tpc, ctx, calls, budget, ghosts>>

(* mark_brain_failed, mark_brain_cancelled or reset_brain_pending *)
BrainGivesUp(g, b) ==
    /\ \/ bpc[g][b].pc = "lost" /\ bstate' = [bstate EXCEPT ![b] = "failed"]
       \/ bpc[g][b].pc = "cancelled" /\ bstate' = [bstate EXCEPT ![b] = "cancelled"]
       \/ bpc[g][b].pc = "paused" /\ bstate' = [bstate EXCEPT ![b] = "pending"]
    /\ bpc' = [bpc EXCEPT ![g][b] = NoRun]
    /\ UNCHANGED <<scn, status, opinions, resolution, revision, known, up, memory, tpc, ctx, calls, budget, ghosts>>

(* a statement of run_brain fails: its row stays as it is *)
BrainError(g, b) ==
    /\ faults > 0 /\ bpc[g][b].pc # "over"
    /\ faults' = faults - 1
    /\ bpc' = [bpc EXCEPT ![g][b] = NoRun]
    /\ UNCHANGED <<scn, rows, known, up, memory, tpc, ctx, calls, crashes, ghosts>>

-----------------------------------------------------------------------------
(* run_session *)

(* load_context, and the brains without an opinion *)
SessionLoad(g) ==
    /\ tpc[g] = "load"
    /\ ctx' = [ctx EXCEPT ![g] = [evidence |-> evidence, latest |-> Latest]]
    /\ bpc' = [bpc EXCEPT ![g] = [b \in Brains |-> IF b \in Completed THEN NoRun ELSE [NoRun EXCEPT !.pc = "mark"]]]
    /\ TaskTo(g, "brains")
    /\ UNCHANGED <<scn, rows, known, up, memory, calls, budget, ghosts>>

(* join_all *)
SessionJoin(g) ==
    /\ tpc[g] = "brains" /\ \A b \in Brains : bpc[g][b].pc = "over"
    /\ ctx' = [ctx EXCEPT ![g] = NoContext]
    /\ TaskTo(g, "read")
    /\ UNCHANGED <<scn, rows, known, up, memory, bpc, calls, budget, ghosts>>

SessionRead(g) ==
    /\ tpc[g] = "read"
    /\ TaskTo(g, IF status \in {"paused", "cancelled"} THEN "leave"
                 ELSE IF Completed = {} THEN "fail" ELSE "finish")
    /\ UNCHANGED <<scn, rows, known, up, memory, ctx, bpc, calls, budget, ghosts>>

(* fail_session, unguarded *)
SessionFail(g) ==
    /\ tpc[g] \in {"fail", "errorfail"}
    /\ status' = "failed"
    /\ TaskTo(g, "leave")
    /\ UNCHANGED <<scn, bstate, opinions, resolution, revision, known, up, memory, ctx, bpc, calls, budget, ghosts>>

(* finish, unguarded *)
SessionFinish(g) ==
    /\ tpc[g] = "finish"
    /\ status' = "completed"
    /\ resolution' = IF Completed = Brains THEN "full" ELSE "partial"
    /\ TaskTo(g, "leave")
    /\ UNCHANGED <<scn, bstate, opinions, revision, known, up, memory, ctx, bpc, calls, budget, ghosts>>

(* a statement of run_session fails: the task reads the status again and    *)
(* fails a session that is still running                                    *)
SessionError(g) ==
    /\ faults > 0 /\ tpc[g] \in {"load", "read", "fail", "finish"}
    /\ faults' = faults - 1
    /\ TaskTo(g, "error")
    /\ UNCHANGED <<scn, rows, known, up, memory, ctx, bpc, calls, crashes, ghosts>>

SessionErrorRead(g) ==
    /\ tpc[g] = "error"
    /\ TaskTo(g, IF status = "running" THEN "errorfail" ELSE "leave")
    /\ UNCHANGED <<scn, rows, known, up, memory, ctx, bpc, calls, budget, ghosts>>

(* that fails too, and is ignored *)
SessionGivesUp(g) ==
    /\ faults > 0 /\ tpc[g] \in {"error", "errorfail"}
    /\ faults' = faults - 1
    /\ TaskTo(g, "leave") /\ abandoned' = TRUE
    /\ UNCHANGED <<scn, rows, known, up, memory, ctx, bpc, calls, crashes, sentOut, cancelled, overtaken>>

(* mutant: only a session that was not told to stop removes its entry *)
MutantLeavesEntry(g) ==
    /\ tpc[g] = "leave"
    /\ active' = IF active = g /\ control[g] # "cancelled" THEN 0 ELSE active
    /\ TaskTo(g, "none")
    /\ UNCHANGED <<scn, rows, known, up, control, lock, ctx, bpc, calls, budget, ghosts>>

(* remove_active_run *)
SessionLeave(g) ==
    /\ tpc[g] = "leave"
    /\ active' = IF active = g THEN 0 ELSE active
    /\ TaskTo(g, "none")
    /\ UNCHANGED <<scn, rows, known, up, control, lock, ctx, bpc, calls, budget, ghosts>>

-----------------------------------------------------------------------------
(* the process stops; recover_interrupted before the next one serves *)

Crash ==
    /\ up # "down" /\ crashes > 0
    /\ crashes' = crashes - 1
    /\ up' = "down"
    /\ active' = 0 /\ lock' = Free /\ control' = [g \in Sessions |-> "running"]
    /\ tpc' = [g \in Sessions |-> "none"] /\ ctx' = [g \in Sessions |-> NoContext]
    /\ bpc' = [g \in Sessions |-> [b \in Brains |-> NoRun]]
    /\ rpc' = [r \in Requests |-> IF rpc[r] = "new" THEN "new" ELSE "done"]
    /\ abandoned' = FALSE
    /\ UNCHANGED <<scn, rows, known, rgen, faults, sentOut, cancelled, overtaken>>

RecoverDecision ==
    /\ up = "down"
    /\ status' = IF status = "running" THEN "paused" ELSE status
    /\ up' = "half"
    /\ UNCHANGED <<scn, bstate, opinions, resolution, revision, known, memory, tasks, calls, budget, ghosts>>

RecoverBrains ==
    /\ up = "half"
    /\ bstate' = [b \in Brains |-> IF bstate[b] = "running" THEN "pending" ELSE bstate[b]]
    /\ up' = "up"
    /\ UNCHANGED <<scn, status, opinions, resolution, revision, known, memory, tasks, calls, budget, ghosts>>

-----------------------------------------------------------------------------
Request(r) ==
    \/ StartRead(r) \/ ContinueRead(r) \/ LaunchLock(r) \/ LaunchEntry(r) \/ LaunchRefresh(r)
    \/ BeginCheck(r) \/ BeginWrite(r) \/ LaunchInsert(r) \/ LaunchSpawn(r)
    \/ StopRead(r) \/ StopSignal(r) \/ StopStatus(r) \/ StopBrains(r) \/ RefreshKnowledge(r)

BrainStep(g, b) == BrainMark(g, b) \/ BrainTry(g, b) \/ BrainHalts(g, b) \/ BrainWins(g, b) \/ BrainGivesUp(g, b)

SessionStep(g) ==
    \/ SessionLoad(g) \/ SessionJoin(g) \/ SessionRead(g) \/ SessionFail(g) \/ SessionFinish(g)
    \/ SessionErrorRead(g) \/ SessionLeave(g)

Next ==
    \/ \E r \in Requests : Request(r) \/ RequestAborts(r)
    \/ \E g \in Sessions : \/ SessionStep(g) \/ SessionError(g) \/ SessionGivesUp(g)
                           \/ \E b \in Brains : BrainStep(g, b) \/ BrainError(g, b)
    \/ Crash \/ RecoverDecision \/ RecoverBrains

(* the runtime polls what it has begun, an attempt ends at its deadline, and *)
(* a process that starts recovers                                            *)
Fairness ==
    /\ \A r \in Requests : WF_vars(rpc[r] # "new" /\ Request(r))
    /\ \A g \in Sessions : WF_vars(SessionStep(g)) /\ \A b \in Brains : WF_vars(BrainStep(g, b))
    /\ WF_vars(RecoverDecision \/ RecoverBrains)

Spec == Init /\ [][Next]_vars /\ Fairness

-----------------------------------------------------------------------------
(* A brain has one opinion if it is completed and none otherwise: no brain   *)
(* is asked again after its opinion was stored, by two sessions at once or   *)
(* after a pause, a restart or a continue.                                   *)
OneOpinion == \A b \in Brains : opinions[b] = IF bstate[b] = "completed" THEN 1 ELSE 0

(* A written cancel stays, except beside an operation that had checked the   *)
(* status before: finish, fail_session, begin_session and set_control_state  *)
(* overwrite without a check.                                                *)
CancelledStays == cancelled /\ ~overtaken => status = "cancelled"

(* No text of a retrieval bundle reaches an external brain, directly or      *)
(* through the opinion of another brain, unless that bundle is the newest of *)
(* the session and has consent.                                              *)
ConsentKept == \A sent \in sentOut : sent[1] = sent[2] /\ consents[sent[1]]

(* No decision stays busy: its status or its entry in active_runs would      *)
(* refuse every further launch.  The exception, until a restart, is a launch *)
(* that ends between the transaction and the spawn, or a second failing      *)
(* statement in the error path of the task.                                  *)
Busy == status = "running" \/ active # 0
RunEnds == Busy ~> (~Busy \/ abandoned)
=============================================================================
