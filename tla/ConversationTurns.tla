-------------------------- MODULE ConversationTurns --------------------------
(***************************************************************************)
(* The life of the turns of one conversation: the runtime flags of         *)
(* crates/aionui-conversation/src/runtime_state.rs and the tasks that read *)
(* and write them, namely the submission and execution of turns            *)
(* (service.rs, turn_orchestrator.rs), cancel and delete requests          *)
(* (service.rs), restart recovery and shutdown. Agents are ACP agents: the *)
(* other kinds are neither evicted nor drained.                            *)
(*                                                                         *)
(* The service keeps one entry per conversation in each of its maps and    *)
(* the entries of two conversations never meet, so one conversation is     *)
(* modelled. The run scheduler (module AgentRunScheduler) appears as the   *)
(* choice of when a waiting turn is granted or refused. A step is a piece  *)
(* of code between two awaits, or between two separate acquisitions of the *)
(* runtime state lock.                                                     *)
(***************************************************************************)
EXTENDS Naturals

CONSTANTS
  Turns,             \* turn ids, one per submission
  Cancels,           \* cancel requests (of a user, or of the confirmation watchdog)
  Deletes,           \* delete requests
  Events,            \* which faults the environment may produce
  MaxContinuations,  \* MAX_SYSTEM_RESPONSE_CONTINUATIONS_PER_TURN
  NoTurn

EventKinds == {"db", "disconnect", "shutdown", "cancelError", "retryable"}

ASSUME TurnsAssumption == NoTurn \notin Turns
ASSUME TurnEventsAssumption == Events \subseteq EventKinds
ASSUME ContinuationsAssumption == MaxContinuations \in Nat

VARIABLES
  stored,        \* the conversation's row exists
  \* ConversationRuntimeState, under one lock
  active,        \* active_turns
  queued,        \* queued_turns
  deleting,      \* deleting_conversations
  cancelling,    \* cancelling_conversations
  shuttingDown,  \* shutting_down
  slot,          \* the conversation's slot in the worker task manager
  \* the task of each turn
  pc,            \* where it is
  handle,        \* the agent it holds
  snapshot,      \* the lifecycle it read before it sent the prompt
  outcome,       \* the relay's outcome
  continued,     \* continuation_count
  replayed,      \* whether the one automatic replay was used
  \* requests
  cpc, target,   \* a cancel request, and the turn it names
  dpc, hadTurn   \* a delete request, and had_active_turn

flags == <<active, queued, deleting, cancelling, shuttingDown>>
turnVars == <<pc, handle, snapshot, outcome, continued, replayed>>
cancelVars == <<cpc, target>>
deleteVars == <<dpc, hadTurn>>
vars == <<stored, flags, slot, turnVars, cancelVars, deleteVars>>

Lifecycles == {"active", "deleting", "cancelling", "shutting_down"}
Submitting == {"new", "fetched", "inserted", "restored"}
Pending == {"enqueue", "waiting", "granted", "refused"}
Running == {"claimed", "attempt", "building", "sending", "relay", "decide", "evict", "abandon", "releasing"}
Outcomes == {"finish", "more", "clean", "error"}

TypeOK ==
  /\ stored \in BOOLEAN
  /\ active \in Turns \union {NoTurn} /\ queued \in Turns \union {NoTurn}
  /\ deleting \in BOOLEAN /\ cancelling \in BOOLEAN /\ shuttingDown \in BOOLEAN
  /\ slot \in {"none", "building", "ready"}
  /\ pc \in [Turns -> Submitting \union Pending \union Running \union {"done", "gone"}]
  /\ handle \in [Turns -> {"none", "managed", "orphan", "doomed", "dead"}]
  /\ snapshot \in [Turns -> Lifecycles]
  /\ outcome \in [Turns -> Outcomes]
  /\ continued \in [Turns -> 0 .. MaxContinuations]
  /\ replayed \in [Turns -> BOOLEAN]
  /\ cpc \in [Cancels -> {"new", "clear", "mark", "signal", "drain", "kill", "done"}]
  /\ target \in [Cancels -> Turns \union {NoTurn}]
  /\ dpc \in [Deletes -> {"new", "mark", "hook", "row", "done", "failed", "gone"}]
  /\ hadTurn \in [Deletes -> BOOLEAN]

-----------------------------------------------------------------------------
(* Helpers *)

\* lifecycle_for
Lifecycle ==
  IF shuttingDown THEN "shutting_down"
  ELSE IF deleting THEN "deleting"
  ELSE IF cancelling THEN "cancelling"
  ELSE "active"

Goto(t, s) == pc' = [pc EXCEPT ![t] = s]

\* What a kill of the conversation's slot does to the agent of the turn that
\* holds it. A slot that is still being built is only removed: kill_and_wait
\* then waits for the build to kill its agent, plain kill leaves it alone.
Killed(h, unfinished) == [t \in Turns |->
  IF h[t] # "managed" THEN h[t] ELSE IF slot = "building" THEN unfinished ELSE "dead"]

Kill == slot' = "none" /\ handle' = Killed(handle, "orphan")
KillAndWait == slot' = "none" /\ handle' = Killed(handle, "doomed")

\* clear_queued
ClearQueued(t) == queued' = IF queued = t THEN NoTurn ELSE queued

-----------------------------------------------------------------------------
(* Submission: send_message and enqueue_scheduled_message *)

\* Requests are served once recovery has handled every restored turn.
Serving == \A t \in Turns : pc[t] # "restored"

FetchConversation(t) ==
  /\ Serving
  /\ pc[t] = "new"
  /\ Goto(t, IF stored THEN "fetched" ELSE "done")
  /\ UNCHANGED <<stored, flags, slot, handle, snapshot, outcome, continued, replayed, cancelVars, deleteVars>>

\* insert_message; the row of the conversation may be gone by now.
InsertMessage(t) ==
  /\ pc[t] = "fetched"
  /\ \/ stored /\ Goto(t, "inserted")
     \/ (~stored \/ "db" \in Events) /\ Goto(t, "done")
  /\ UNCHANGED <<stored, flags, slot, handle, snapshot, outcome, continued, replayed, cancelVars, deleteVars>>

MayQueue == ~shuttingDown /\ ~deleting /\ active = NoTurn /\ queued = NoTurn

\* mark_queued, for a submitted turn or for one that recovery restores.
MarkQueued(t) ==
  /\ pc[t] \in {"inserted", "restored"}
  /\ IF MayQueue
     THEN /\ queued' = t
          /\ Goto(t, IF pc[t] = "inserted" THEN "enqueue" ELSE "waiting")
     ELSE UNCHANGED queued /\ Goto(t, "done")
  /\ UNCHANGED <<stored, active, deleting, cancelling, shuttingDown, slot, handle, snapshot, outcome,
                 continued, replayed, cancelVars, deleteVars>>

\* AgentRunScheduler::enqueue admits the run or rejects it.
Enqueue(t) ==
  /\ pc[t] = "enqueue"
  /\ \/ Goto(t, "waiting") /\ UNCHANGED queued
     \/ Goto(t, "done") /\ ClearQueued(t)
  /\ UNCHANGED <<stored, active, deleting, cancelling, shuttingDown, slot, handle, snapshot, outcome,
                 continued, replayed, cancelVars, deleteVars>>

\* The client goes away and the server drops the handler at one of its awaits.
DropHandler(t) ==
  /\ "disconnect" \in Events
  /\ pc[t] \in {"fetched", "enqueue"}
  /\ Goto(t, "gone")
  /\ UNCHANGED <<stored, flags, slot, handle, snapshot, outcome, continued, replayed, cancelVars, deleteVars>>

-----------------------------------------------------------------------------
(* Execution: execute_scheduled_message and the turn orchestrator *)

\* The scheduler grants the permit, or refuses it (expired, failed write, row
\* deleted).
Permit(t) ==
  /\ pc[t] = "waiting"
  /\ \/ stored /\ Goto(t, "granted")
     \/ Goto(t, "refused")
  /\ UNCHANGED <<stored, flags, slot, handle, snapshot, outcome, continued, replayed, cancelVars, deleteVars>>

MutantRefusalKeepsMarker(t) ==
  /\ pc[t] = "refused"
  /\ Goto(t, "done")
  /\ UNCHANGED <<stored, flags, slot, handle, snapshot, outcome, continued, replayed, cancelVars, deleteVars>>

PermitRefused(t) ==
  /\ pc[t] = "refused"
  /\ ClearQueued(t)
  /\ Goto(t, "done")
  /\ UNCHANGED <<stored, active, deleting, cancelling, shuttingDown, slot, handle, snapshot, outcome,
                 continued, replayed, cancelVars, deleteVars>>

\* try_claim_turn; a refused claim leaves the queued marker where it is.
ClaimTurn(t) ==
  /\ pc[t] = "granted"
  /\ IF ~shuttingDown /\ ~deleting /\ active = NoTurn
     THEN active' = t /\ ClearQueued(t) /\ Goto(t, "claimed")
     ELSE UNCHANGED <<active, queued>> /\ Goto(t, "done")
  /\ UNCHANGED <<stored, deleting, cancelling, shuttingDown, slot, handle, snapshot, outcome, continued,
                 replayed, cancelVars, deleteVars>>

\* mark_running, then the model route and the task options, which may fail.
PrepareTurn(t) ==
  /\ pc[t] = "claimed"
  /\ \E s \in {"attempt", "releasing"} : Goto(t, s)
  /\ UNCHANGED <<stored, flags, slot, handle, snapshot, outcome, continued, replayed, cancelVars, deleteVars>>

\* get_or_build_task finds the slot or creates it. An agent that lacks the
\* runtime capabilities of this turn is killed and built anew.
StartBuild(t) ==
  /\ pc[t] = "attempt"
  /\ Goto(t, "building")
  /\ slot' \in IF slot = "ready" THEN {"ready", "building"} ELSE {"building"}
  /\ handle' = [handle EXCEPT ![t] = "managed"]
  /\ UNCHANGED <<stored, flags, snapshot, outcome, continued, replayed, cancelVars, deleteVars>>

\* The factory succeeds, or fails and leaves the slot empty. An agent that was
\* killed while being built is dead or nobody's. The knowledge policy or the
\* workspace may still end the attempt.
FinishBuild(t) ==
  /\ pc[t] = "building"
  /\ \/ /\ \E s \in {"sending", "releasing"} : Goto(t, s)
        /\ slot' = IF handle[t] = "managed" THEN "ready" ELSE slot
        /\ handle' = [handle EXCEPT ![t] = IF @ = "doomed" THEN "dead" ELSE @]
     \/ /\ Goto(t, "releasing")
        /\ slot' = IF slot = "building" THEN "none" ELSE slot
        /\ handle' = [handle EXCEPT ![t] = "none"]
  /\ UNCHANGED <<stored, flags, snapshot, outcome, continued, replayed, cancelVars, deleteVars>>

\* The lifecycle is read, the prompt is sent and the relay starts; the required
\* runtime mode may fail.
Send(t) ==
  /\ pc[t] = "sending"
  /\ snapshot' = [snapshot EXCEPT ![t] = Lifecycle]
  /\ \E s \in {"relay", "releasing"} : Goto(t, s)
  /\ UNCHANGED <<stored, flags, slot, handle, outcome, continued, replayed, cancelVars, deleteVars>>

\* What the agent's stream may end with; the relay of a conversation that is
\* being deleted drops the system responses ("more").
RelayEnd(o) ==
  /\ o = "more" => ~deleting
  /\ o = "clean" => "retryable" \in Events

MutantUnlimited(t, o) == o = "more" /\ snapshot[t] = "active"

\* TurnContinuationPolicy::decide, with the lifecycle read before the prompt
\* was sent.
Continues(t, o) == o = "more" /\ snapshot[t] = "active" /\ continued[t] < MaxContinuations

Relay(t) ==
  /\ pc[t] = "relay"
  /\ \E o \in Outcomes :
       /\ RelayEnd(o)
       /\ outcome' = [outcome EXCEPT ![t] = o]
       /\ IF Continues(t, o)
          THEN Goto(t, "sending") /\ continued' = [continued EXCEPT ![t] = @ + 1]
          ELSE Goto(t, "decide") /\ UNCHANGED continued
  /\ UNCHANGED <<stored, flags, slot, handle, snapshot, replayed, cancelVars, deleteVars>>

\* TurnRecoveryPolicy::decide
Replays(t) == outcome[t] = "clean" /\ Lifecycle = "active" /\ ~replayed[t]
\* AgentHealthPolicy::decide
Evicts(t) == outcome[t] \in {"clean", "error"} /\ Lifecycle \in {"active", "cancelling"}

MutantReplayReleases(t) ==
  /\ pc[t] = "decide"
  /\ Goto(t, IF Replays(t) THEN "evict" ELSE IF Evicts(t) THEN "abandon" ELSE "releasing")
  /\ replayed' = [replayed EXCEPT ![t] = @ \/ Replays(t)]
  /\ active' = IF Replays(t) THEN NoTurn ELSE active
  /\ UNCHANGED <<stored, queued, deleting, cancelling, shuttingDown, slot, handle, snapshot, outcome,
                 continued, cancelVars, deleteVars>>

\* The orchestrator reads the lifecycle again, then replays the turn once, or
\* ends it and evicts the failed agent.
Decide(t) ==
  /\ pc[t] = "decide"
  /\ Goto(t, IF Replays(t) THEN "evict" ELSE IF Evicts(t) THEN "abandon" ELSE "releasing")
  /\ replayed' = [replayed EXCEPT ![t] = @ \/ Replays(t)]
  /\ UNCHANGED <<stored, flags, slot, handle, snapshot, outcome, continued, cancelVars, deleteVars>>

\* evict_acp_task_after_terminal_error: the slot is removed at once, the turn
\* goes on when the process has ended. A replay starts with a fresh attempt.
Evict(t) ==
  /\ pc[t] \in {"evict", "abandon"}
  /\ KillAndWait
  /\ continued' = [continued EXCEPT ![t] = 0]
  /\ Goto(t, IF pc[t] = "evict" THEN "attempt" ELSE "releasing")
  /\ UNCHANGED <<stored, flags, snapshot, outcome, replayed, cancelVars, deleteVars>>

\* TurnClaim::release; the task ends and its locals with it.
Release(t) ==
  /\ pc[t] = "releasing"
  /\ IF active = t
     THEN active' = NoTurn /\ deleting' = FALSE /\ cancelling' = FALSE
     ELSE UNCHANGED <<active, deleting, cancelling>>
  /\ handle' = [handle EXCEPT ![t] = "none"]
  /\ snapshot' = [snapshot EXCEPT ![t] = "active"]
  /\ outcome' = [outcome EXCEPT ![t] = "finish"]
  /\ continued' = [continued EXCEPT ![t] = 0]
  /\ replayed' = [replayed EXCEPT ![t] = FALSE]
  /\ Goto(t, "done")
  /\ UNCHANGED <<stored, queued, shuttingDown, slot, cancelVars, deleteVars>>

-----------------------------------------------------------------------------
(* ConversationService::cancel *)

\* A turn that still waits in the scheduler is taken out; otherwise the request
\* goes on only if the turn it names is active and its agent is built.
CancelTurn(k, t) ==
  /\ Serving
  /\ cpc[k] = "new"
  /\ pc[t] \in Pending \union Running
  /\ stored
  /\ target' = [target EXCEPT ![k] = t]
  /\ pc' = [pc EXCEPT ![t] = IF @ = "waiting" THEN "refused" ELSE @]
  /\ cpc' = [cpc EXCEPT ![k] = IF pc[t] = "waiting" THEN "clear"
                               ELSE IF active = t /\ slot = "ready" THEN "mark"
                               ELSE "done"]
  /\ UNCHANGED <<stored, flags, slot, handle, snapshot, outcome, continued, replayed, deleteVars>>

ClearCancelled(k) ==
  /\ cpc[k] = "clear"
  /\ ClearQueued(target[k])
  /\ cpc' = [cpc EXCEPT ![k] = "done"]
  /\ UNCHANGED <<stored, active, deleting, cancelling, shuttingDown, slot, turnVars, target, deleteVars>>

\* mark_cancelling takes the lock anew: the turn may have ended since.
MarkCancelling(k) ==
  /\ cpc[k] = "mark"
  /\ cancelling' = TRUE
  /\ cpc' = [cpc EXCEPT ![k] = "signal"]
  /\ UNCHANGED <<stored, active, queued, deleting, shuttingDown, slot, turnVars, target, deleteVars>>

\* The server drops the handler at the await of cancel_queued or agent.cancel():
\* the cancelling flag stays and no drain timer is armed.
DropCancel(k) ==
  /\ "disconnect" \in Events
  /\ cpc[k] \in {"clear", "signal"}
  /\ cpc' = [cpc EXCEPT ![k] = "done"]
  /\ UNCHANGED <<stored, flags, slot, turnVars, target, deleteVars>>

\* agent.cancel() succeeds and the drain timer is armed, or fails.
SignalAgent(k) ==
  /\ cpc[k] = "signal"
  /\ \/ cpc' = [cpc EXCEPT ![k] = "drain"] /\ UNCHANGED cancelling
     \/ /\ "cancelError" \in Events
        /\ cpc' = [cpc EXCEPT ![k] = "done"]
        /\ cancelling' = FALSE
  /\ UNCHANGED <<stored, active, queued, deleting, shuttingDown, slot, turnVars, target, deleteVars>>

MutantDrainForgets(k) ==
  /\ cpc[k] = "drain"
  /\ cpc' = [cpc EXCEPT ![k] = "done"]
  /\ UNCHANGED <<stored, flags, slot, turnVars, target, deleteVars>>

\* ACP_CANCEL_DRAIN_TIMEOUT has passed.
DrainTimeout(k) ==
  /\ cpc[k] = "drain"
  /\ cpc' = [cpc EXCEPT ![k] = IF active = target[k] /\ cancelling THEN "kill" ELSE "done"]
  /\ UNCHANGED <<stored, flags, slot, turnVars, target, deleteVars>>

DrainKill(k) ==
  /\ cpc[k] = "kill"
  /\ KillAndWait
  /\ cpc' = [cpc EXCEPT ![k] = "done"]
  /\ UNCHANGED <<stored, flags, pc, snapshot, outcome, continued, replayed, target, deleteVars>>

-----------------------------------------------------------------------------
(* ConversationService::delete *)

DeleteRequest(d) ==
  /\ Serving
  /\ dpc[d] = "new"
  /\ dpc' = [dpc EXCEPT ![d] = IF stored THEN "mark" ELSE "failed"]
  /\ UNCHANGED <<stored, flags, slot, turnVars, cancelVars, hadTurn>>

MarkDeleting(d) ==
  /\ dpc[d] = "mark"
  /\ deleting' = TRUE
  /\ hadTurn' = [hadTurn EXCEPT ![d] = active # NoTurn]
  /\ dpc' = [dpc EXCEPT ![d] = "hook"]
  /\ UNCHANGED <<stored, active, queued, cancelling, shuttingDown, slot, turnVars, cancelVars>>

\* The worker task manager's OnConversationDelete.
DeleteHook(d) ==
  /\ dpc[d] = "hook"
  /\ Kill
  /\ dpc' = [dpc EXCEPT ![d] = "row"]
  /\ UNCHANGED <<stored, flags, pc, snapshot, outcome, continued, replayed, cancelVars, hadTurn>>

MutantDeleteKeepsFlag(d) ==
  /\ dpc[d] = "row"
  /\ \/ /\ stored
        /\ stored' = FALSE
        /\ dpc' = [dpc EXCEPT ![d] = "done"]
        /\ UNCHANGED deleting
     \/ /\ ~stored \/ "db" \in Events
        /\ dpc' = [dpc EXCEPT ![d] = "failed"]
        /\ deleting' = FALSE
        /\ UNCHANGED stored
  /\ UNCHANGED <<active, queued, cancelling, shuttingDown, slot, turnVars, cancelVars, hadTurn>>

\* The row is deleted, and the flag cleared unless an active turn will; or the
\* statement fails (the row may be gone already) and the flag is cleared.
DeleteRow(d) ==
  /\ dpc[d] = "row"
  /\ \/ /\ stored
        /\ stored' = FALSE
        /\ dpc' = [dpc EXCEPT ![d] = "done"]
        /\ deleting' = (deleting /\ hadTurn[d])
     \/ /\ ~stored \/ "db" \in Events
        /\ dpc' = [dpc EXCEPT ![d] = "failed"]
        /\ deleting' = FALSE
        /\ UNCHANGED stored
  /\ UNCHANGED <<active, queued, cancelling, shuttingDown, slot, turnVars, cancelVars, hadTurn>>

\* The server drops the handler at the await of the statement, which may or may
\* not have been executed: the deleting flag stays.
DropDelete(d) ==
  /\ "disconnect" \in Events
  /\ dpc[d] = "row"
  /\ dpc' = [dpc EXCEPT ![d] = "gone"]
  /\ stored' \in {stored, FALSE}
  /\ UNCHANGED <<flags, slot, turnVars, cancelVars, hadTurn>>

-----------------------------------------------------------------------------
(* Shutdown and the worker task manager *)

\* enforce_resident_capacity on behalf of another conversation, or the idle
\* scanner, kills an agent it found idle; the agent may have been sent a prompt
\* since.
EvictIdle ==
  /\ slot = "ready"
  /\ Kill
  /\ UNCHANGED <<stored, flags, pc, snapshot, outcome, continued, replayed, cancelVars, deleteVars>>

\* mark_shutting_down
Shutdown ==
  /\ "shutdown" \in Events
  /\ ~shuttingDown
  /\ shuttingDown' = TRUE
  /\ UNCHANGED <<stored, active, queued, deleting, cancelling, slot, turnVars, cancelVars, deleteVars>>

\* The worker task manager's clear, which kills the agents that are built.
ClearTasks ==
  /\ shuttingDown
  /\ slot # "none"
  /\ Kill
  /\ UNCHANGED <<stored, flags, pc, snapshot, outcome, continued, replayed, cancelVars, deleteVars>>

-----------------------------------------------------------------------------
(* Specification *)

\* Either the backend has just started, with the turns whose rows were still
\* queued to be restored (failed writes may leave several of a conversation),
\* or it serves requests and may hold an agent of an earlier turn.
Init ==
  /\ stored = TRUE
  /\ active = NoTurn /\ queued = NoTurn
  /\ deleting = FALSE /\ cancelling = FALSE /\ shuttingDown = FALSE
  /\ pc \in [Turns -> {"new", "restored"}]
  /\ slot \in {"none", "ready"} /\ (slot = "ready" => Serving)
  /\ handle = [t \in Turns |-> "none"]
  /\ snapshot = [t \in Turns |-> "active"]
  /\ outcome = [t \in Turns |-> "finish"]
  /\ continued = [t \in Turns |-> 0]
  /\ replayed = [t \in Turns |-> FALSE]
  /\ cpc = [k \in Cancels |-> "new"] /\ target = [k \in Cancels |-> NoTurn]
  /\ dpc = [d \in Deletes |-> "new"] /\ hadTurn = [d \in Deletes |-> FALSE]

Submit(t) == FetchConversation(t) \/ InsertMessage(t) \/ MarkQueued(t) \/ Enqueue(t)

Execute(t) ==
  \/ PermitRefused(t) \/ ClaimTurn(t) \/ PrepareTurn(t) \/ StartBuild(t) \/ FinishBuild(t)
  \/ Send(t) \/ Decide(t) \/ Evict(t) \/ Release(t)

Cancel(k) ==
  \/ ClearCancelled(k) \/ MarkCancelling(k) \/ SignalAgent(k) \/ DrainTimeout(k) \/ DrainKill(k)

Delete(d) == DeleteRequest(d) \/ MarkDeleting(d) \/ DeleteHook(d) \/ DeleteRow(d)

Next ==
  \/ \E t \in Turns : Submit(t) \/ Permit(t) \/ Execute(t) \/ Relay(t) \/ DropHandler(t)
  \/ \E k \in Cancels : Cancel(k) \/ DropCancel(k) \/ \E t \in Turns : CancelTurn(k, t)
  \/ \E d \in Deletes : Delete(d) \/ DropDelete(d)
  \/ Shutdown \/ ClearTasks \/ EvictIdle

Spec == Init /\ [][Next]_vars

\* The tasks of turns and cancel requests are polled and builds end. An agent
\* need not end its turn by itself: only the stream of a dead agent does end.
FairSpec ==
  /\ Spec
  /\ \A t \in Turns : WF_vars(Execute(t)) /\ WF_vars(handle[t] = "dead" /\ Relay(t))
  /\ \A k \in Cancels : WF_vars(Cancel(k))

-----------------------------------------------------------------------------
(* Properties *)

\* Exactly the turn that active_turns names is being executed, from its claim
\* to its release: cancels, deletes, drain kills and replays neither free the
\* conversation early nor leave it claimed.
TurnExclusive == \A t \in Turns : pc[t] \in Running <=> active = t

\* The queued marker, which makes the conversation reject every submission,
\* belongs to a turn that will remove it. Excepted are a dropped handler and a
\* claim refused by a delete that then fails: both leave it behind.
QueuedMarkerOwned ==
  \A t \in Turns : queued = t =>
    \/ pc[t] \in Pending
    \/ pc[t] = "gone"
    \/ ~stored \/ deleting \/ shuttingDown
    \/ \E d \in Deletes : dpc[d] = "failed"

\* The deleting flag, which makes the conversation reject every claim, is set
\* only while a delete is in progress, or until the turn that was active when
\* the delete began is released. A delete whose client went away leaves it.
DeletingFlagOwned ==
  deleting => \E d \in Deletes :
    dpc[d] \in {"hook", "row", "gone"} \/ (dpc[d] = "done" /\ hadTurn[d] /\ active # NoTurn)

\* A cancel that was acknowledged while the turn streams from its agent ends
\* the turn even if the agent ignores it, through continuations and failed
\* agents, unless a later cancel of the turn fails and takes the flag back.
CancelEndsTurn ==
  \A k \in Cancels, t \in Turns :
    (/\ cpc[k] = "drain" /\ target[k] = t /\ active = t /\ cancelling
     /\ pc[t] \in {"sending", "relay"} /\ handle[t] = "managed")
      ~> (active # t \/ ~cancelling)
=============================================================================
