----------------------- MODULE ConversationTurnsProofs -----------------------
(***************************************************************************)
(* Proofs about ConversationTurns, for every set of turns, cancel requests *)
(* and delete requests and every set of faults.                            *)
(***************************************************************************)
EXTENDS ConversationTurns, TLAPS

\* A turn the scheduler may still grant owns the queued marker, and the marker
\* is never set while a turn is active. A turn taken out of the scheduler by a
\* cancel cannot be granted any more.
MarkerInv ==
  /\ \A t \in Turns : pc[t] \in {"enqueue", "waiting", "granted"} => queued = t
  /\ \A k \in Cancels : cpc[k] = "clear" => target[k] \in Turns /\ pc[target[k]] \in {"refused", "done"}
  /\ queued # NoTurn => active = NoTurn

\* The deleting flag has an owner whose turn, if it saw one, is still active,
\* or was left by a delete whose handler was dropped.
DeletingInv ==
  deleting => \E d \in Deletes :
    \/ dpc[d] = "gone"
    \/ /\ dpc[d] \in {"hook", "row", "done"}
       /\ dpc[d] = "done" => hadTurn[d]
       /\ hadTurn[d] => active # NoTurn

IInv ==
  /\ TypeOK
  /\ TurnExclusive
  /\ MarkerInv
  /\ QueuedMarkerOwned
  /\ DeletingInv

-----------------------------------------------------------------------------
(* Every step preserves each part of the invariant *)

\* Every step preserves the type invariant.
LEMMA TypeStep ==
  ASSUME TypeOK, [Next]_vars
  PROVE  TypeOK'
<1> USE ContinuationsAssumption DEF TypeOK, Lifecycles, Submitting, Pending, Running, Outcomes, flags, turnVars, cancelVars, deleteVars
<1>1. ASSUME NEW t \in Turns, FetchConversation(t)
      PROVE  TypeOK'
  BY <1>1 DEF FetchConversation, Goto
<1>2. ASSUME NEW t \in Turns, InsertMessage(t)
      PROVE  TypeOK'
  BY <1>2 DEF InsertMessage, Goto
<1>3. ASSUME NEW t \in Turns, MarkQueued(t)
      PROVE  TypeOK'
  BY <1>3 DEF MarkQueued, Goto, MayQueue
<1>4. ASSUME NEW t \in Turns, Enqueue(t)
      PROVE  TypeOK'
  BY <1>4 DEF Enqueue, Goto, ClearQueued
<1>5. ASSUME NEW t \in Turns, Permit(t)
      PROVE  TypeOK'
  BY <1>5 DEF Permit, Goto
<1>6. ASSUME NEW t \in Turns, PermitRefused(t)
      PROVE  TypeOK'
  BY <1>6 DEF PermitRefused, Goto, ClearQueued
<1>7. ASSUME NEW t \in Turns, ClaimTurn(t)
      PROVE  TypeOK'
  BY <1>7 DEF ClaimTurn, Goto, ClearQueued
<1>8. ASSUME NEW t \in Turns, PrepareTurn(t)
      PROVE  TypeOK'
  BY <1>8 DEF PrepareTurn, Goto
<1>9. ASSUME NEW t \in Turns, StartBuild(t)
      PROVE  TypeOK'
  BY <1>9 DEF StartBuild, Goto
<1>10. ASSUME NEW t \in Turns, FinishBuild(t)
      PROVE  TypeOK'
  BY <1>10 DEF FinishBuild, Goto
<1>11. ASSUME NEW t \in Turns, Send(t)
      PROVE  TypeOK'
  BY <1>11 DEF Send, Goto, Lifecycle
<1>12. ASSUME NEW t \in Turns, Decide(t)
      PROVE  TypeOK'
  BY <1>12 DEF Decide, Goto
<1>13. ASSUME NEW t \in Turns, Evict(t)
      PROVE  TypeOK'
  BY <1>13 DEF Evict, Goto, KillAndWait, Killed
<1>14. ASSUME NEW t \in Turns, Release(t)
      PROVE  TypeOK'
  <2>1. 0 \in 0 .. MaxContinuations
    BY ContinuationsAssumption
  <2>2. /\ handle' \in [Turns -> {"none", "managed", "orphan", "doomed", "dead"}]
        /\ snapshot' \in [Turns -> Lifecycles]
        /\ outcome' \in [Turns -> Outcomes]
        /\ replayed' \in [Turns -> BOOLEAN]
    BY <1>14 DEF Release
  <2>3. /\ continued' \in [Turns -> 0 .. MaxContinuations]
        /\ pc' \in [Turns -> Submitting \union Pending \union Running \union {"done", "gone"}]
    BY <1>14, <2>1 DEF Release, Goto
  <2>4. active' \in Turns \union {NoTurn} /\ deleting' \in BOOLEAN /\ cancelling' \in BOOLEAN
    BY <1>14 DEF Release
  <2>5. QED
    BY <1>14, <2>2, <2>3, <2>4 DEF Release
<1>15. ASSUME NEW t \in Turns, Relay(t)
      PROVE  TypeOK'
  BY <1>15 DEF Relay, Goto, Continues
<1>16. ASSUME NEW t \in Turns, DropHandler(t)
      PROVE  TypeOK'
  BY <1>16 DEF DropHandler, Goto
<1>17. ASSUME NEW k \in Cancels, NEW t \in Turns, CancelTurn(k, t)
      PROVE  TypeOK'
  BY <1>17 DEF CancelTurn
<1>18. ASSUME NEW k \in Cancels, ClearCancelled(k)
      PROVE  TypeOK'
  BY <1>18 DEF ClearCancelled, ClearQueued
<1>19. ASSUME NEW k \in Cancels, MarkCancelling(k)
      PROVE  TypeOK'
  BY <1>19 DEF MarkCancelling
<1>20. ASSUME NEW k \in Cancels, SignalAgent(k)
      PROVE  TypeOK'
  BY <1>20 DEF SignalAgent
<1>21. ASSUME NEW k \in Cancels, DrainTimeout(k)
      PROVE  TypeOK'
  BY <1>21 DEF DrainTimeout
<1>22. ASSUME NEW k \in Cancels, DrainKill(k)
      PROVE  TypeOK'
  BY <1>22 DEF DrainKill, KillAndWait, Killed
<1>23. ASSUME NEW d \in Deletes, DeleteRequest(d)
      PROVE  TypeOK'
  BY <1>23 DEF DeleteRequest
<1>24. ASSUME NEW d \in Deletes, MarkDeleting(d)
      PROVE  TypeOK'
  BY <1>24 DEF MarkDeleting
<1>25. ASSUME NEW d \in Deletes, DeleteHook(d)
      PROVE  TypeOK'
  BY <1>25 DEF DeleteHook, Kill, Killed
<1>26. ASSUME NEW d \in Deletes, DeleteRow(d)
      PROVE  TypeOK'
  BY <1>26 DEF DeleteRow
<1>27. ASSUME Shutdown
      PROVE  TypeOK'
  BY <1>27 DEF Shutdown
<1>28. ASSUME ClearTasks
      PROVE  TypeOK'
  BY <1>28 DEF ClearTasks, Kill, Killed
<1>29. ASSUME NEW k \in Cancels, DropCancel(k)
      PROVE  TypeOK'
  BY <1>29 DEF DropCancel
<1>30. ASSUME NEW d \in Deletes, DropDelete(d)
      PROVE  TypeOK'
  BY <1>30 DEF DropDelete
<1>31. ASSUME EvictIdle
      PROVE  TypeOK'
  BY <1>31 DEF EvictIdle, Kill, Killed
<1>32. CASE UNCHANGED vars
  BY <1>32 DEF vars, flags, turnVars, cancelVars, deleteVars
<1>33. QED
  BY ONLY <1>1, <1>2, <1>3, <1>4, <1>5, <1>6, <1>7, <1>8, <1>9, <1>10, <1>11, <1>12, <1>13, <1>14, <1>15, <1>16, <1>17, <1>18, <1>19, <1>20, <1>21, <1>22, <1>23, <1>24, <1>25, <1>26, <1>27, <1>28, <1>29, <1>30, <1>31, <1>32, [Next]_vars DEF Next, Submit, Execute, Cancel, Delete

\* Every step preserves the agreement between active_turns and the tasks: only
\* try_claim_turn enters the running part of a task and only release leaves it.
LEMMA ExclusiveStep ==
  ASSUME TypeOK, TurnExclusive, [Next]_vars
  PROVE  TurnExclusive'
<1> USE TurnsAssumption DEF TurnExclusive, TypeOK, Submitting, Pending, Running, flags, turnVars, cancelVars, deleteVars
<1>1. ASSUME NEW t \in Turns, FetchConversation(t)
      PROVE  TurnExclusive'
  BY <1>1 DEF FetchConversation, Goto
<1>2. ASSUME NEW t \in Turns, InsertMessage(t)
      PROVE  TurnExclusive'
  BY <1>2 DEF InsertMessage, Goto
<1>3. ASSUME NEW t \in Turns, MarkQueued(t)
      PROVE  TurnExclusive'
  BY <1>3 DEF MarkQueued, Goto, MayQueue
<1>4. ASSUME NEW t \in Turns, Enqueue(t)
      PROVE  TurnExclusive'
  BY <1>4 DEF Enqueue, Goto, ClearQueued
<1>5. ASSUME NEW t \in Turns, Permit(t)
      PROVE  TurnExclusive'
  BY <1>5 DEF Permit, Goto
<1>6. ASSUME NEW t \in Turns, PermitRefused(t)
      PROVE  TurnExclusive'
  BY <1>6 DEF PermitRefused, Goto, ClearQueued
<1>7. ASSUME NEW t \in Turns, ClaimTurn(t)
      PROVE  TurnExclusive'
  BY <1>7 DEF ClaimTurn, Goto, ClearQueued
<1>8. ASSUME NEW t \in Turns, PrepareTurn(t)
      PROVE  TurnExclusive'
  BY <1>8 DEF PrepareTurn, Goto
<1>9. ASSUME NEW t \in Turns, StartBuild(t)
      PROVE  TurnExclusive'
  BY <1>9 DEF StartBuild, Goto
<1>10. ASSUME NEW t \in Turns, FinishBuild(t)
      PROVE  TurnExclusive'
  BY <1>10 DEF FinishBuild, Goto
<1>11. ASSUME NEW t \in Turns, Send(t)
      PROVE  TurnExclusive'
  BY <1>11 DEF Send, Goto, Lifecycle
<1>12. ASSUME NEW t \in Turns, Decide(t)
      PROVE  TurnExclusive'
  BY <1>12 DEF Decide, Goto
<1>13. ASSUME NEW t \in Turns, Evict(t)
      PROVE  TurnExclusive'
  BY <1>13 DEF Evict, Goto, KillAndWait, Killed
<1>14. ASSUME NEW t \in Turns, Release(t)
      PROVE  TurnExclusive'
  BY <1>14 DEF Release, Goto
<1>15. ASSUME NEW t \in Turns, Relay(t)
      PROVE  TurnExclusive'
  BY <1>15 DEF Relay, Goto, Continues
<1>16. ASSUME NEW t \in Turns, DropHandler(t)
      PROVE  TurnExclusive'
  BY <1>16 DEF DropHandler, Goto
<1>17. ASSUME NEW k \in Cancels, NEW t \in Turns, CancelTurn(k, t)
      PROVE  TurnExclusive'
  BY <1>17 DEF CancelTurn
<1>18. ASSUME NEW k \in Cancels, ClearCancelled(k)
      PROVE  TurnExclusive'
  BY <1>18 DEF ClearCancelled, ClearQueued
<1>19. ASSUME NEW k \in Cancels, MarkCancelling(k)
      PROVE  TurnExclusive'
  BY <1>19 DEF MarkCancelling
<1>20. ASSUME NEW k \in Cancels, SignalAgent(k)
      PROVE  TurnExclusive'
  BY <1>20 DEF SignalAgent
<1>21. ASSUME NEW k \in Cancels, DrainTimeout(k)
      PROVE  TurnExclusive'
  BY <1>21 DEF DrainTimeout
<1>22. ASSUME NEW k \in Cancels, DrainKill(k)
      PROVE  TurnExclusive'
  BY <1>22 DEF DrainKill, KillAndWait, Killed
<1>23. ASSUME NEW d \in Deletes, DeleteRequest(d)
      PROVE  TurnExclusive'
  BY <1>23 DEF DeleteRequest
<1>24. ASSUME NEW d \in Deletes, MarkDeleting(d)
      PROVE  TurnExclusive'
  BY <1>24 DEF MarkDeleting
<1>25. ASSUME NEW d \in Deletes, DeleteHook(d)
      PROVE  TurnExclusive'
  BY <1>25 DEF DeleteHook, Kill, Killed
<1>26. ASSUME NEW d \in Deletes, DeleteRow(d)
      PROVE  TurnExclusive'
  BY <1>26 DEF DeleteRow
<1>27. ASSUME Shutdown
      PROVE  TurnExclusive'
  BY <1>27 DEF Shutdown
<1>28. ASSUME ClearTasks
      PROVE  TurnExclusive'
  BY <1>28 DEF ClearTasks, Kill, Killed
<1>29. ASSUME NEW k \in Cancels, DropCancel(k)
      PROVE  TurnExclusive'
  BY <1>29 DEF DropCancel
<1>30. ASSUME NEW d \in Deletes, DropDelete(d)
      PROVE  TurnExclusive'
  BY <1>30 DEF DropDelete
<1>31. ASSUME EvictIdle
      PROVE  TurnExclusive'
  BY <1>31 DEF EvictIdle, Kill, Killed
<1>32. CASE UNCHANGED vars
  BY <1>32 DEF vars, flags, turnVars, cancelVars, deleteVars
<1>33. QED
  BY ONLY <1>1, <1>2, <1>3, <1>4, <1>5, <1>6, <1>7, <1>8, <1>9, <1>10, <1>11, <1>12, <1>13, <1>14, <1>15, <1>16, <1>17, <1>18, <1>19, <1>20, <1>21, <1>22, <1>23, <1>24, <1>25, <1>26, <1>27, <1>28, <1>29, <1>30, <1>31, <1>32, [Next]_vars DEF Next, Submit, Execute, Cancel, Delete

\* Every step preserves the ownership of the marker by grantable turns.
LEMMA MarkerStep ==
  ASSUME TypeOK, TurnExclusive, MarkerInv, [Next]_vars
  PROVE  MarkerInv'
<1> USE TurnsAssumption DEF MarkerInv, TurnExclusive, TypeOK, Submitting, Pending, Running, flags, turnVars, cancelVars, deleteVars
<1>1. ASSUME NEW t \in Turns, FetchConversation(t)
      PROVE  MarkerInv'
  BY <1>1 DEF FetchConversation, Goto
<1>2. ASSUME NEW t \in Turns, InsertMessage(t)
      PROVE  MarkerInv'
  BY <1>2 DEF InsertMessage, Goto
<1>3. ASSUME NEW t \in Turns, MarkQueued(t)
      PROVE  MarkerInv'
  BY <1>3 DEF MarkQueued, Goto, MayQueue
<1>4. ASSUME NEW t \in Turns, Enqueue(t)
      PROVE  MarkerInv'
  BY <1>4 DEF Enqueue, Goto, ClearQueued
<1>5. ASSUME NEW t \in Turns, Permit(t)
      PROVE  MarkerInv'
  BY <1>5 DEF Permit, Goto
<1>6. ASSUME NEW t \in Turns, PermitRefused(t)
      PROVE  MarkerInv'
  BY <1>6 DEF PermitRefused, Goto, ClearQueued
<1>7. ASSUME NEW t \in Turns, ClaimTurn(t)
      PROVE  MarkerInv'
  BY <1>7 DEF ClaimTurn, Goto, ClearQueued
<1>8. ASSUME NEW t \in Turns, PrepareTurn(t)
      PROVE  MarkerInv'
  BY <1>8 DEF PrepareTurn, Goto
<1>9. ASSUME NEW t \in Turns, StartBuild(t)
      PROVE  MarkerInv'
  BY <1>9 DEF StartBuild, Goto
<1>10. ASSUME NEW t \in Turns, FinishBuild(t)
      PROVE  MarkerInv'
  BY <1>10 DEF FinishBuild, Goto
<1>11. ASSUME NEW t \in Turns, Send(t)
      PROVE  MarkerInv'
  BY <1>11 DEF Send, Goto, Lifecycle
<1>12. ASSUME NEW t \in Turns, Decide(t)
      PROVE  MarkerInv'
  BY <1>12 DEF Decide, Goto
<1>13. ASSUME NEW t \in Turns, Evict(t)
      PROVE  MarkerInv'
  BY <1>13 DEF Evict, Goto, KillAndWait, Killed
<1>14. ASSUME NEW t \in Turns, Release(t)
      PROVE  MarkerInv'
  BY <1>14 DEF Release, Goto
<1>15. ASSUME NEW t \in Turns, Relay(t)
      PROVE  MarkerInv'
  BY <1>15 DEF Relay, Goto, Continues
<1>16. ASSUME NEW t \in Turns, DropHandler(t)
      PROVE  MarkerInv'
  BY <1>16 DEF DropHandler, Goto
<1>17. ASSUME NEW k \in Cancels, NEW t \in Turns, CancelTurn(k, t)
      PROVE  MarkerInv'
  BY <1>17 DEF CancelTurn
<1>18. ASSUME NEW k \in Cancels, ClearCancelled(k)
      PROVE  MarkerInv'
  BY <1>18 DEF ClearCancelled, ClearQueued
<1>19. ASSUME NEW k \in Cancels, MarkCancelling(k)
      PROVE  MarkerInv'
  BY <1>19 DEF MarkCancelling
<1>20. ASSUME NEW k \in Cancels, SignalAgent(k)
      PROVE  MarkerInv'
  BY <1>20 DEF SignalAgent
<1>21. ASSUME NEW k \in Cancels, DrainTimeout(k)
      PROVE  MarkerInv'
  BY <1>21 DEF DrainTimeout
<1>22. ASSUME NEW k \in Cancels, DrainKill(k)
      PROVE  MarkerInv'
  BY <1>22 DEF DrainKill, KillAndWait, Killed
<1>23. ASSUME NEW d \in Deletes, DeleteRequest(d)
      PROVE  MarkerInv'
  BY <1>23 DEF DeleteRequest
<1>24. ASSUME NEW d \in Deletes, MarkDeleting(d)
      PROVE  MarkerInv'
  BY <1>24 DEF MarkDeleting
<1>25. ASSUME NEW d \in Deletes, DeleteHook(d)
      PROVE  MarkerInv'
  BY <1>25 DEF DeleteHook, Kill, Killed
<1>26. ASSUME NEW d \in Deletes, DeleteRow(d)
      PROVE  MarkerInv'
  BY <1>26 DEF DeleteRow
<1>27. ASSUME Shutdown
      PROVE  MarkerInv'
  BY <1>27 DEF Shutdown
<1>28. ASSUME ClearTasks
      PROVE  MarkerInv'
  BY <1>28 DEF ClearTasks, Kill, Killed
<1>29. ASSUME NEW k \in Cancels, DropCancel(k)
      PROVE  MarkerInv'
  BY <1>29 DEF DropCancel
<1>30. ASSUME NEW d \in Deletes, DropDelete(d)
      PROVE  MarkerInv'
  BY <1>30 DEF DropDelete
<1>31. ASSUME EvictIdle
      PROVE  MarkerInv'
  BY <1>31 DEF EvictIdle, Kill, Killed
<1>32. CASE UNCHANGED vars
  BY <1>32 DEF vars, flags, turnVars, cancelVars, deleteVars
<1>33. QED
  BY ONLY <1>1, <1>2, <1>3, <1>4, <1>5, <1>6, <1>7, <1>8, <1>9, <1>10, <1>11, <1>12, <1>13, <1>14, <1>15, <1>16, <1>17, <1>18, <1>19, <1>20, <1>21, <1>22, <1>23, <1>24, <1>25, <1>26, <1>27, <1>28, <1>29, <1>30, <1>31, <1>32, [Next]_vars DEF Next, Submit, Execute, Cancel, Delete

\* Every step preserves QueuedMarkerOwned. A refused claim needs MarkerInv: the
\* conversation cannot be busy then, so it is being deleted or shut down.
LEMMA QueuedStep ==
  ASSUME TypeOK, TurnExclusive, MarkerInv, QueuedMarkerOwned, [Next]_vars
  PROVE  QueuedMarkerOwned'
<1> USE TurnsAssumption DEF QueuedMarkerOwned, MarkerInv, TurnExclusive, TypeOK, Submitting, Pending, Running, flags, turnVars, cancelVars, deleteVars
<1>1. ASSUME NEW t \in Turns, FetchConversation(t)
      PROVE  QueuedMarkerOwned'
  BY <1>1 DEF FetchConversation, Goto
<1>2. ASSUME NEW t \in Turns, InsertMessage(t)
      PROVE  QueuedMarkerOwned'
  BY <1>2 DEF InsertMessage, Goto
<1>3. ASSUME NEW t \in Turns, MarkQueued(t)
      PROVE  QueuedMarkerOwned'
  BY <1>3 DEF MarkQueued, Goto, MayQueue
<1>4. ASSUME NEW t \in Turns, Enqueue(t)
      PROVE  QueuedMarkerOwned'
  BY <1>4 DEF Enqueue, Goto, ClearQueued
<1>5. ASSUME NEW t \in Turns, Permit(t)
      PROVE  QueuedMarkerOwned'
  BY <1>5 DEF Permit, Goto
<1>6. ASSUME NEW t \in Turns, PermitRefused(t)
      PROVE  QueuedMarkerOwned'
  BY <1>6 DEF PermitRefused, Goto, ClearQueued
<1>7. ASSUME NEW t \in Turns, ClaimTurn(t)
      PROVE  QueuedMarkerOwned'
  BY <1>7 DEF ClaimTurn, Goto, ClearQueued
<1>8. ASSUME NEW t \in Turns, PrepareTurn(t)
      PROVE  QueuedMarkerOwned'
  BY <1>8 DEF PrepareTurn, Goto
<1>9. ASSUME NEW t \in Turns, StartBuild(t)
      PROVE  QueuedMarkerOwned'
  BY <1>9 DEF StartBuild, Goto
<1>10. ASSUME NEW t \in Turns, FinishBuild(t)
      PROVE  QueuedMarkerOwned'
  BY <1>10 DEF FinishBuild, Goto
<1>11. ASSUME NEW t \in Turns, Send(t)
      PROVE  QueuedMarkerOwned'
  BY <1>11 DEF Send, Goto, Lifecycle
<1>12. ASSUME NEW t \in Turns, Decide(t)
      PROVE  QueuedMarkerOwned'
  BY <1>12 DEF Decide, Goto
<1>13. ASSUME NEW t \in Turns, Evict(t)
      PROVE  QueuedMarkerOwned'
  BY <1>13 DEF Evict, Goto, KillAndWait, Killed
<1>14. ASSUME NEW t \in Turns, Release(t)
      PROVE  QueuedMarkerOwned'
  BY <1>14 DEF Release, Goto
<1>15. ASSUME NEW t \in Turns, Relay(t)
      PROVE  QueuedMarkerOwned'
  BY <1>15 DEF Relay, Goto, Continues
<1>16. ASSUME NEW t \in Turns, DropHandler(t)
      PROVE  QueuedMarkerOwned'
  BY <1>16 DEF DropHandler, Goto
<1>17. ASSUME NEW k \in Cancels, NEW t \in Turns, CancelTurn(k, t)
      PROVE  QueuedMarkerOwned'
  BY <1>17 DEF CancelTurn
<1>18. ASSUME NEW k \in Cancels, ClearCancelled(k)
      PROVE  QueuedMarkerOwned'
  BY <1>18 DEF ClearCancelled, ClearQueued
<1>19. ASSUME NEW k \in Cancels, MarkCancelling(k)
      PROVE  QueuedMarkerOwned'
  BY <1>19 DEF MarkCancelling
<1>20. ASSUME NEW k \in Cancels, SignalAgent(k)
      PROVE  QueuedMarkerOwned'
  BY <1>20 DEF SignalAgent
<1>21. ASSUME NEW k \in Cancels, DrainTimeout(k)
      PROVE  QueuedMarkerOwned'
  BY <1>21 DEF DrainTimeout
<1>22. ASSUME NEW k \in Cancels, DrainKill(k)
      PROVE  QueuedMarkerOwned'
  BY <1>22 DEF DrainKill, KillAndWait, Killed
<1>23. ASSUME NEW d \in Deletes, DeleteRequest(d)
      PROVE  QueuedMarkerOwned'
  BY <1>23 DEF DeleteRequest
<1>24. ASSUME NEW d \in Deletes, MarkDeleting(d)
      PROVE  QueuedMarkerOwned'
  BY <1>24 DEF MarkDeleting
<1>25. ASSUME NEW d \in Deletes, DeleteHook(d)
      PROVE  QueuedMarkerOwned'
  BY <1>25 DEF DeleteHook, Kill, Killed
<1>26. ASSUME NEW d \in Deletes, DeleteRow(d)
      PROVE  QueuedMarkerOwned'
  BY <1>26 DEF DeleteRow
<1>27. ASSUME Shutdown
      PROVE  QueuedMarkerOwned'
  BY <1>27 DEF Shutdown
<1>28. ASSUME ClearTasks
      PROVE  QueuedMarkerOwned'
  BY <1>28 DEF ClearTasks, Kill, Killed
<1>29. ASSUME NEW k \in Cancels, DropCancel(k)
      PROVE  QueuedMarkerOwned'
  BY <1>29 DEF DropCancel
<1>30. ASSUME NEW d \in Deletes, DropDelete(d)
      PROVE  QueuedMarkerOwned'
  <2>1. ~stored => ~stored'
    BY <1>30 DEF DropDelete
  <2>2. \A e \in Deletes : dpc[e] = "failed" => dpc'[e] = "failed"
    BY <1>30 DEF DropDelete
  <2>3. UNCHANGED <<queued, pc, deleting, shuttingDown>>
    BY <1>30 DEF DropDelete
  <2>4. QED
    BY <2>1, <2>2, <2>3
<1>31. ASSUME EvictIdle
      PROVE  QueuedMarkerOwned'
  BY <1>31 DEF EvictIdle, Kill, Killed
<1>32. CASE UNCHANGED vars
  BY <1>32 DEF vars, flags, turnVars, cancelVars, deleteVars
<1>33. QED
  BY ONLY <1>1, <1>2, <1>3, <1>4, <1>5, <1>6, <1>7, <1>8, <1>9, <1>10, <1>11, <1>12, <1>13, <1>14, <1>15, <1>16, <1>17, <1>18, <1>19, <1>20, <1>21, <1>22, <1>23, <1>24, <1>25, <1>26, <1>27, <1>28, <1>29, <1>30, <1>31, <1>32, [Next]_vars DEF Next, Submit, Execute, Cancel, Delete

\* Every step preserves DeletingInv: a release that ends the turn an owner saw
\* also clears the flag, and no turn is claimed while the flag is set.
LEMMA DeletingStep ==
  ASSUME TypeOK, TurnExclusive, DeletingInv, [Next]_vars
  PROVE  DeletingInv'
<1> USE TurnsAssumption DEF DeletingInv, TurnExclusive, TypeOK, Submitting, Pending, Running, flags, turnVars, cancelVars, deleteVars
<1>1. ASSUME NEW t \in Turns, FetchConversation(t)
      PROVE  DeletingInv'
  BY <1>1 DEF FetchConversation, Goto
<1>2. ASSUME NEW t \in Turns, InsertMessage(t)
      PROVE  DeletingInv'
  BY <1>2 DEF InsertMessage, Goto
<1>3. ASSUME NEW t \in Turns, MarkQueued(t)
      PROVE  DeletingInv'
  BY <1>3 DEF MarkQueued, Goto, MayQueue
<1>4. ASSUME NEW t \in Turns, Enqueue(t)
      PROVE  DeletingInv'
  BY <1>4 DEF Enqueue, Goto, ClearQueued
<1>5. ASSUME NEW t \in Turns, Permit(t)
      PROVE  DeletingInv'
  BY <1>5 DEF Permit, Goto
<1>6. ASSUME NEW t \in Turns, PermitRefused(t)
      PROVE  DeletingInv'
  BY <1>6 DEF PermitRefused, Goto, ClearQueued
<1>7. ASSUME NEW t \in Turns, ClaimTurn(t)
      PROVE  DeletingInv'
  BY <1>7 DEF ClaimTurn, Goto, ClearQueued
<1>8. ASSUME NEW t \in Turns, PrepareTurn(t)
      PROVE  DeletingInv'
  BY <1>8 DEF PrepareTurn, Goto
<1>9. ASSUME NEW t \in Turns, StartBuild(t)
      PROVE  DeletingInv'
  BY <1>9 DEF StartBuild, Goto
<1>10. ASSUME NEW t \in Turns, FinishBuild(t)
      PROVE  DeletingInv'
  BY <1>10 DEF FinishBuild, Goto
<1>11. ASSUME NEW t \in Turns, Send(t)
      PROVE  DeletingInv'
  BY <1>11 DEF Send, Goto, Lifecycle
<1>12. ASSUME NEW t \in Turns, Decide(t)
      PROVE  DeletingInv'
  BY <1>12 DEF Decide, Goto
<1>13. ASSUME NEW t \in Turns, Evict(t)
      PROVE  DeletingInv'
  BY <1>13 DEF Evict, Goto, KillAndWait, Killed
<1>14. ASSUME NEW t \in Turns, Release(t)
      PROVE  DeletingInv'
  BY <1>14 DEF Release, Goto
<1>15. ASSUME NEW t \in Turns, Relay(t)
      PROVE  DeletingInv'
  BY <1>15 DEF Relay, Goto, Continues
<1>16. ASSUME NEW t \in Turns, DropHandler(t)
      PROVE  DeletingInv'
  BY <1>16 DEF DropHandler, Goto
<1>17. ASSUME NEW k \in Cancels, NEW t \in Turns, CancelTurn(k, t)
      PROVE  DeletingInv'
  BY <1>17 DEF CancelTurn
<1>18. ASSUME NEW k \in Cancels, ClearCancelled(k)
      PROVE  DeletingInv'
  BY <1>18 DEF ClearCancelled, ClearQueued
<1>19. ASSUME NEW k \in Cancels, MarkCancelling(k)
      PROVE  DeletingInv'
  BY <1>19 DEF MarkCancelling
<1>20. ASSUME NEW k \in Cancels, SignalAgent(k)
      PROVE  DeletingInv'
  BY <1>20 DEF SignalAgent
<1>21. ASSUME NEW k \in Cancels, DrainTimeout(k)
      PROVE  DeletingInv'
  BY <1>21 DEF DrainTimeout
<1>22. ASSUME NEW k \in Cancels, DrainKill(k)
      PROVE  DeletingInv'
  BY <1>22 DEF DrainKill, KillAndWait, Killed
<1>23. ASSUME NEW d \in Deletes, DeleteRequest(d)
      PROVE  DeletingInv'
  BY <1>23 DEF DeleteRequest
<1>24. ASSUME NEW d \in Deletes, MarkDeleting(d)
      PROVE  DeletingInv'
  BY <1>24 DEF MarkDeleting
<1>25. ASSUME NEW d \in Deletes, DeleteHook(d)
      PROVE  DeletingInv'
  BY <1>25 DEF DeleteHook, Kill, Killed
<1>26. ASSUME NEW d \in Deletes, DeleteRow(d)
      PROVE  DeletingInv'
  <2>1. CASE deleting' = (deleting /\ hadTurn[d]) /\ dpc' = [dpc EXCEPT ![d] = "done"]
    <3> SUFFICES ASSUME deleting, hadTurn[d]
                 PROVE  DeletingInv'
      BY <2>1
    <3>1. PICK e \in Deletes : \/ dpc[e] = "gone"
                              \/ /\ dpc[e] \in {"hook", "row", "done"}
                                 /\ dpc[e] = "done" => hadTurn[e]
                                 /\ hadTurn[e] => active # NoTurn
      OBVIOUS
    <3>2. active' = active /\ hadTurn' = hadTurn /\ dpc[d] = "row"
      BY <1>26 DEF DeleteRow
    <3>3. QED
      BY <2>1, <3>1, <3>2
  <2>2. CASE deleting' = FALSE
    BY <2>2
  <2>3. QED
    BY <1>26, <2>1, <2>2 DEF DeleteRow
<1>27. ASSUME Shutdown
      PROVE  DeletingInv'
  BY <1>27 DEF Shutdown
<1>28. ASSUME ClearTasks
      PROVE  DeletingInv'
  BY <1>28 DEF ClearTasks, Kill, Killed
<1>29. ASSUME NEW k \in Cancels, DropCancel(k)
      PROVE  DeletingInv'
  BY <1>29 DEF DropCancel
<1>30. ASSUME NEW d \in Deletes, DropDelete(d)
      PROVE  DeletingInv'
  BY <1>30 DEF DropDelete
<1>31. ASSUME EvictIdle
      PROVE  DeletingInv'
  BY <1>31 DEF EvictIdle, Kill, Killed
<1>32. CASE UNCHANGED vars
  BY <1>32 DEF vars, flags, turnVars, cancelVars, deleteVars
<1>33. QED
  BY ONLY <1>1, <1>2, <1>3, <1>4, <1>5, <1>6, <1>7, <1>8, <1>9, <1>10, <1>11, <1>12, <1>13, <1>14, <1>15, <1>16, <1>17, <1>18, <1>19, <1>20, <1>21, <1>22, <1>23, <1>24, <1>25, <1>26, <1>27, <1>28, <1>29, <1>30, <1>31, <1>32, [Next]_vars DEF Next, Submit, Execute, Cancel, Delete

-----------------------------------------------------------------------------
(* Theorems *)

\* The invariant holds initially.
LEMMA InvInit == Init => IInv
<1> SUFFICES ASSUME Init PROVE IInv
  OBVIOUS
<1> USE DEF Init
<1>1. TypeOK
  <2>1. 0 \in 0 .. MaxContinuations
    BY ContinuationsAssumption
  <2>2. pc \in [Turns -> Submitting \union Pending \union Running \union {"done", "gone"}]
    BY DEF Submitting
  <2>3. QED
    BY <2>1, <2>2 DEF TypeOK, Lifecycles, Outcomes
<1>2. TurnExclusive
  BY TurnsAssumption DEF TurnExclusive, Running
<1>3. MarkerInv /\ QueuedMarkerOwned
  BY TurnsAssumption DEF MarkerInv, QueuedMarkerOwned
<1>4. DeletingInv
  BY DEF DeletingInv
<1>5. QED
  BY <1>1, <1>2, <1>3, <1>4 DEF IInv

\* The invariant is inductive.
LEMMA InvStep == IInv /\ [Next]_vars => IInv'
BY TypeStep, ExclusiveStep, MarkerStep, QueuedStep, DeletingStep DEF IInv

\* The invariant holds in every reachable state.
THEOREM Invariance == Spec => []IInv
BY InvInit, InvStep, PTL DEF Spec

\* The maps of ConversationRuntimeState and the locals of the tasks keep their
\* types; in particular no turn is continued more often than the limit.
THEOREM TurnsTypeCorrect == Spec => []TypeOK
<1>1. IInv => TypeOK
  BY DEF IInv
<1>2. QED
  BY <1>1, Invariance, PTL

\* At most one turn of a conversation is executed at a time, and active_turns
\* names it, whatever cancels, deletes, replays and faults interleave.
THEOREM OneTurnAtATime == Spec => []TurnExclusive
<1>1. IInv => TurnExclusive
  BY DEF IInv
<1>2. QED
  BY <1>1, Invariance, PTL

\* The queued marker is left behind only in the cases QueuedMarkerOwned names.
THEOREM QueuedMarkerIsOwned == Spec => []QueuedMarkerOwned
<1>1. IInv => QueuedMarkerOwned
  BY DEF IInv
<1>2. QED
  BY <1>1, Invariance, PTL

\* The deleting flag never outlives the deletes and the turn it belongs to.
THEOREM DeletingFlagIsOwned == Spec => []DeletingFlagOwned
<1>1. IInv => DeletingFlagOwned
  BY DEF IInv, DeletingInv, DeletingFlagOwned
<1>2. QED
  BY <1>1, Invariance, PTL
=============================================================================
