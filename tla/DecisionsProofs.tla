--------------------------- MODULE DecisionsProofs ---------------------------
(***************************************************************************)
(* Theorems about Decisions, for every set of brains and requests, every   *)
(* workload and any number of sessions.                                    *)
(***************************************************************************)
EXTENDS Decisions, TLAPS

(* The type invariant, by groups of variables *)

RowsOK ==
  /\ status \in {"draft", "running", "paused", "completed", "cancelled", "failed"}
  /\ bstate \in [Brains -> {"pending", "running", "completed", "failed", "cancelled"}]
  /\ opinions \in [Brains -> Nat] /\ resolution \in {"none", "partial", "full"}

KnownOK ==
  /\ consents \in Seq(BOOLEAN) /\ evidence \subseteq Evidence(Bundles)
  /\ ctx \in [Sessions -> [evidence : SUBSET Evidence(Bundles), latest : Bundles \cup {0}]]
  /\ sentOut \subseteq Bundles \X (Bundles \cup {0})

SessionsOK ==
  /\ revision \in 0..MaxSessions /\ active \in 0..revision /\ rgen \in [Requests -> 0..revision]
  /\ control \in [Sessions -> {"running", "paused", "cancelled"}]
  /\ lock \in Requests \cup {Free} /\ up \in {"up", "down", "half"}
  /\ faults \in 0..2 /\ crashes \in 0..2

TaskPCs    == {"none", "load", "brains", "read", "fail", "finish", "error", "errorfail", "leave"}
RequestPCs == {"new", "lock", "entry", "refresh", "begin", "write", "insert", "spawn",
               "signal", "status", "brains", "done"}
Runs       == [pc : {"mark", "try", "won", "lost", "paused", "cancelled", "over"},
               attempt : 0..3, where : Locations]

CountersOK ==
  /\ tpc \in [Sessions -> TaskPCs] /\ bpc \in [Sessions -> [Brains -> Runs]]
  /\ rpc \in [Requests -> RequestPCs]
  /\ cancelled \in BOOLEAN /\ overtaken \in BOOLEAN /\ abandoned \in BOOLEAN

(* The rest of the inductive invariant *)

\* A launch holds the lock from its look at active_runs to its spawn, and
\* nobody else has an entry or a task meanwhile.
LaunchInv ==
  \A r \in Requests :
    /\ rpc[r] \in {"entry", "refresh", "begin", "write", "insert", "spawn"} => lock = r
    /\ rpc[r] \in {"refresh", "begin", "write", "insert"} => active = 0
    /\ rpc[r] = "insert" => rgen[r] # 0
    /\ rpc[r] = "spawn" => rgen[r] # 0 /\ active = rgen[r] /\ \A g \in Sessions : tpc[g] = "none"

\* Only the session in active_runs has a task, and only a task runs brains.
TaskInv ==
  \A g \in Sessions :
    /\ tpc[g] # "none" => active = g
    /\ \A b \in Brains : bpc[g][b].pc # "over" => tpc[g] = "brains"

\* A brain that is being asked has no opinion.
AskedInv == \A g \in Sessions : \A b \in Brains : bpc[g][b].pc # "over" => bstate[b] # "completed"

\* Beside a cancel that stays nothing is left that would overwrite it.
CancelInv ==
  cancelled /\ ~overtaken =>
    /\ status = "cancelled"
    /\ \A g \in Sessions : tpc[g] \notin {"fail", "finish", "errorfail"}
    /\ \A q \in Requests : rpc[q] # "write" /\ (rpc[q] \in {"signal", "status"} => Kind(q) = "cancel")

\* The lineage of a piece of evidence names every bundle whose text is in it.
Sound(e) ==
  /\ e.origin = "user" => e.contents = {}
  /\ e.origin = "knowledge" => e.contents \subseteq {e.bundle}
  /\ e.contents \subseteq e.lineage
SoundInv ==
  /\ \A e \in evidence : Sound(e)
  /\ \A g \in Sessions : \A e \in ctx[g].evidence : Sound(e)

IInv ==
  /\ scn \in Scenarios
  /\ RowsOK /\ KnownOK /\ SessionsOK /\ CountersOK
  /\ LaunchInv /\ TaskInv /\ AskedInv /\ OneOpinion /\ CancelInv /\ SoundInv /\ ConsentKept

-----------------------------------------------------------------------------
(* Types and the initial states *)

\* The groups make up the type invariant.
LEMMA TypeParts == RowsOK /\ KnownOK /\ SessionsOK /\ CountersOK => TypeOK
BY DEF RowsOK, KnownOK, SessionsOK, CountersOK, TypeOK, TaskPCs, RequestPCs, Runs

\* What the type of the workloads says of the chosen one
LEMMA ScenarioTypes ==
  ASSUME scn \in Scenarios
  PROVE  /\ scn.faults \in 0..2 /\ scn.crashes \in 0..2
         /\ scn.consent \subseteq BOOLEAN /\ scn.stored \subseteq BOOLEAN
         /\ \A b \in Brains : scn.where[b] \subseteq Locations
         /\ \A r \in Requests : Kind(r) \in Kinds
BY DecisionAssumption DEF Workloads, Kind

\* The hits of a bundle and the note of the user are evidence with a complete
\* lineage.
LEMMA HitsType ==
  ASSUME NEW n \in Nat \ {0}, NEW yes \in BOOLEAN, NEW B, n \in B
  PROVE  Hits(n, yes) \in Evidence(B) /\ Sound(Hits(n, yes))
BY DEF Hits, Evidence, Sound, Locations

LEMMA NoteType ==
  ASSUME NEW B
  PROVE  UserNote \in Evidence(B) /\ Sound(UserNote)
BY DEF UserNote, Evidence, Sound, Locations

\* The invariant holds at the start.
LEMMA InitIInv == Init => IInv
<1> SUFFICES ASSUME Init PROVE IInv
  OBVIOUS
<1>1. scn \in Scenarios
  BY DEF Init
<1>2. RowsOK
  BY DEF Init, RowsOK
<1>3. consents \in Seq(BOOLEAN) /\ evidence \subseteq Evidence(Bundles) /\ \A e \in evidence : Sound(e)
  <2>1. CASE consents = <<>> /\ evidence = {UserNote}
    BY <2>1, NoteType
  <2>2. ASSUME NEW yes \in scn.stored, consents = <<yes>>, evidence = {UserNote, Hits(1, yes)}
        PROVE  consents \in Seq(BOOLEAN) /\ evidence \subseteq Evidence(Bundles) /\ \A e \in evidence : Sound(e)
    <3>1. yes \in BOOLEAN
      BY <1>1, ScenarioTypes
    <3>2. consents \in Seq(BOOLEAN) /\ 1 \in Bundles
      BY <2>2, <3>1 DEF Bundles
    <3>3. Hits(1, yes) \in Evidence(Bundles) /\ Sound(Hits(1, yes))
      BY <3>1, <3>2, HitsType
    <3> QED
      BY <2>2, <3>2, <3>3, NoteType
  <2> QED
    BY <2>1, <2>2 DEF Init
<1>4. KnownOK
  BY <1>3 DEF Init, KnownOK, NoContext
<1>5. SessionsOK
  BY <1>1, ScenarioTypes, DecisionAssumption DEF Init, SessionsOK
<1>6. CountersOK
  <2>1. NoRun \in Runs
    BY DEF NoRun, Runs, Locations
  <2>2. bpc \in [Sessions -> [Brains -> Runs]]
    BY <2>1 DEF Init
  <2> QED
    BY <2>2 DEF Init, CountersOK, TaskPCs, RequestPCs
<1>7. LaunchInv /\ TaskInv /\ AskedInv
  BY DEF Init, LaunchInv, TaskInv, AskedInv, NoRun
<1>8. OneOpinion /\ CancelInv /\ ConsentKept
  BY DEF Init, OneOpinion, CancelInv, ConsentKept
<1>9. SoundInv
  BY <1>3 DEF Init, SoundInv, NoContext
<1> QED
  BY <1>1, <1>2, <1>4, <1>5, <1>6, <1>7, <1>8, <1>9 DEF IInv

-----------------------------------------------------------------------------
(* The rows: status, states and opinions of the brains *)

\* Every statement writes values of the types of the rows.
LEMMA RowsStep ==
  ASSUME IInv, Next
  PROVE  RowsOK'
<1> USE DEF IInv, RowsOK
<1>1. ASSUME NEW r \in Requests, BeginWrite(r) PROVE RowsOK'
  BY <1>1 DEF BeginWrite
<1>2. ASSUME NEW r \in Requests, StopStatus(r) PROVE RowsOK'
  BY <1>2 DEF StopStatus, Wanted
<1>3. ASSUME NEW r \in Requests, StopBrains(r) PROVE RowsOK'
  BY <1>3 DEF StopBrains
<1>4. ASSUME NEW g \in Sessions, NEW b \in Brains, BrainMark(g, b) \/ BrainWins(g, b) \/ BrainGivesUp(g, b)
      PROVE  RowsOK'
  BY <1>4 DEF BrainMark, BrainWins, BrainGivesUp
<1>5. ASSUME NEW g \in Sessions, SessionFail(g) \/ SessionFinish(g) PROVE RowsOK'
  BY <1>5 DEF SessionFail, SessionFinish
<1>6. CASE RecoverDecision
  BY <1>6 DEF RecoverDecision
<1>7. CASE RecoverBrains
  BY <1>7 DEF RecoverBrains
<1>8. ASSUME UNCHANGED <<status, bstate, opinions, resolution>> PROVE RowsOK'
  BY <1>8
<1> HIDE DEF IInv, RowsOK
<1>9. ASSUME NEW r \in Requests, Request(r) \/ RequestAborts(r) PROVE RowsOK'
  BY <1>1, <1>2, <1>3, <1>8, <1>9
  DEF Request, StartRead, ContinueRead, LaunchLock, LaunchEntry, LaunchRefresh, BeginCheck, LaunchInsert,
      LaunchSpawn, StopRead, StopSignal, RefreshKnowledge, RequestAborts, rows
<1>10. ASSUME NEW g \in Sessions, SessionStep(g) \/ SessionError(g) \/ SessionGivesUp(g) PROVE RowsOK'
  BY <1>5, <1>8, <1>10
  DEF SessionStep, SessionLoad, SessionJoin, SessionRead, SessionError, SessionErrorRead, SessionGivesUp,
      SessionLeave, rows
<1>11. ASSUME NEW g \in Sessions, NEW b \in Brains, BrainStep(g, b) \/ BrainError(g, b) PROVE RowsOK'
  BY <1>4, <1>8, <1>11 DEF BrainStep, BrainTry, BrainHalts, BrainError, rows
<1>12. CASE Crash
  BY <1>8, <1>12 DEF Crash, rows
<1> QED
  BY <1>6, <1>7, <1>9, <1>10, <1>11, <1>12 DEF Next

-----------------------------------------------------------------------------
(* What is known: bundles, evidence, contexts and what was sent out *)

\* More bundles make more evidence.
LEMMA MoreEvidence ==
  ASSUME NEW B, NEW C, B \subseteq C
  PROVE  Evidence(B) \subseteq Evidence(C)
BY DEF Evidence

\* A retrieval appends a bundle and adds its hits, or does nothing.
LEMMA StoreBundleEffect ==
  ASSUME IInv, StoreBundle
  PROVE  /\ consents' \in Seq(BOOLEAN) /\ Bundles \subseteq Bundles'
         /\ \A n \in Bundles : consents'[n] = consents[n]
         /\ evidence' \subseteq Evidence(Bundles')
         /\ \A e \in evidence' : Sound(e)
<1>1. consents \in Seq(BOOLEAN) /\ evidence \subseteq Evidence(Bundles) /\ \A e \in evidence : Sound(e)
  BY DEF IInv, KnownOK, SoundInv
<1>2. CASE UNCHANGED known
  BY <1>1, <1>2 DEF known, Bundles
<1>3. ASSUME NEW yes \in scn.consent, consents' = Append(consents, yes),
             evidence' = evidence \cup {Hits(Latest + 1, yes)}
      PROVE  /\ consents' \in Seq(BOOLEAN) /\ Bundles \subseteq Bundles'
             /\ \A n \in Bundles : consents'[n] = consents[n]
             /\ evidence' \subseteq Evidence(Bundles')
             /\ \A e \in evidence' : Sound(e)
  <2>1. yes \in BOOLEAN
    BY <1>3, ScenarioTypes DEF IInv
  <2>2. /\ consents' \in Seq(BOOLEAN) /\ Len(consents') = Len(consents) + 1 /\ Len(consents) \in Nat
        /\ \A n \in 1..Len(consents) : consents'[n] = consents[n]
    BY <1>1, <1>3, <2>1
  <2>3. Bundles \subseteq Bundles' /\ Latest + 1 \in Bundles' /\ Latest + 1 \in Nat \ {0}
    BY <2>2 DEF Bundles, Latest
  <2>4. Hits(Latest + 1, yes) \in Evidence(Bundles') /\ Sound(Hits(Latest + 1, yes))
    BY <2>1, <2>3, HitsType
  <2>5. evidence \subseteq Evidence(Bundles')
    BY <1>1, <2>3, MoreEvidence
  <2> QED
    BY <1>1, <1>3, <2>2, <2>3, <2>4, <2>5 DEF Bundles
<1> QED
  BY <1>2, <1>3 DEF StoreBundle

\* An opinion is evidence of the bundles of what it was given, and names them.
LEMMA OpinionType ==
  ASSUME IInv, NEW g \in Sessions, NEW where \in Locations
  PROVE  Opinion(g, where) \in Evidence(Bundles) /\ Sound(Opinion(g, where))
<1> DEFINE given   == Selected(g, where)
           lineage == UNION {e.lineage \cup ({e.bundle} \ {0}) : e \in given}
           texts   == UNION {e.contents : e \in given}
<1>1. given \subseteq Evidence(Bundles) /\ \A e \in given : Sound(e)
  BY DEF Selected, IInv, KnownOK, SoundInv
<1>2. \A e \in given : e.lineage \subseteq Bundles /\ e.bundle \in Bundles \cup {0} /\ e.contents \subseteq Bundles
                       /\ e.contents \subseteq e.lineage
  BY <1>1 DEF Evidence, Sound
<1>3. lineage \subseteq Bundles /\ texts \subseteq Bundles /\ texts \subseteq lineage
  BY <1>2
<1>4. Opinion(g, where) = [origin |-> where, bundle |-> IF ctx[g].latest \in lineage THEN ctx[g].latest ELSE 0,
                           lineage |-> lineage, allowed |-> \A e \in given : e.allowed, contents |-> texts]
  BY DEF Opinion
<1>5. (\A e \in given : e.allowed) \in BOOLEAN
  OBVIOUS
<1> HIDE DEF given, lineage, texts
<1>6. Opinion(g, where) \in Evidence(Bundles)
  BY <1>3, <1>4, <1>5 DEF Evidence
<1>7. Sound(Opinion(g, where))
  BY <1>3, <1>4 DEF Sound, Locations
<1> QED
  BY <1>6, <1>7

\* What an external brain is shown carries only the newest bundle, with consent.
LEMMA ShownToExternal ==
  ASSUME IInv, NEW g \in Sessions, NEW e \in Selected(g, "external"), NEW n \in e.contents
  PROVE  n = ctx[g].latest /\ n \in Bundles /\ consents[n]
<1>1. e \in Evidence(Bundles) /\ Sound(e) /\ ExternalEvidenceAllowed(e, ctx[g].latest)
  BY DEF Selected, IInv, KnownOK, SoundInv
<1>2. n \in Bundles /\ n \in e.lineage
  BY <1>1 DEF Evidence, Sound
<1>3. e.origin # "user"
  BY <1>1 DEF Sound
<1>4. CASE e.origin = "knowledge"
  BY <1>1, <1>2, <1>4 DEF Sound, ExternalEvidenceAllowed, Locations
<1>5. CASE e.origin \in Locations
  BY <1>1, <1>2, <1>5 DEF ExternalEvidenceAllowed, Locations
<1> QED
  BY <1>1, <1>2, <1>3, <1>4, <1>5 DEF ExternalEvidenceAllowed

\* Types, lineage and consent survive every step.
KnownInv == KnownOK /\ SoundInv /\ ConsentKept

\* A retrieval changes no consent that was recorded before.
LEMMA KnownStore ==
  ASSUME IInv, StoreBundle, UNCHANGED <<ctx, sentOut>>
  PROVE  KnownInv'
<1>1. /\ consents' \in Seq(BOOLEAN) /\ Bundles \subseteq Bundles'
      /\ \A n \in Bundles : consents'[n] = consents[n]
      /\ evidence' \subseteq Evidence(Bundles') /\ \A e \in evidence' : Sound(e)
  BY StoreBundleEffect
<1>2. Evidence(Bundles) \subseteq Evidence(Bundles')
  BY <1>1, MoreEvidence
<1>3. ctx' \in [Sessions -> [evidence : SUBSET Evidence(Bundles'), latest : Bundles' \cup {0}]]
  <2>1. ctx \in [Sessions -> [evidence : SUBSET Evidence(Bundles), latest : Bundles \cup {0}]]
    BY DEF IInv, KnownOK
  <2>2. [evidence : SUBSET Evidence(Bundles), latest : Bundles \cup {0}]
          \subseteq [evidence : SUBSET Evidence(Bundles'), latest : Bundles' \cup {0}]
    BY <1>1, <1>2
  <2> QED
    BY <2>1, <2>2
<1>4. sentOut' \subseteq Bundles' \X (Bundles' \cup {0})
  BY <1>1 DEF IInv, KnownOK
<1>5. KnownOK'
  BY <1>1, <1>3, <1>4 DEF KnownOK
<1>6. SoundInv'
  BY <1>1 DEF IInv, SoundInv, Sound
<1>7. ConsentKept'
  <2> SUFFICES ASSUME NEW sent \in sentOut PROVE sent[1] = sent[2] /\ consents'[sent[1]]
    BY DEF ConsentKept
  <2>1. sent[1] \in Bundles
    BY DEF IInv, KnownOK
  <2> QED
    BY <1>1, <2>1 DEF IInv, ConsentKept
<1> QED
  BY <1>5, <1>6, <1>7 DEF KnownInv

\* An attempt sends out what the location of the brain allows.
LEMMA KnownTry ==
  ASSUME IInv, NEW g \in Sessions, NEW b \in Brains, BrainTry(g, b)
  PROVE  KnownInv'
<1>1. UNCHANGED <<consents, evidence, ctx>>
  BY DEF BrainTry, known
<1>2. PICK where \in scn.where[b] :
        sentOut' = IF where = "local" THEN sentOut
                   ELSE sentOut \cup {<<n, ctx[g].latest>> : n \in UNION {e.contents : e \in Selected(g, where)}}
  BY DEF BrainTry
<1>3. where \in Locations
  BY ScenarioTypes DEF IInv
<1>4. \A sent \in sentOut' \ sentOut : \E n \in Bundles : sent = <<n, n>> /\ consents[n]
  <2>1. CASE where = "local"
    BY <1>2, <2>1
  <2>2. CASE where = "external"
    <3> SUFFICES ASSUME NEW e \in Selected(g, "external"), NEW n \in e.contents
                 PROVE  n \in Bundles /\ n = ctx[g].latest /\ consents[n]
      BY <1>2, <2>2
    <3> QED
      BY ShownToExternal
  <2> QED
    BY <1>3, <2>1, <2>2 DEF Locations
<1>5. Bundles' = Bundles /\ sentOut \subseteq Bundles \X (Bundles \cup {0})
  BY <1>1 DEF Bundles, IInv, KnownOK
<1>6. sentOut' \subseteq Bundles \X (Bundles \cup {0})
  BY <1>4, <1>5
<1>7. KnownOK'
  BY <1>1, <1>5, <1>6 DEF IInv, KnownOK
<1>8. SoundInv'
  BY <1>1 DEF IInv, SoundInv, Sound
<1>9. ConsentKept'
  BY <1>1, <1>4 DEF IInv, ConsentKept
<1> QED
  BY <1>7, <1>8, <1>9 DEF KnownInv

\* A stored opinion is evidence for later sessions.
LEMMA KnownWins ==
  ASSUME IInv, NEW g \in Sessions, NEW b \in Brains, BrainWins(g, b)
  PROVE  KnownInv'
<1>1. UNCHANGED <<consents, ctx, sentOut>> /\ evidence' = evidence \cup {Opinion(g, bpc[g][b].where)}
  BY DEF BrainWins, ghosts
<1>2. bpc[g][b].where \in Locations
  BY DEF IInv, CountersOK, Runs
<1>3. Opinion(g, bpc[g][b].where) \in Evidence(Bundles) /\ Sound(Opinion(g, bpc[g][b].where))
  BY <1>2, OpinionType
<1>4. Bundles' = Bundles
  BY <1>1 DEF Bundles
<1>5. KnownOK'
  BY <1>1, <1>3, <1>4 DEF IInv, KnownOK
<1>6. SoundInv'
  BY <1>1, <1>3 DEF IInv, SoundInv, Sound
<1>7. ConsentKept'
  BY <1>1 DEF IInv, ConsentKept
<1> QED
  BY <1>5, <1>6, <1>7 DEF KnownInv

\* A context is what is known when the session loads it, or nothing.
LEMMA KnownContext ==
  ASSUME IInv, UNCHANGED <<consents, evidence, sentOut>>,
         ctx' \in [Sessions -> {NoContext, [evidence |-> evidence, latest |-> Latest]} \cup {ctx[g] : g \in Sessions}]
  PROVE  KnownInv'
<1>1. Bundles' = Bundles
  BY DEF Bundles
<1>2. /\ consents \in Seq(BOOLEAN) /\ evidence \subseteq Evidence(Bundles)
      /\ ctx \in [Sessions -> [evidence : SUBSET Evidence(Bundles), latest : Bundles \cup {0}]]
  BY DEF IInv, KnownOK
<1>3. Latest \in Bundles \cup {0}
  BY <1>2 DEF Latest, Bundles
<1>4. ctx' \in [Sessions -> [evidence : SUBSET Evidence(Bundles), latest : Bundles \cup {0}]]
  BY <1>2, <1>3 DEF NoContext
<1>5. KnownOK'
  BY <1>1, <1>4 DEF IInv, KnownOK
<1>6. SoundInv'
  <2>1. \A g \in Sessions : \A e \in ctx'[g].evidence : Sound(e)
    <3> SUFFICES ASSUME NEW g \in Sessions, NEW e \in ctx'[g].evidence PROVE Sound(e)
      OBVIOUS
    <3>1. CASE ctx'[g] = NoContext
      BY <3>1 DEF NoContext
    <3>2. CASE ctx'[g] = [evidence |-> evidence, latest |-> Latest]
      BY <3>2 DEF IInv, SoundInv
    <3>3. CASE \E h \in Sessions : ctx'[g] = ctx[h]
      BY <3>3 DEF IInv, SoundInv
    <3> QED
      BY <3>1, <3>2, <3>3
  <2> QED
    BY <2>1 DEF IInv, SoundInv, Sound
<1>7. ConsentKept'
  BY DEF IInv, ConsentKept
<1> QED
  BY <1>5, <1>6, <1>7 DEF KnownInv

\* No other step touches what is known.
LEMMA KnownStep ==
  ASSUME IInv, Next
  PROVE  KnownInv'
<1>0. ctx \in [Sessions -> {ctx[g] : g \in Sessions}]
  BY DEF IInv, KnownOK
<1>1. ASSUME UNCHANGED <<consents, evidence, ctx, sentOut>> PROVE KnownInv'
  BY <1>0, <1>1, KnownContext
<1>2. ASSUME NEW r \in Requests, Request(r) \/ RequestAborts(r) PROVE KnownInv'
  <2>1. CASE LaunchRefresh(r) \/ RefreshKnowledge(r)
    BY <2>1, KnownStore DEF LaunchRefresh, RefreshKnowledge, tasks, ghosts
  <2>2. CASE ~(LaunchRefresh(r) \/ RefreshKnowledge(r))
    BY <1>1, <1>2, <2>2
    DEF Request, RequestAborts, StartRead, ContinueRead, LaunchLock, LaunchEntry, BeginCheck, BeginWrite,
        LaunchInsert, LaunchSpawn, StopRead, StopSignal, StopStatus, StopBrains, known, tasks, ghosts
  <2> QED
    BY <2>1, <2>2
<1>3. ASSUME NEW g \in Sessions, NEW b \in Brains, BrainStep(g, b) \/ BrainError(g, b) PROVE KnownInv'
  <2>1. CASE BrainTry(g, b) \/ BrainWins(g, b)
    BY <2>1, KnownTry, KnownWins
  <2>2. CASE ~(BrainTry(g, b) \/ BrainWins(g, b))
    BY <1>1, <1>3, <2>2 DEF BrainStep, BrainMark, BrainHalts, BrainGivesUp, BrainError, known, ghosts
  <2> QED
    BY <2>1, <2>2
<1>4. ASSUME NEW g \in Sessions, SessionStep(g) \/ SessionError(g) \/ SessionGivesUp(g) PROVE KnownInv'
  <2>1. CASE SessionLoad(g)
    <3>1. /\ UNCHANGED <<consents, evidence, sentOut>>
          /\ ctx' = [ctx EXCEPT ![g] = [evidence |-> evidence, latest |-> Latest]]
      BY <2>1 DEF SessionLoad, known, ghosts
    <3> QED
      BY <1>0, <3>1, KnownContext
  <2>2. CASE SessionJoin(g)
    <3>1. UNCHANGED <<consents, evidence, sentOut>> /\ ctx' = [ctx EXCEPT ![g] = NoContext]
      BY <2>2 DEF SessionJoin, known, ghosts
    <3> QED
      BY <1>0, <3>1, KnownContext
  <2>3. CASE ~(SessionLoad(g) \/ SessionJoin(g))
    BY <1>1, <1>4, <2>3
    DEF SessionStep, SessionRead, SessionFail, SessionFinish, SessionError, SessionErrorRead, SessionGivesUp,
        SessionLeave, known, ghosts
  <2> QED
    BY <2>1, <2>2, <2>3
<1>5. CASE Crash
  BY <1>0, <1>5, KnownContext DEF Crash, known
<1>6. CASE RecoverDecision \/ RecoverBrains
  BY <1>1, <1>6 DEF RecoverDecision, RecoverBrains, known, tasks, ghosts
<1> QED
  BY <1>2, <1>3, <1>4, <1>5, <1>6 DEF Next

-----------------------------------------------------------------------------
(* Sessions, locks and program counters *)

\* The workload is fixed.
LEMMA ScenarioFixed ==
  ASSUME Next
  PROVE  scn' = scn
<1>1. ASSUME NEW r \in Requests, Request(r) \/ RequestAborts(r) PROVE scn' = scn
  BY <1>1
  DEF Request, RequestAborts, StartRead, ContinueRead, LaunchLock, LaunchEntry, LaunchRefresh, BeginCheck,
      BeginWrite, LaunchInsert, LaunchSpawn, StopRead, StopSignal, StopStatus, StopBrains, RefreshKnowledge
<1>2. ASSUME NEW g \in Sessions, SessionStep(g) \/ SessionError(g) \/ SessionGivesUp(g) PROVE scn' = scn
  BY <1>2
  DEF SessionStep, SessionLoad, SessionJoin, SessionRead, SessionFail, SessionFinish, SessionErrorRead,
      SessionLeave, SessionError, SessionGivesUp
<1>3. ASSUME NEW g \in Sessions, NEW b \in Brains, BrainStep(g, b) \/ BrainError(g, b) PROVE scn' = scn
  BY <1>3 DEF BrainStep, BrainMark, BrainTry, BrainHalts, BrainWins, BrainGivesUp, BrainError
<1> QED
  BY <1>1, <1>2, <1>3 DEF Next, Crash, RecoverDecision, RecoverBrains

\* Revisions only grow, and entries and requests name revisions that were begun.
LEMMA SessionsStep ==
  ASSUME IInv, Next
  PROVE  SessionsOK' /\ scn' \in Scenarios
<1> USE DEF IInv, SessionsOK
<1>1. ASSUME UNCHANGED <<revision, active, rgen, control, lock, up, faults, crashes>> PROVE SessionsOK'
  BY <1>1
<1>2. ASSUME NEW r \in Requests, LaunchLock(r) PROVE SessionsOK'
  BY <1>2 DEF LaunchLock, rows, budget
<1>3. ASSUME NEW r \in Requests, LaunchEntry(r) \/ BeginCheck(r) \/ LaunchSpawn(r) \/ RequestAborts(r) PROVE SessionsOK'
  <2>1. UNCHANGED <<revision, active, rgen, control, up, faults, crashes>> /\ lock' \in {lock, Free}
    BY <1>3 DEF LaunchEntry, BeginCheck, LaunchSpawn, RequestAborts, Return, rows, budget
  <2> QED
    BY <2>1
<1>4. ASSUME NEW r \in Requests, BeginWrite(r) PROVE SessionsOK'
  <2>1. /\ revision < MaxSessions /\ revision' = revision + 1 /\ rgen' = [rgen EXCEPT ![r] = revision + 1]
        /\ UNCHANGED <<active, control, lock, up, faults, crashes>>
    BY <1>4 DEF BeginWrite, memory, budget
  <2>2. revision' \in 0..MaxSessions /\ active \in 0..revision' /\ rgen \in [Requests -> 0..revision']
    BY <2>1, DecisionAssumption
  <2> QED
    BY <2>1, <2>2
<1>5. ASSUME NEW r \in Requests, LaunchInsert(r) PROVE SessionsOK'
  BY <1>5 DEF LaunchInsert, rows, budget
<1>6. ASSUME NEW r \in Requests, StopSignal(r) PROVE SessionsOK'
  <2>1. Wanted(r) \in {"running", "paused", "cancelled"}
    BY DEF Wanted
  <2> QED
    BY <1>6, <2>1 DEF StopSignal, rows, budget
<1>7. ASSUME NEW g \in Sessions, SessionLeave(g) PROVE SessionsOK'
  BY <1>7 DEF SessionLeave, rows, calls, budget
<1>8. ASSUME NEW g \in Sessions, NEW b \in Brains, BrainError(g, b) PROVE SessionsOK'
  <2>1. UNCHANGED <<revision, active, rgen, control, lock, up, crashes>> /\ faults > 0 /\ faults' = faults - 1
    BY <1>8 DEF BrainError, rows, memory, calls
  <2> QED
    BY <2>1
<1>9. ASSUME NEW g \in Sessions, SessionError(g) \/ SessionGivesUp(g) PROVE SessionsOK'
  <2>1. UNCHANGED <<revision, active, rgen, control, lock, up, crashes>> /\ faults > 0 /\ faults' = faults - 1
    BY <1>9 DEF SessionError, SessionGivesUp, rows, memory, calls
  <2> QED
    BY <2>1
<1>10. CASE Crash
  BY <1>10 DEF Crash, rows
<1>11. CASE RecoverDecision \/ RecoverBrains
  BY <1>11 DEF RecoverDecision, RecoverBrains, memory, calls, budget
<1> HIDE DEF IInv, SessionsOK
<1>12. ASSUME NEW r \in Requests, Request(r) PROVE SessionsOK'
  BY <1>1, <1>2, <1>3, <1>4, <1>5, <1>6, <1>12
  DEF Request, StartRead, ContinueRead, LaunchRefresh, StopRead, StopStatus, StopBrains, RefreshKnowledge,
      rows, memory, budget
<1>13. ASSUME NEW g \in Sessions, SessionStep(g) PROVE SessionsOK'
  BY <1>1, <1>7, <1>13
  DEF SessionStep, SessionLoad, SessionJoin, SessionRead, SessionFail, SessionFinish, SessionErrorRead,
      rows, memory, calls, budget
<1>14. ASSUME NEW g \in Sessions, NEW b \in Brains, BrainStep(g, b) PROVE SessionsOK'
  BY <1>1, <1>14
  DEF BrainStep, BrainMark, BrainTry, BrainHalts, BrainWins, BrainGivesUp, rows, memory, calls, budget
<1>15. SessionsOK'
  BY <1>3, <1>8, <1>9, <1>10, <1>11, <1>12, <1>13, <1>14 DEF Next
<1> QED
  BY <1>15, ScenarioFixed DEF IInv

\* How the steps of a request move its program counter
LEMMA RequestMoves ==
  ASSUME IInv, NEW r \in Requests, Request(r) \/ RequestAborts(r)
  PROVE  /\ rpc' \in [Requests -> RequestPCs] /\ rpc'[r] # "new"
         /\ \A q \in Requests \ {r} : rpc'[q] = rpc[q]
<1>1. \E p \in RequestPCs \ {"new"} : GoTo(r, p)
  <2>1. CASE StartRead(r) \/ ContinueRead(r) \/ LaunchLock(r) \/ LaunchRefresh(r) \/ BeginWrite(r)
    BY <2>1 DEF StartRead, ContinueRead, LaunchLock, LaunchRefresh, BeginWrite, RequestPCs
  <2>2. CASE LaunchEntry(r) \/ BeginCheck(r) \/ LaunchInsert(r) \/ LaunchSpawn(r) \/ RequestAborts(r)
    BY <2>2 DEF LaunchEntry, BeginCheck, LaunchInsert, LaunchSpawn, RequestAborts, Return, RequestPCs
  <2>3. CASE StopRead(r) \/ StopSignal(r) \/ StopStatus(r) \/ StopBrains(r) \/ RefreshKnowledge(r)
    BY <2>3 DEF StopRead, StopSignal, StopStatus, StopBrains, RefreshKnowledge, RequestPCs
  <2> QED
    BY <2>1, <2>2, <2>3 DEF Request
<1> QED
  BY <1>1 DEF GoTo, IInv, CountersOK

\* A step of a brain moves this brain alone, which was being asked.
LEMMA BrainMoves ==
  ASSUME IInv, NEW g \in Sessions, NEW b \in Brains, BrainStep(g, b) \/ BrainError(g, b)
  PROVE  /\ bpc[g][b].pc # "over" /\ bpc' \in [Sessions -> [Brains -> Runs]]
         /\ \A h \in Sessions : \A c \in Brains : <<h, c>> # <<g, b>> => bpc'[h][c] = bpc[h][c]
         /\ UNCHANGED <<tpc, rpc, rgen, active, lock, cancelled, overtaken, abandoned>>
<1>1. bpc \in [Sessions -> [Brains -> Runs]] /\ bpc[g][b] \in Runs /\ NoRun \in Runs
  BY DEF IInv, CountersOK, NoRun, Runs, Locations
<1>2. UNCHANGED <<tpc, rpc, rgen, active, lock, cancelled, overtaken, abandoned>> /\ bpc[g][b].pc # "over"
  BY DEF BrainStep, BrainMark, BrainTry, BrainHalts, BrainWins, BrainGivesUp, BrainError, memory, calls, ghosts
<1>3. \E x \in Runs : bpc' = [bpc EXCEPT ![g][b] = x]
  <2>1. CASE BrainMark(g, b)
    <3>1. [pc |-> "try", attempt |-> 1, where |-> "local"] \in Runs
      BY DEF Runs, Locations
    <3> QED
      BY <2>1, <3>1 DEF BrainMark
  <2>2. CASE BrainWins(g, b) \/ BrainGivesUp(g, b) \/ BrainError(g, b)
    BY <1>1, <2>2 DEF BrainWins, BrainGivesUp, BrainError
  <2>3. ASSUME NEW p \in {"lost", "paused", "cancelled"}, BrainTo(g, b, p)
        PROVE  \E x \in Runs : bpc' = [bpc EXCEPT ![g][b] = x]
    <3>1. [bpc[g][b] EXCEPT !.pc = p] \in Runs
      BY <1>1, <2>3 DEF Runs
    <3> QED
      BY <1>1, <2>3, <3>1 DEF BrainTo
  <2>4. CASE BrainHalts(g, b)
    BY <2>3, <2>4 DEF BrainHalts, IInv, SessionsOK
  <2>5. CASE BrainTry(g, b)
    <3>1. CASE RetryBrain(g, b)
      <4>1. bpc[g][b].attempt \in 0..3
        BY <1>1 DEF Runs
      <4>2. CASE bpc[g][b].attempt = 3 \/ (bpc[g][b].attempt = 2 /\ ~scn.fallback)
        <5>1. [bpc[g][b] EXCEPT !.pc = "lost"] \in Runs
          BY <1>1 DEF Runs
        <5> QED
          BY <1>1, <3>1, <4>2, <5>1 DEF RetryBrain
      <4>3. CASE ~(bpc[g][b].attempt = 3 \/ (bpc[g][b].attempt = 2 /\ ~scn.fallback))
        <5>1. [bpc[g][b] EXCEPT !.attempt = bpc[g][b].attempt + 1] \in Runs
          BY <1>1, <4>1, <4>3 DEF Runs
        <5> QED
          BY <1>1, <3>1, <4>3, <5>1 DEF RetryBrain
      <4> QED
        BY <4>2, <4>3
    <3>2. ASSUME NEW where \in scn.where[b], bpc' = [bpc EXCEPT ![g][b].pc = "won", ![g][b].where = where]
          PROVE  \E x \in Runs : bpc' = [bpc EXCEPT ![g][b] = x]
      <4>1. where \in Locations
        BY <3>2, ScenarioTypes DEF IInv
      <4>2. [bpc[g][b] EXCEPT !.pc = "won", !.where = where] \in Runs
        BY <1>1, <4>1 DEF Runs
      <4> QED
        BY <1>1, <3>2, <4>2
    <3> QED
      BY <2>3, <2>5, <3>1, <3>2 DEF BrainTry
  <2> QED
    BY <2>1, <2>2, <2>4, <2>5 DEF BrainStep
<1> QED
  BY <1>1, <1>2, <1>3

\* A step of a session moves its own task; only a load asks brains.
LEMMA SessionMoves ==
  ASSUME IInv, NEW g \in Sessions, SessionStep(g) \/ SessionError(g) \/ SessionGivesUp(g)
  PROVE  /\ \E p \in TaskPCs : TaskTo(g, p)
         /\ tpc[g] # "none" /\ UNCHANGED <<rpc, rgen, lock, bstate, opinions, cancelled, overtaken>>
         /\ bpc' = bpc \/ SessionLoad(g)
<1>1. \E p \in TaskPCs : TaskTo(g, p)
  BY DEF SessionStep, SessionLoad, SessionJoin, SessionRead, SessionFail, SessionFinish, SessionErrorRead,
         SessionLeave, SessionError, SessionGivesUp, TaskPCs
<1>2. tpc[g] # "none" /\ UNCHANGED <<rpc, rgen, lock, bstate, opinions, cancelled, overtaken>>
  BY DEF SessionStep, SessionLoad, SessionJoin, SessionRead, SessionFail, SessionFinish, SessionErrorRead,
         SessionLeave, SessionError, SessionGivesUp, rows, memory, calls, ghosts
<1>3. bpc' = bpc \/ SessionLoad(g)
  BY DEF SessionStep, SessionJoin, SessionRead, SessionFail, SessionFinish, SessionErrorRead,
         SessionLeave, SessionError, SessionGivesUp
<1> QED
  BY <1>1, <1>2, <1>3

\* A request moves no task except the one it spawns.
LEMMA RequestLeaves ==
  ASSUME IInv, NEW r \in Requests, Request(r) \/ RequestAborts(r)
  PROVE  UNCHANGED bpc /\ (UNCHANGED tpc \/ LaunchSpawn(r))
BY DEF Request, RequestAborts, StartRead, ContinueRead, LaunchLock, LaunchEntry, LaunchRefresh, BeginCheck,
       BeginWrite, LaunchInsert, LaunchSpawn, StopRead, StopSignal, StopStatus, StopBrains, RefreshKnowledge, tasks

\* Every step keeps the program counters in range.
LEMMA CountersStep ==
  ASSUME IInv, Next
  PROVE  CountersOK'
<1>0. /\ tpc \in [Sessions -> TaskPCs] /\ bpc \in [Sessions -> [Brains -> Runs]]
      /\ rpc \in [Requests -> RequestPCs]
      /\ cancelled \in BOOLEAN /\ overtaken \in BOOLEAN /\ abandoned \in BOOLEAN
  BY DEF IInv, CountersOK
<1>1. ASSUME NEW r \in Requests, Request(r) \/ RequestAborts(r) PROVE CountersOK'
  <2>1. rpc' \in [Requests -> RequestPCs]
    BY <1>1, RequestMoves
  <2>2. bpc' \in [Sessions -> [Brains -> Runs]] /\ tpc' \in [Sessions -> TaskPCs]
    BY <1>0, <1>1, RequestLeaves DEF LaunchSpawn, TaskTo, TaskPCs
  <2>3. cancelled' \in BOOLEAN /\ overtaken' \in BOOLEAN /\ abandoned' \in BOOLEAN
    <3>1. CASE StopStatus(r)
      BY <1>0, <3>1 DEF StopStatus
    <3>2. CASE RequestAborts(r)
      BY <1>0, <3>2 DEF RequestAborts
    <3>3. CASE Request(r) /\ ~StopStatus(r)
      BY <1>0, <3>3
      DEF Request, StartRead, ContinueRead, LaunchLock, LaunchEntry, LaunchRefresh, BeginCheck,
          BeginWrite, LaunchInsert, LaunchSpawn, StopRead, StopSignal, StopBrains, RefreshKnowledge, ghosts
    <3> QED
      BY <1>1, <3>1, <3>2, <3>3
  <2> QED
    BY <2>1, <2>2, <2>3 DEF CountersOK
<1>2. ASSUME NEW g \in Sessions, NEW b \in Brains, BrainStep(g, b) \/ BrainError(g, b) PROVE CountersOK'
  BY <1>0, <1>2, BrainMoves DEF CountersOK
<1>3. ASSUME NEW g \in Sessions, SessionStep(g) \/ SessionError(g) \/ SessionGivesUp(g) PROVE CountersOK'
  <2>1. tpc' \in [Sessions -> TaskPCs] /\ UNCHANGED <<rpc, cancelled, overtaken>>
    BY <1>0, <1>3, SessionMoves DEF TaskTo
  <2>2. bpc' \in [Sessions -> [Brains -> Runs]]
    <3>1. CASE SessionLoad(g)
      <4>1. NoRun \in Runs /\ [NoRun EXCEPT !.pc = "mark"] \in Runs
        BY DEF NoRun, Runs, Locations
      <4> QED
        BY <1>0, <3>1, <4>1 DEF SessionLoad
    <3> QED
      BY <1>0, <1>3, <3>1, SessionMoves
  <2>3. abandoned' \in BOOLEAN
    BY <1>0, <1>3
    DEF SessionStep, SessionLoad, SessionJoin, SessionRead, SessionFail, SessionFinish, SessionErrorRead,
        SessionLeave, SessionError, SessionGivesUp, ghosts
  <2> QED
    BY <1>0, <2>1, <2>2, <2>3 DEF CountersOK
<1>4. CASE Crash
  <2>1. NoRun \in Runs
    BY DEF NoRun, Runs, Locations
  <2>2. /\ tpc' \in [Sessions -> TaskPCs] /\ rpc' \in [Requests -> RequestPCs]
        /\ bpc' \in [Sessions -> [Brains -> Runs]]
    BY <1>4, <2>1 DEF Crash, TaskPCs, RequestPCs
  <2> QED
    BY <1>0, <1>4, <2>2 DEF Crash, CountersOK
<1>5. CASE RecoverDecision \/ RecoverBrains
  BY <1>0, <1>5 DEF RecoverDecision, RecoverBrains, CountersOK, tasks, calls, ghosts
<1> QED
  BY <1>1, <1>2, <1>3, <1>4, <1>5 DEF Next

-----------------------------------------------------------------------------
(* One launch at a time, one session at a time *)

\* While active_runs has no entry no task runs.
LEMMA NoTaskWithoutEntry ==
  ASSUME IInv, active = 0
  PROVE  \A g \in Sessions : tpc[g] = "none"
BY DEF IInv, TaskInv, Sessions

\* Launches exclude each other from their look at active_runs to the spawn.
LEMMA LaunchStep ==
  ASSUME IInv, Next
  PROVE  LaunchInv'
<1> USE DEF LaunchInv
<1>0. /\ rpc \in [Requests -> RequestPCs] /\ rgen \in [Requests -> 0..revision] /\ LaunchInv
      /\ Free \notin Requests /\ revision \in Nat
  BY DecisionAssumption DEF IInv, CountersOK, SessionsOK
<1>1. ASSUME NEW r \in Requests, LaunchLock(r) PROVE LaunchInv'
  <2>1. /\ lock = Free /\ lock' = r /\ rpc' = [rpc EXCEPT ![r] = "entry"]
    BY <1>1 DEF LaunchLock, GoTo
  <2> QED
    BY <1>0, <2>1
<1>2. ASSUME NEW r \in Requests, GoTo(r, "done"), lock' = IF lock = r THEN Free ELSE lock,
             UNCHANGED <<active, rgen>>, UNCHANGED tpc \/ LaunchSpawn(r)
      PROVE  LaunchInv'
  <2>1. \A q \in Requests \ {r} : rpc'[q] = rpc[q]
    BY <1>0, <1>2 DEF GoTo
  <2>2. CASE UNCHANGED tpc
    BY <1>0, <1>2, <2>1, <2>2 DEF GoTo
  <2>3. CASE LaunchSpawn(r)
    <3>1. lock = r /\ \A q \in Requests \ {r} : lock # q
      BY <1>0, <2>3 DEF LaunchSpawn
    <3> QED
      BY <1>0, <1>2, <2>1, <3>1 DEF GoTo
  <2> QED
    BY <1>2, <2>2, <2>3
<1>3. ASSUME NEW r \in Requests, LaunchEntry(r) \/ BeginCheck(r) PROVE LaunchInv'
  <2>1. CASE Return(r)
    BY <1>2, <1>3, <2>1 DEF LaunchEntry, BeginCheck, Return, tasks
  <2>2. CASE ~Return(r)
    BY <1>0, <1>3, <2>2 DEF LaunchEntry, BeginCheck, GoTo, tasks
  <2> QED
    BY <2>1, <2>2
<1>4. ASSUME NEW r \in Requests, LaunchRefresh(r) PROVE LaunchInv'
  BY <1>0, <1>4 DEF LaunchRefresh, GoTo, memory, tasks
<1>5. ASSUME NEW r \in Requests, BeginWrite(r) PROVE LaunchInv'
  <2>1. /\ rpc[r] = "write" /\ rpc' = [rpc EXCEPT ![r] = "insert"] /\ rgen' = [rgen EXCEPT ![r] = revision + 1]
        /\ UNCHANGED <<active, lock, tpc>>
    BY <1>5 DEF BeginWrite, GoTo, memory, tasks
  <2> QED
    BY <1>0, <2>1
<1>6. ASSUME NEW r \in Requests, LaunchInsert(r) PROVE LaunchInv'
  <2>1. /\ rpc[r] = "insert" /\ rpc' = [rpc EXCEPT ![r] = "spawn"] /\ active' = rgen[r]
        /\ UNCHANGED <<lock, rgen, tpc>>
    BY <1>6 DEF LaunchInsert, GoTo, tasks
  <2>2. \A g \in Sessions : tpc[g] = "none"
    BY <1>0, <2>1, NoTaskWithoutEntry
  <2> QED
    BY <1>0, <2>1, <2>2
<1>7. ASSUME NEW r \in Requests, LaunchSpawn(r) \/ RequestAborts(r) PROVE LaunchInv'
  BY <1>2, <1>7 DEF LaunchSpawn, RequestAborts, Return, tasks
<1>8. ASSUME NEW r \in Requests, NEW p \in {"lock", "done", "signal", "status", "brains"},
             GoTo(r, p), UNCHANGED <<active, lock, tpc, rgen>>
      PROVE  LaunchInv'
  BY <1>0, <1>8 DEF GoTo
<1>9. ASSUME NEW r \in Requests, StartRead(r) \/ ContinueRead(r) \/ StopRead(r) \/ StopSignal(r) \/ StopStatus(r)
                                 \/ StopBrains(r) \/ RefreshKnowledge(r)
      PROVE  LaunchInv'
  <2>1. UNCHANGED <<active, lock, tpc, rgen>>
    BY <1>9 DEF StartRead, ContinueRead, StopRead, StopSignal, StopStatus, StopBrains, RefreshKnowledge,
                memory, tasks
  <2>2. \E p \in {"lock", "done", "signal", "status", "brains"} : GoTo(r, p)
    BY <1>9 DEF StartRead, ContinueRead, StopRead, StopSignal, StopStatus, StopBrains, RefreshKnowledge
  <2> QED
    BY <1>8, <2>1, <2>2
<1>10. ASSUME NEW g \in Sessions, NEW b \in Brains, BrainStep(g, b) \/ BrainError(g, b) PROVE LaunchInv'
  BY <1>0, <1>10, BrainMoves
<1>11. ASSUME NEW g \in Sessions, SessionStep(g) \/ SessionError(g) \/ SessionGivesUp(g) PROVE LaunchInv'
  <2>1. UNCHANGED <<rpc, rgen, lock>> /\ tpc[g] # "none" /\ active' \in {active, 0}
    <3>1. active' \in {active, 0}
      BY <1>11
      DEF SessionStep, SessionLoad, SessionJoin, SessionRead, SessionFail, SessionFinish, SessionErrorRead,
          SessionLeave, SessionError, SessionGivesUp, memory
    <3> QED
      BY <1>11, <3>1, SessionMoves
  <2>2. \A r \in Requests : rpc[r] # "spawn"
    BY <1>0, <2>1
  <2> QED
    BY <1>0, <2>1, <2>2
<1>12. CASE Crash
  BY <1>0, <1>12 DEF Crash
<1>13. CASE RecoverDecision \/ RecoverBrains
  BY <1>0, <1>13 DEF RecoverDecision, RecoverBrains, memory, tasks, calls
<1> QED
  BY <1>1, <1>3, <1>4, <1>5, <1>6, <1>7, <1>9, <1>10, <1>11, <1>12, <1>13 DEF Next, Request

\* A second session begins only when the task of the first has left.
LEMMA TaskStep ==
  ASSUME IInv, Next
  PROVE  TaskInv'
<1>0. tpc \in [Sessions -> TaskPCs] /\ bpc \in [Sessions -> [Brains -> Runs]] /\ TaskInv /\ LaunchInv
  BY DEF IInv, CountersOK
<1>1. ASSUME NEW r \in Requests, Request(r) \/ RequestAborts(r) PROVE TaskInv'
  <2>1. CASE LaunchInsert(r)
    <3>1. \A g \in Sessions : tpc[g] = "none"
      BY <1>0, <2>1, NoTaskWithoutEntry DEF LaunchInsert, LaunchInv
    <3> QED
      BY <1>0, <2>1, <3>1 DEF LaunchInsert, TaskInv, tasks
  <2>2. CASE LaunchSpawn(r)
    <3>1. active = rgen[r] /\ \A g \in Sessions : tpc[g] = "none"
      BY <1>0, <2>2 DEF LaunchSpawn, LaunchInv
    <3>2. \A g \in Sessions : \A b \in Brains : bpc[g][b].pc = "over"
      BY <1>0, <3>1 DEF TaskInv
    <3>3. tpc' = [tpc EXCEPT ![rgen[r]] = "load"] /\ UNCHANGED <<active, bpc>>
      BY <2>2 DEF LaunchSpawn, TaskTo
    <3> QED
      BY <1>0, <3>1, <3>2, <3>3 DEF TaskInv
  <2>3. CASE ~LaunchInsert(r) /\ ~LaunchSpawn(r)
    <3>1. UNCHANGED <<active, tpc, bpc>>
      BY <1>1, <2>3
      DEF Request, RequestAborts, StartRead, ContinueRead, LaunchLock, LaunchEntry, LaunchRefresh, BeginCheck,
          BeginWrite, StopRead, StopSignal, StopStatus, StopBrains, RefreshKnowledge, memory, tasks
    <3> QED
      BY <1>0, <3>1 DEF TaskInv
  <2> QED
    BY <2>1, <2>2, <2>3
<1>2. ASSUME NEW g \in Sessions, NEW b \in Brains, BrainStep(g, b) \/ BrainError(g, b) PROVE TaskInv'
  <2>1. /\ bpc[g][b].pc # "over" /\ UNCHANGED <<tpc, active>>
        /\ \A h \in Sessions : \A c \in Brains : <<h, c>> # <<g, b>> => bpc'[h][c] = bpc[h][c]
    BY <1>2, BrainMoves
  <2>2. tpc[g] = "brains"
    BY <1>0, <2>1 DEF TaskInv
  <2> QED
    BY <1>0, <2>1, <2>2 DEF TaskInv
<1>3. ASSUME NEW g \in Sessions, SessionStep(g) \/ SessionError(g) \/ SessionGivesUp(g) PROVE TaskInv'
  <2>1. tpc[g] # "none" /\ active = g /\ \A h \in Sessions \ {g} : tpc[h] = "none" /\ tpc'[h] = "none"
    BY <1>0, <1>3, SessionMoves DEF TaskTo, TaskInv
  <2>2. CASE SessionLoad(g)
    BY <1>0, <2>1, <2>2 DEF SessionLoad, TaskTo, TaskInv, memory
  <2>3. CASE ~SessionLoad(g)
    <3>1. bpc' = bpc
      BY <1>3, <2>3, SessionMoves
    <3>2. \A b \in Brains : bpc[g][b].pc = "over"
      BY <1>0, <1>3, <2>3
      DEF TaskInv, SessionStep, SessionJoin, SessionRead, SessionFail, SessionFinish, SessionErrorRead,
          SessionLeave, SessionError, SessionGivesUp
    <3>3. tpc'[g] # "none" => active' = active
      BY <1>0, <1>3, <2>3
      DEF SessionStep, SessionJoin, SessionRead, SessionFail, SessionFinish, SessionErrorRead,
          SessionLeave, SessionError, SessionGivesUp, TaskTo, memory
    <3> QED
      BY <1>0, <2>1, <3>1, <3>2, <3>3 DEF TaskInv
  <2> QED
    BY <2>2, <2>3
<1>4. CASE Crash
  BY <1>4 DEF Crash, TaskInv, NoRun
<1>5. CASE RecoverDecision \/ RecoverBrains
  BY <1>0, <1>5 DEF RecoverDecision, RecoverBrains, TaskInv, memory, tasks
<1> QED
  BY <1>1, <1>2, <1>3, <1>4, <1>5 DEF Next

-----------------------------------------------------------------------------
(* Opinions and cancellation *)

\* An opinion is stored for a brain that has none, and only once.
LEMMA OpinionStep ==
  ASSUME IInv, Next
  PROVE  AskedInv' /\ OneOpinion'
<1>0. /\ bpc \in [Sessions -> [Brains -> Runs]] /\ opinions \in [Brains -> Nat] /\ AskedInv /\ OneOpinion
      /\ bstate \in [Brains -> {"pending", "running", "completed", "failed", "cancelled"}] /\ TaskInv
  BY DEF IInv, CountersOK, RowsOK
<1>1. ASSUME NEW r \in Requests, Request(r) \/ RequestAborts(r) PROVE AskedInv' /\ OneOpinion'
  <2>1. UNCHANGED <<bpc, opinions>>
    BY <1>1, RequestLeaves
    DEF Request, RequestAborts, StartRead, ContinueRead, LaunchLock, LaunchEntry, LaunchRefresh, BeginCheck,
        BeginWrite, LaunchInsert, LaunchSpawn, StopRead, StopSignal, StopStatus, StopBrains, RefreshKnowledge, rows
  <2>2. \A b \in Brains : bstate'[b] = "completed" <=> bstate[b] = "completed"
    <3>1. CASE BeginWrite(r)
      BY <1>0, <3>1 DEF BeginWrite
    <3>2. CASE StopBrains(r)
      BY <1>0, <3>2 DEF StopBrains
    <3>3. CASE ~BeginWrite(r) /\ ~StopBrains(r)
      BY <1>1, <3>3
      DEF Request, RequestAborts, StartRead, ContinueRead, LaunchLock, LaunchEntry, LaunchRefresh, BeginCheck,
          LaunchInsert, LaunchSpawn, StopRead, StopSignal, StopStatus, RefreshKnowledge, rows
    <3> QED
      BY <3>1, <3>2, <3>3
  <2> QED
    BY <1>0, <2>1, <2>2 DEF AskedInv, OneOpinion
<1>2. ASSUME NEW g \in Sessions, NEW b \in Brains, BrainStep(g, b) \/ BrainError(g, b)
      PROVE  AskedInv' /\ OneOpinion'
  <2>1. /\ bpc[g][b].pc # "over" /\ bstate[b] # "completed" /\ opinions[b] = 0
        /\ \A h \in Sessions : \A c \in Brains : <<h, c>> # <<g, b>> => bpc'[h][c] = bpc[h][c]
    BY <1>0, <1>2, BrainMoves DEF AskedInv, OneOpinion
  <2>2. \A h \in Sessions \ {g} : \A c \in Brains : bpc[h][c].pc = "over"
    <3>1. active = g
      BY <1>0, <2>1 DEF TaskInv
    <3> QED
      BY <1>0, <3>1 DEF TaskInv
  <2>3. CASE BrainWins(g, b)
    <3>1. /\ bstate' = [bstate EXCEPT ![b] = "completed"] /\ opinions' = [opinions EXCEPT ![b] = @ + 1]
          /\ bpc' = [bpc EXCEPT ![g][b] = NoRun]
      BY <2>3 DEF BrainWins
    <3>2. bpc'[g][b].pc = "over"
      BY <1>0, <3>1 DEF NoRun
    <3>3. AskedInv'
      BY <1>0, <2>1, <2>2, <3>1, <3>2 DEF AskedInv
    <3> QED
      BY <1>0, <2>1, <3>1, <3>3 DEF OneOpinion
  <2>4. CASE ~BrainWins(g, b)
    <3>1. opinions' = opinions
      BY <1>2, <2>4 DEF BrainStep, BrainMark, BrainTry, BrainHalts, BrainGivesUp, BrainError, rows
    <3>2. bstate' = bstate \/ \E x \in {"running", "failed", "cancelled", "pending"} : bstate' = [bstate EXCEPT ![b] = x]
      BY <1>2, <2>4 DEF BrainStep, BrainMark, BrainTry, BrainHalts, BrainGivesUp, BrainError, rows
    <3>3. \A c \in Brains : bstate'[c] = "completed" <=> bstate[c] = "completed"
      BY <1>0, <2>1, <3>2
    <3> QED
      BY <1>0, <2>1, <3>1, <3>3 DEF AskedInv, OneOpinion
  <2> QED
    BY <2>3, <2>4
<1>3. ASSUME NEW g \in Sessions, SessionStep(g) \/ SessionError(g) \/ SessionGivesUp(g)
      PROVE  AskedInv' /\ OneOpinion'
  <2>1. UNCHANGED <<bstate, opinions>>
    BY <1>3, SessionMoves
  <2>2. AskedInv'
    <3>1. CASE SessionLoad(g)
      BY <1>0, <2>1, <3>1 DEF SessionLoad, AskedInv, Completed, NoRun
    <3>2. CASE bpc' = bpc
      BY <1>0, <2>1, <3>2 DEF AskedInv
    <3> QED
      BY <1>3, <3>1, <3>2, SessionMoves
  <2> QED
    BY <1>0, <2>1, <2>2 DEF OneOpinion
<1>4. CASE Crash
  BY <1>0, <1>4 DEF Crash, AskedInv, OneOpinion, NoRun, rows
<1>5. CASE RecoverDecision
  BY <1>0, <1>5 DEF RecoverDecision, AskedInv, OneOpinion, tasks
<1>6. CASE RecoverBrains
  <2>1. UNCHANGED <<bpc, opinions>> /\ \A b \in Brains : bstate'[b] = "completed" <=> bstate[b] = "completed"
    BY <1>0, <1>6 DEF RecoverBrains, tasks
  <2> QED
    BY <1>0, <2>1 DEF AskedInv, OneOpinion
<1> QED
  BY <1>1, <1>2, <1>3, <1>4, <1>5, <1>6 DEF Next

\* After a cancel every check of the status refuses.
LEMMA CancelStep ==
  ASSUME IInv, Next
  PROVE  CancelInv'
<1>0. tpc \in [Sessions -> TaskPCs] /\ rpc \in [Requests -> RequestPCs] /\ CancelInv /\ scn' = scn
      /\ cancelled \in BOOLEAN /\ overtaken \in BOOLEAN
  BY ScenarioFixed DEF IInv, CountersOK
<1> DEFINE Stays == cancelled /\ ~overtaken
<1>1. ASSUME NEW r \in Requests, StopStatus(r) PROVE CancelInv'
  <2> SUFFICES ASSUME Stays'
               PROVE  /\ status' = "cancelled"
                      /\ \A g \in Sessions : tpc'[g] \notin {"fail", "finish", "errorfail"}
                      /\ \A q \in Requests : rpc'[q] # "write" /\ (rpc'[q] \in {"signal", "status"} => Kind(q) = "cancel")
    BY <1>0 DEF CancelInv, Kind
  <2>1. /\ rpc[r] = "status" /\ rpc' = [rpc EXCEPT ![r] = "brains"] /\ tpc' = tpc
        /\ ~overtaken /\ cancelled' = (cancelled \/ Kind(r) = "cancel")
        /\ status' = IF Kind(r) = "cancel" THEN "cancelled" ELSE "paused"
        /\ Kind(r) = "cancel" => ~PastCheck(r)
    BY <1>0, <1>1 DEF StopStatus, GoTo, Wanted, tasks
  <2>2. CASE Kind(r) = "cancel"
    BY <1>0, <2>1, <2>2 DEF PastCheck
  <2>3. CASE Kind(r) # "cancel"
    <3>1. Stays
      BY <1>0, <2>1, <2>3
    <3> QED
      BY <2>1, <2>3, <3>1, <1>0 DEF CancelInv
  <2> QED
    BY <2>2, <2>3
<1>2. ASSUME UNCHANGED <<cancelled, overtaken>>,
             Stays => /\ status' = "cancelled"
                      /\ \A g \in Sessions : tpc'[g] \in {"fail", "finish", "errorfail"} => tpc'[g] = tpc[g]
                      /\ \A q \in Requests : rpc'[q] \in {"write", "signal", "status"} =>
                            rpc'[q] = rpc[q] \/ (Kind(q) = "cancel" /\ rpc'[q] # "write")
      PROVE  CancelInv'
  BY <1>0, <1>2 DEF CancelInv, Kind
<1>3. ASSUME NEW r \in Requests, Request(r) \/ RequestAborts(r), ~StopStatus(r) PROVE CancelInv'
  <2>1. UNCHANGED <<cancelled, overtaken>>
    BY <1>3
    DEF Request, RequestAborts, StartRead, ContinueRead, LaunchLock, LaunchEntry, LaunchRefresh, BeginCheck,
        BeginWrite, LaunchInsert, LaunchSpawn, StopRead, StopSignal, StopBrains, RefreshKnowledge, ghosts
  <2> SUFFICES ASSUME Stays
               PROVE  /\ status' = "cancelled"
                      /\ \A g \in Sessions : tpc'[g] \in {"fail", "finish", "errorfail"} => tpc'[g] = tpc[g]
                      /\ \A q \in Requests : rpc'[q] \in {"write", "signal", "status"} =>
                            rpc'[q] = rpc[q] \/ (Kind(q) = "cancel" /\ rpc'[q] # "write")
    BY <1>2, <2>1
  <2>2. status = "cancelled" /\ \A q \in Requests : rpc[q] # "write" /\ (rpc[q] = "signal" => Kind(q) = "cancel")
    BY <1>0 DEF CancelInv
  <2>3. status' = status
    BY <1>3, <2>2
    DEF Request, RequestAborts, StartRead, ContinueRead, LaunchLock, LaunchEntry, LaunchRefresh, BeginCheck,
        BeginWrite, LaunchInsert, LaunchSpawn, StopRead, StopSignal, StopBrains, RefreshKnowledge, rows
  <2>4. \A g \in Sessions : tpc'[g] \in {"fail", "finish", "errorfail"} => tpc'[g] = tpc[g]
    BY <1>0, <1>3, RequestLeaves DEF LaunchSpawn, TaskTo
  <2>5. rpc'[r] \in {"write", "signal", "status"} => Kind(r) = "cancel" /\ rpc'[r] # "write"
    BY <1>0, <1>3, <2>2
    DEF Request, RequestAborts, StartRead, ContinueRead, LaunchLock, LaunchEntry, LaunchRefresh, BeginCheck,
        BeginWrite, LaunchInsert, LaunchSpawn, StopRead, StopSignal, StopBrains, RefreshKnowledge, GoTo, Return
  <2> QED
    BY <1>3, <2>2, <2>3, <2>4, <2>5, RequestMoves
<1>4. ASSUME NEW g \in Sessions, NEW b \in Brains, BrainStep(g, b) \/ BrainError(g, b) PROVE CancelInv'
  <2>1. status' = status
    BY <1>4 DEF BrainStep, BrainMark, BrainTry, BrainHalts, BrainWins, BrainGivesUp, BrainError, rows
  <2> QED
    BY <1>0, <1>2, <1>4, <2>1, BrainMoves DEF CancelInv
<1>5. ASSUME NEW g \in Sessions, SessionStep(g) \/ SessionError(g) \/ SessionGivesUp(g) PROVE CancelInv'
  <2>1. UNCHANGED <<cancelled, overtaken, rpc>> /\ \A h \in Sessions \ {g} : tpc'[h] = tpc[h]
    BY <1>0, <1>5, SessionMoves DEF TaskTo
  <2>2. ASSUME Stays PROVE status' = "cancelled" /\ tpc'[g] \notin {"fail", "finish", "errorfail"}
    <3>1. status = "cancelled" /\ tpc[g] \notin {"fail", "finish", "errorfail"}
      BY <1>0, <2>2 DEF CancelInv
    <3>2. status' = status
      BY <1>5, <3>1
      DEF SessionStep, SessionLoad, SessionJoin, SessionRead, SessionFail, SessionFinish, SessionErrorRead,
          SessionLeave, SessionError, SessionGivesUp, rows
    <3>3. tpc'[g] \notin {"fail", "finish", "errorfail"}
      BY <1>0, <1>5, <3>1
      DEF SessionStep, SessionLoad, SessionJoin, SessionRead, SessionFail, SessionFinish, SessionErrorRead,
          SessionLeave, SessionError, SessionGivesUp, TaskTo
    <3> QED
      BY <3>1, <3>2, <3>3
  <2>3. ASSUME NEW h \in Sessions, Stays PROVE tpc'[h] \notin {"fail", "finish", "errorfail"}
    BY <1>0, <2>1, <2>2, <2>3 DEF CancelInv
  <2> QED
    BY <1>0, <2>1, <2>2, <2>3 DEF CancelInv, Kind
<1>6. CASE Crash
  BY <1>0, <1>2, <1>6 DEF Crash, CancelInv, rows
<1>7. CASE RecoverDecision \/ RecoverBrains
  BY <1>0, <1>2, <1>7 DEF RecoverDecision, RecoverBrains, CancelInv, tasks, calls, ghosts
<1> QED
  BY <1>1, <1>3, <1>4, <1>5, <1>6, <1>7 DEF Next

\* The invariant is kept by every step.
LEMMA IInvStep == IInv /\ [Next]_vars => IInv'
<1> SUFFICES ASSUME IInv, [Next]_vars PROVE IInv'
  OBVIOUS
<1>1. CASE Next
  BY <1>1, RowsStep, KnownStep, SessionsStep, CountersStep, LaunchStep, TaskStep, OpinionStep, CancelStep
  DEF IInv, KnownInv
<1>2. CASE UNCHANGED vars
  <2> USE <1>2 DEF vars, rows, known, memory, tasks, calls, budget, ghosts, IInv
  <2>1. RowsOK' /\ SessionsOK' /\ CountersOK' /\ scn' \in Scenarios
    BY DEF RowsOK, SessionsOK, CountersOK
  <2>2. LaunchInv' /\ TaskInv' /\ AskedInv' /\ OneOpinion'
    BY DEF LaunchInv, TaskInv, AskedInv, OneOpinion
  <2>3. CancelInv'
    BY DEF CancelInv, Kind
  <2>4. KnownOK' /\ SoundInv' /\ ConsentKept'
    BY DEF KnownOK, SoundInv, ConsentKept, Bundles
  <2> QED
    BY <2>1, <2>2, <2>3, <2>4
<1> QED
  BY <1>1, <1>2

-----------------------------------------------------------------------------
(* The theorems *)

(* The conjunction that the results below are read from: one launch and one  *)
(* session at a time, no brain asked that has an opinion, nothing left that  *)
(* would overwrite a cancel, and lineages that are complete.                 *)
THEOREM Invariance == Spec => []IInv
<1> QED
  BY InitIInv, IInvStep, PTL DEF Spec

(* The rows, the sessions, the evidence and the program counters keep their  *)
(* types; in particular no evidence or context names a bundle that is not    *)
(* stored.                                                                   *)
THEOREM TypeCorrect == Spec => []TypeOK
<1>1. IInv => TypeOK
  BY TypeParts DEF IInv
<1> QED
  BY <1>1, Invariance, PTL

(* Every brain has exactly one stored opinion if it is completed and none    *)
(* otherwise, across launches, pauses, dropped handlers and crashes.         *)
THEOREM OpinionsAreUnique == Spec => []OneOpinion
<1>1. IInv => OneOpinion
  BY DEF IInv
<1> QED
  BY <1>1, Invariance, PTL

(* A cancel that is written beside no operation past its check is final.     *)
THEOREM CancelIsFinal == Spec => []CancelledStays
<1>1. IInv => CancelledStays
  BY DEF IInv, CancelInv, CancelledStays
<1> QED
  BY <1>1, Invariance, PTL

(* No text of a retrieval bundle reaches an external brain, directly or      *)
(* through opinions, unless the bundle is the newest one and has consent.    *)
THEOREM ConsentIsKept == Spec => []ConsentKept
<1>1. IInv => ConsentKept
  BY DEF IInv
<1> QED
  BY <1>1, Invariance, PTL
=============================================================================
