--------------------------- MODULE CronJobsProofs ---------------------------
(***************************************************************************)
(* Theorems about CronJobs, for every set of jobs, ticks, requests and     *)
(* conversations and every workload.                                       *)
(***************************************************************************)
EXTENDS CronJobs, TLAPS

-----------------------------------------------------------------------------
(* The inductive invariant *)

(* TypeOK with the workload *)
TypeInv == TypeOK /\ scn \in Scenarios

(* what a request is doing where it stands *)
Doing(r) ==
    /\ pc[r] \in {"prepare", "run", "turn", "record"} => Op(r) = "runnow"
    /\ pc[r] = "load" => Op(r) = "resume"
    /\ pc[r] = "write" => Op(r) \in {"update", "remove", "resume"}
    /\ pc[r] = "arm" => Op(r) \in {"add", "update", "resume"}
    /\ pc[r] \notin {"idle", "reschedule"} /\ result[r] # "retrying"
    /\ \A j \in Jobs : todo[r][j].live => Op(r) = "resume" /\ pc[r] \in {"load", "write", "arm"}
OpInv == \A r \in Requests : Doing(r)

(* The limit of a row does not change, so the attempts a tick counts on its *)
(* copy are within the limit of the row.                                    *)
Counting(p) ==
    /\ pc[p] \notin {"idle", "load"} => copy[p].limit = row[job[p]].limit
    /\ result[p] = "retrying" => pc[p] \in {"record", "arm"} /\ copy[p].retry < copy[p].limit
LimitInv == \A p \in Ticks : Counting(p)

(* The timer of a job agrees with its row *)
Follows(j) == IF Due(j) THEN timer[j] \in {row[j].sched, "at"} ELSE timer[j] = "none"

(* two rows that are armed alike *)
Same(w, v) == w.live = v.live /\ w.enabled = v.enabled /\ w.sched = v.sched /\ w.next = v.next

(* p is going to arm or cancel the timer of j; nobody else is *)
Arms(p, j)  == Handles(p, j) /\ Arming(p)
Alone(p, j) == \A q \in Procs \ {p} : ~Arms(q, j)

(* schedules whose timer goes off once *)
OneShot == {"at", "manual"}

(* What a tick, an add, an update, a remove and a resume know of the row and *)
(* the timer of a job that met no failure and no concurrent edit.            *)
TickInv(p, j) ==
    /\ pc[p] # "load" => copy[p].live /\ copy[p].enabled /\ copy[p].sched = row[j].sched
    /\ IF pc[p] = "arm" /\ result[p] # "retrying" THEN Due(j) <=> row[j].sched \notin OneShot ELSE Due(j)
    /\ row[j].sched \in OneShot => timer[j] = "none"
AddInv(r, j) == Same(copy[r], row[j]) /\ timer[j] = "none"
UpdateInv(r, j) ==
    IF pc[r] = "write" THEN Follows(j) /\ (row[j].live => Same(copy[r], Edited(r, row[j]))) ELSE Same(copy[r], row[j])
ResumeInv(r, j) ==
    /\ todo[r][j].live => todo[r][j].enabled /\ Same(todo[r][j], row[j])
    /\ todo[r][j].live \/ pc[r] \in {"load", "write"} => Follows(j)
    /\ job[r] = j /\ pc[r] \in {"write", "arm"} =>
          /\ copy[r].live /\ copy[r].enabled /\ ~todo[r][j].live
          /\ pc[r] = "write" => Same(copy[r], row[j])
          /\ pc[r] = "arm" => row[j].sched = copy[r].sched /\ (Due(j) <=> copy[r].sched \notin OneShot)
Knows(p, j) ==
    /\ p \in Ticks => TickInv(p, j)
    /\ p \in Requests =>
          /\ Op(p) = "add" => AddInv(p, j)
          /\ Op(p) = "update" => UpdateInv(p, j)
          /\ Op(p) = "remove" => timer[j] = "none"
          /\ Op(p) = "resume" => ResumeInv(p, j)

(* Only the ticks of a periodic job overlap. *)
JobInv(j) ==
    /\ Quiet(j) => Follows(j)
    /\ \A p \in Procs : Arms(p, j) =>
          Knows(p, j) /\ (Alone(p, j) \/ (p \in Ticks /\ row[j].sched \notin OneShot))

IInv == TypeInv /\ OpInv /\ LimitInv /\ \A j \in Jobs \ excused : JobInv(j)

-----------------------------------------------------------------------------
(* Types *)

(* The values the operators on rows return are rows. *)
LEMMA RowTypes ==
    ASSUME NEW w \in Row
    PROVE  /\ NoRow \in Row
           /\ Armed(w) \in {"none", "at", "every", "cron"}
           /\ [w EXCEPT !.live = FALSE] \in Row /\ [w EXCEPT !.retry = 0] \in Row
           /\ \A n \in Limits : [w EXCEPT !.retry = n] \in Row
           /\ \A c \in Row : AfterRun(c, w) \in Row
           /\ \A s \in Schedules : [w EXCEPT !.next = ComputeNextRun(s)] \in Row
<1>1. 0 \in Limits /\ "manual" \in Schedules
  BY CronAssumption, SMT DEF Limits, Schedules
<1>2. NoRow \in Row
  BY <1>1 DEF NoRow, Row
<1>3. Armed(w) \in {"none", "at", "every", "cron"}
  BY DEF Armed, Row, Schedules
<1>4. /\ [w EXCEPT !.live = FALSE] \in Row /\ [w EXCEPT !.retry = 0] \in Row
      /\ \A n \in Limits : [w EXCEPT !.retry = n] \in Row
  BY <1>1 DEF Row
<1>5. \A s : [w EXCEPT !.next = ComputeNextRun(s)] \in Row
  BY DEF Row, ComputeNextRun
<1>6. \A c \in Row : AfterRun(c, w) \in Row
  BY <1>5 DEF AfterRun, Row
<1> QED
  BY <1>2, <1>3, <1>4, <1>5, <1>6

(* Moving one process keeps the types of the tables of processes. *)
LEMMA MoveTypes ==
    ASSUME TypeOK, NEW p \in Procs, NEW s, GoTo(p, s),
           s \in Steps \cup {"new", "write", "done"}, p \in Ticks => s \in Steps
    PROVE  pc' \in [Procs -> Steps \cup {"new", "write", "done"}] /\ \A q \in Ticks : pc'[q] \in Steps
BY DEF TypeOK, GoTo, Procs

(* A process that ends keeps the types of the tables of processes. *)
LEMMA EndTypes ==
    ASSUME TypeOK, NEW p \in Procs, Ends(p)
    PROVE  /\ pc' \in [Procs -> Steps \cup {"new", "write", "done"}] /\ \A q \in Ticks : pc'[q] \in Steps
           /\ job' \in [Procs -> Jobs] /\ copy' \in [Procs -> Row] /\ result' \in [Procs -> Results]
<1>1. AnyJob \in Jobs /\ NoRow \in Row
  <2>1. AnyJob \in Jobs
    BY CronAssumption DEF AnyJob
  <2>2. PICK j \in Jobs : row[j] \in Row
    BY <2>1 DEF TypeOK
  <2> QED
    BY <2>1, <2>2, RowTypes
<1>2. pc' \in [Procs -> Steps \cup {"new", "write", "done"}] /\ \A q \in Ticks : pc'[q] \in Steps
  <2>1. GoTo(p, IF p \in Ticks THEN "idle" ELSE "done")
    BY DEF Ends
  <2> QED
    BY <2>1, MoveTypes DEF Steps
<1> QED
  BY <1>1, <1>2 DEF TypeOK, Ends, Results

(* Writing a row keeps the types of the rows and their limits. *)
LEMMA StoreTypes ==
    ASSUME TypeOK, NEW j \in Jobs, NEW w \in Row, w.retry <= w.limit, Store(j, w)
    PROVE  row' \in [Jobs -> Row] /\ \A k \in Jobs : row'[k].retry <= row'[k].limit
BY DEF TypeOK, Store

(* Every step keeps the types. *)
LEMMA TypeStep ==
    ASSUME TypeInv, OpInv, LimitInv, [Next]_vars
    PROVE  TypeInv'
<1> USE DEF Procs, TypeInv
<1> DEFINE RowT == row' \in [Jobs -> Row] /\ \A k \in Jobs : row'[k].retry <= row'[k].limit
           TimerT == timer' \in [Jobs -> {"none", "at", "every", "cron"}]
           ClaimT == claim' \in [Convs -> {Free, User} \cup Procs]
           PcT == pc' \in [Procs -> Steps \cup {"new", "write", "done"}] /\ \A q \in Ticks : pc'[q] \in Steps
           JobT == job' \in [Procs -> Jobs]
           CopyT == copy' \in [Procs -> Row]
           ResultT == result' \in [Procs -> Results]
           TodoT == todo' \in [Requests -> [Jobs -> Row]]
           FaultT == faults' \in 0..2
           RestartT == restarts' \in 0..2
           ExcusedT == excused' \subseteq Jobs
<1>k. ASSUME scn' = scn, RowT, TimerT, ClaimT, PcT, JobT, CopyT, ResultT, TodoT, FaultT, RestartT, ExcusedT
      PROVE  TypeInv'
  BY <1>k DEF TypeOK
<1>u. /\ row' = row => RowT
      /\ timer' = timer => TimerT
      /\ claim' = claim => ClaimT
      /\ pc' = pc => PcT
      /\ job' = job => JobT
      /\ copy' = copy => CopyT
      /\ result' = result => ResultT
      /\ todo' = todo => TodoT
      /\ faults' = faults => FaultT
      /\ restarts' = restarts => RestartT
      /\ excused' = excused => ExcusedT
  BY DEF TypeOK
<1>f. Fails => FaultT
  BY SMT DEF TypeOK, Fails
<1>r. AnyJob \in Jobs /\ NoRow \in Row
  <2>1. AnyJob \in Jobs
    BY CronAssumption DEF AnyJob
  <2>2. PICK j \in Jobs : row[j] \in Row
    BY <2>1 DEF TypeOK
  <2> QED
    BY <2>1, <2>2, RowTypes
<1>s. /\ scn \in Workloads
      /\ \A r \in Requests : scn.call[r] \in Call /\ (Op(r) = "add" => scn.call[r].sched \in Schedules)
  BY CronAssumption DEF Workloads, Call, Op
<1>a. ASSUME NEW j \in Jobs, NEW t \in {"none", "at", "every", "cron"}, Arm(j, t) PROVE TimerT
  BY <1>a DEF TypeOK, Arm
<1>x. ASSUME NEW j \in Jobs, NEW p, Excuse(p, j) PROVE ExcusedT
  BY <1>x DEF TypeOK, Excuse
<1>xx. ASSUME NEW j \in Jobs, excused' = excused \cup {j} PROVE ExcusedT
  BY <1>xx DEF TypeOK
<1>e. ASSUME NEW p \in Procs, Ends(p) PROVE PcT /\ JobT /\ CopyT /\ ResultT
  BY <1>e, EndTypes
<1>fin. ASSUME NEW p \in Procs, NEW x \in Results, Finish(p, x) PROVE PcT /\ ResultT
  <2>1. GoTo(p, "record") /\ ResultT
    BY <1>fin DEF Finish, TypeOK
  <2> QED
    BY <2>1, MoveTypes DEF Steps
<1>b. ASSUME NEW p \in Procs, HandleBusy(p) PROVE PcT /\ ResultT
  BY <1>b, <1>fin DEF HandleBusy, Results
<1>m. ASSUME NEW p \in Procs, NEW s \in Steps \cup {"write", "done"}, GoTo(p, s), p \in Ticks => s \in Steps PROVE PcT
  BY <1>m, MoveTypes DEF Steps
<1>p. ASSUME NEW p \in Procs
      PROVE  job[p] \in Jobs /\ copy[p] \in Row /\ row[job[p]] \in Row /\ row[job[p]].retry <= row[job[p]].limit
  BY DEF TypeOK
<1> HIDE DEF RowT, TimerT, ClaimT, PcT, JobT, CopyT, ResultT, TodoT, FaultT, RestartT, ExcusedT
<1>0. CASE UNCHANGED vars
  BY <1>0, <1>k, <1>u DEF vars, procs, budget
<1>1. ASSUME NEW c \in Convs, UserTurn(c) \/ UserTurnEnds(c) PROVE TypeInv'
  <2>1. ClaimT
    BY <1>1 DEF ClaimT, TypeOK, UserTurn, UserTurnEnds
  <2> QED
    BY <1>1, <1>k, <1>u, <2>1 DEF UserTurn, UserTurnEnds, procs, budget
<1>2. ASSUME NEW j \in Jobs, Fire(j) PROVE TypeInv'
  <2> DEFINE p == CHOOSE q \in Ticks : pc[q] = "idle"
  <2>1. p \in Ticks /\ GoTo(p, "load") /\ job' = [job EXCEPT ![p] = j] /\ Excuse(p, j)
    BY <1>2 DEF Fire
  <2>2. timer' = [timer EXCEPT ![j] = IF @ = "at" THEN "none" ELSE @] /\ UNCHANGED <<scn, row, claim, copy, result, todo, budget>>
    BY <1>2 DEF Fire
  <2> HIDE DEF p
  <2>3. TimerT
    BY <2>2 DEF TimerT, TypeOK
  <2>4. JobT
    BY <2>1 DEF JobT, TypeOK
  <2>5. PcT
    BY <2>1, <1>m DEF Steps
  <2>6. ExcusedT
    BY <2>1, <1>x
  <2> QED
    BY <2>2, <2>3, <2>4, <2>5, <2>6, <1>k, <1>u DEF budget
<1>3. ASSUME NEW p \in Ticks, Tick(p) PROVE TypeInv'
  <2>1. CASE TickMissing(p)
    <3>1. TimerT
      BY <2>1, <1>a, <1>p DEF TickMissing
    <3> QED
      BY <2>1, <3>1, <1>e, <1>k, <1>u DEF TickMissing, budget
  <2>2. CASE TickLoadFails(p)
    BY <2>2, <1>e, <1>f, <1>xx, <1>p, <1>k, <1>u DEF TickLoadFails
  <2>3. CASE TickDisabled(p)
    BY <2>3, <1>e, <1>k, <1>u DEF TickDisabled, budget
  <2>4. CASE TickLoads(p)
    <3>1. CopyT
      BY <2>4, <1>p DEF CopyT, TickLoads, TypeOK
    <3>2. PcT
      BY <2>4, <1>m DEF TickLoads, Steps
    <3> QED
      BY <2>4, <3>1, <3>2, <1>k, <1>u DEF TickLoads, budget
  <2>5. CASE Reschedule(p)
    <3>1. PcT
      BY <2>5, <1>m DEF Reschedule, Steps
    <3>2. RowT
      <4> DEFINE w == AfterRun(copy[p], row[job[p]])
      <4>1. w \in Row
        BY <1>p, RowTypes
      <4>2. w.retry <= w.limit
        BY <1>p DEF AfterRun, Row
      <4>3. Store(job[p], w) \/ row' = row
        BY <2>5 DEF Reschedule
      <4> HIDE DEF w
      <4> QED
        BY <4>1, <4>2, <4>3, <1>p, <1>u, StoreTypes DEF RowT
    <3>3. FaultT /\ ExcusedT
      BY <2>5, <1>f, <1>xx, <1>p, <1>u DEF Reschedule
    <3> QED
      BY <2>5, <3>1, <3>2, <3>3, <1>k, <1>u DEF Reschedule
  <2>6. CASE TickArm(p)
    <3> DEFINE w == [copy[p] EXCEPT !.next = ComputeNextRun(copy[p].sched)]
    <3>1. Armed(w) \in {"none", "at", "every", "cron"}
      <4>1. copy[p].sched \in Schedules
        BY <1>p DEF Row
      <4> QED
        BY <1>p, <4>1, RowTypes
    <3> DEFINE t == CASE result[p] = "retrying" -> "at"
                      [] result[p] # "retrying" /\ copy[p].sched = "at" -> "none"
                      [] OTHER -> Armed(w)
    <3>2. Arm(job[p], t)
      BY <2>6 DEF TickArm, RetryTimer
    <3> HIDE DEF w
    <3>3. t \in {"none", "at", "every", "cron"}
      BY <3>1
    <3> HIDE DEF t
    <3>4. TimerT
      BY <3>2, <3>3, <1>a, <1>p
    <3> QED
      BY <2>6, <3>4, <1>e, <1>k, <1>u DEF TickArm, budget
  <2> QED
    BY <1>3, <2>1, <2>2, <2>3, <2>4, <2>5, <2>6 DEF Tick
<1>4. ASSUME NEW p \in Procs, Execution(p) PROVE TypeInv'
  <2>1. CASE PrepareFails(p)
    <3>1. PcT /\ JobT /\ CopyT /\ ResultT
      BY <2>1, <1>e, <1>fin, <1>u DEF PrepareFails, Results
    <3> QED
      BY <2>1, <3>1, <1>k, <1>u DEF PrepareFails, budget
  <2>2. CASE PrepareBusy(p)
    <3>1. PcT /\ JobT /\ CopyT /\ ResultT
      BY <2>2, <1>e, <1>b, <1>u DEF PrepareBusy
    <3> QED
      BY <2>2, <3>1, <1>k, <1>u DEF PrepareBusy, budget
  <2>3. CASE Prepare(p)
    BY <2>3, <1>m, <1>k, <1>u DEF Prepare, Steps, budget
  <2>4. CASE RunBusy(p)
    <3>1. PcT /\ ResultT
      BY <2>4, <1>fin, <1>b DEF RunBusy, Results
    <3> QED
      BY <2>4, <3>1, <1>k, <1>u DEF RunBusy, budget
  <2>5. CASE Run(p)
    <3>1. PcT
      BY <2>5, <1>m DEF Run, Steps
    <3>2. ClaimT
      BY <2>5 DEF ClaimT, Run, TypeOK
    <3> QED
      BY <2>5, <3>1, <3>2, <1>k, <1>u DEF Run, budget
  <2>6. CASE TurnEnds(p)
    <3>1. PcT /\ ResultT
      BY <2>6, <1>fin DEF TurnEnds, Results
    <3>2. ClaimT
      BY <2>6 DEF ClaimT, TurnEnds, TypeOK
    <3> QED
      BY <2>6, <3>1, <3>2, <1>k, <1>u DEF TurnEnds, budget
  <2>7. CASE Record(p)
    <3>1. PcT /\ JobT /\ CopyT /\ ResultT
      <4>1. CASE p \in Requests
        BY <2>7, <4>1, <1>e DEF Record
      <4>2. CASE p \notin Requests
        <5>1. \E s \in {"arm", "reschedule"} : GoTo(p, s)
          BY <2>7, <4>2 DEF Record
        <5> QED
          BY <2>7, <4>2, <5>1, <1>m, <1>u DEF Record, Steps
      <4> QED
        BY <4>1, <4>2
    <3>2. RowT
      <4> DEFINE w == Recorded(p, row[job[p]])
                 n == IF result[p] = "retrying" THEN copy[p].retry + 1 ELSE 0
      <4>1. n \in Limits /\ n <= row[job[p]].limit
        <5>1. CASE result[p] = "retrying"
          <6>1. p \in Ticks
            BY <5>1 DEF OpInv, Doing
          <6>2. copy[p].limit = row[job[p]].limit /\ copy[p].retry < copy[p].limit
            BY <2>7, <5>1, <6>1 DEF LimitInv, Counting, Record
          <6> QED
            BY <5>1, <6>2, <1>p, CronAssumption, SMT DEF Row, Limits
        <5>2. CASE result[p] # "retrying"
          BY <5>2, <1>p, CronAssumption, SMT DEF Row, Limits
        <5> QED
          BY <5>1, <5>2
      <4>2. w = [row[job[p]] EXCEPT !.retry = n]
        BY DEF Recorded
      <4> HIDE DEF n, w
      <4>3. w \in Row
        BY <4>1, <4>2, <1>p, RowTypes
      <4>4. w.retry <= w.limit
        BY <4>1, <4>2, <1>p DEF Row
      <4>5. Store(job[p], w) \/ row' = row
        BY <2>7 DEF Record, w
      <4> QED
        BY <4>3, <4>4, <4>5, <1>p, <1>u, StoreTypes DEF RowT
    <3>3. FaultT /\ ExcusedT
      BY <2>7, <1>f, <1>xx, <1>p, <1>u DEF Record
    <3> QED
      BY <2>7, <3>1, <3>2, <3>3, <1>k, <1>u DEF Record
  <2> QED
    BY <1>4, <2>1, <2>2, <2>3, <2>4, <2>5, <2>6, <2>7 DEF Execution
<1>5. ASSUME NEW r \in Requests, Request(r) PROVE TypeInv'
  <2>c. /\ scn.call[r].job \in Jobs /\ scn.call[r].enabled \in BOOLEAN \cup {Keep}
        /\ scn.call[r].sched \in Schedules \cup {Keep} /\ row[scn.call[r].job] \in Row
    BY <1>s DEF Call, TypeOK
  <2>0. r \in Procs /\ r \notin Ticks
    BY CronAssumption
  <2>j. (job' = [job EXCEPT ![r] = scn.call[r].job]) => JobT
    BY <2>c DEF JobT, TypeOK
  <2>1. CASE AddInsert(r)
    <3>1. NewRow(r) \in Row /\ NewRow(r).retry <= NewRow(r).limit
      <4>1. scn.call[r].sched \in Schedules
        BY <2>1, <1>s DEF AddInsert, Begins
      <4>2. 0 \in Limits /\ MaxRetries \in Limits /\ 0 <= MaxRetries
        BY CronAssumption, SMT DEF Limits
      <4> QED
        BY <4>1, <4>2 DEF NewRow, Row, ComputeNextRun
    <3>2. RowT
      BY <2>1, <2>c, <3>1 DEF RowT, AddInsert, TypeOK
    <3>3. CopyT
      BY <2>1, <3>1 DEF CopyT, AddInsert, TypeOK
    <3>4. PcT
      BY <2>1, <2>0, <1>m DEF AddInsert, Steps
    <3> QED
      BY <2>1, <2>j, <3>2, <3>3, <3>4, <1>k, <1>u DEF AddInsert, budget
  <2>2. CASE RequestArm(r)
    <3>1. TimerT
      BY <2>2, <1>p, <2>0, <1>a, RowTypes DEF RequestArm
    <3> QED
      BY <2>2, <2>0, <3>1, <1>e, <1>k, <1>u DEF RequestArm, budget
  <2>3. CASE UpdateLoad(r)
    <3>1. Edited(r, row[scn.call[r].job]) \in Row
      BY <2>c DEF Edited, Row, ComputeNextRun, GivesEnabled, GivesSched
    <3>2. CopyT
      BY <2>3, <3>1 DEF CopyT, UpdateLoad, TypeOK
    <3>3. PcT
      BY <2>3, <2>0, <1>m DEF UpdateLoad, Steps
    <3>4. ExcusedT
      BY <2>3, <2>c, <1>x DEF UpdateLoad
    <3> QED
      BY <2>3, <2>j, <3>2, <3>3, <3>4, <1>k, <1>u DEF UpdateLoad, budget
  <2>4. CASE UpdateWrite(r)
    <3> DEFINE w == Params(r, row[job[r]])
    <3>1. w \in Row /\ w.retry <= w.limit
      BY <1>p, <2>0 DEF Params, Row
    <3>2. Store(job[r], w)
      BY <2>4 DEF UpdateWrite
    <3> HIDE DEF w
    <3>3. RowT
      BY <3>1, <3>2, <2>0, <1>p, StoreTypes DEF RowT
    <3>4. PcT
      BY <2>4, <2>0, <1>m DEF UpdateWrite, Steps
    <3> QED
      BY <2>4, <3>3, <3>4, <1>k, <1>u DEF UpdateWrite, budget
  <2>5. CASE UpdateRefused(r)
    BY <2>5, <2>0, <1>e, <1>k, <1>u DEF UpdateRefused, budget
  <2>6. CASE RemoveCancel(r)
    <3>1. TimerT /\ ExcusedT
      BY <2>6, <2>c, <1>a, <1>x DEF RemoveCancel
    <3>2. PcT
      BY <2>6, <2>0, <1>m DEF RemoveCancel, Steps
    <3> QED
      BY <2>6, <2>j, <3>1, <3>2, <1>k, <1>u DEF RemoveCancel, budget
  <2>7. CASE RemoveDelete(r)
    <3>1. RowT
      <4>1. row' = row \/ row' = [row EXCEPT ![job[r]].live = FALSE]
        BY <2>7 DEF RemoveDelete
      <4> DEFINE w == [row[job[r]] EXCEPT !.live = FALSE]
      <4>2. w \in Row
        BY <1>p, <2>0, RowTypes
      <4>3. w.retry <= w.limit
        BY <1>p, <2>0 DEF Row
      <4>4. row' = row \/ row' = [row EXCEPT ![job[r]] = w]
        BY <4>1
      <4> HIDE DEF w
      <4>5. row \in [Jobs -> Row] /\ \A j \in Jobs : row[j].retry <= row[j].limit
        BY DEF TypeOK
      <4>6. CASE row' = row
        BY <4>6, <1>u
      <4>7. CASE row' = [row EXCEPT ![job[r]] = w]
        BY <4>2, <4>3, <4>5, <4>7, <2>0 DEF RowT
      <4> QED
        BY <4>4, <4>6, <4>7
    <3>2. FaultT /\ ExcusedT
      BY <2>7, <2>0, <1>f, <1>xx, <1>p, <1>u DEF RemoveDelete
    <3> QED
      BY <2>7, <2>0, <3>1, <3>2, <1>e, <1>k, <1>u DEF RemoveDelete
  <2>8. CASE RunNow(r)
    <3>1. CopyT
      BY <2>8, <2>c DEF CopyT, RunNow, TypeOK
    <3>2. PcT
      BY <2>8, <2>0, <1>m DEF RunNow, Steps
    <3> QED
      BY <2>8, <2>j, <3>1, <3>2, <1>k, <1>u DEF RunNow, budget
  <2>9. CASE ResumeList(r)
    <3>1. TodoT
      BY <2>9, <1>r DEF TodoT, ResumeList, TypeOK
    <3>2. PcT
      BY <2>9, <2>0, <1>m DEF ResumeList, Steps
    <3>3. ExcusedT
      BY <2>9 DEF ExcusedT, ResumeList, TypeOK
    <3> QED
      BY <2>9, <3>1, <3>2, <3>3, <1>k, <1>u DEF ResumeList, budget
  <2>10. CASE ResumeWrite(r)
    <3>1. RowT
      <4> DEFINE w == AfterRun(copy[r], row[job[r]])
      <4>1. w \in Row
        BY <1>p, <2>0, RowTypes
      <4>2. w.retry <= w.limit
        BY <1>p, <2>0 DEF AfterRun, Row
      <4>3. Store(job[r], w) \/ row' = row
        BY <2>10 DEF ResumeWrite
      <4> HIDE DEF w
      <4> QED
        BY <4>1, <4>2, <4>3, <2>0, <1>p, <1>u, StoreTypes DEF RowT
    <3>2. FaultT /\ ExcusedT
      BY <2>10, <2>0, <1>f, <1>xx, <1>p, <1>u DEF ResumeWrite
    <3>3. PcT
      <4>1. \E s \in {"arm", "load"} : GoTo(r, s)
        BY <2>10 DEF ResumeWrite
      <4> QED
        BY <4>1, <2>0, <1>m DEF Steps
    <3>4. CopyT
      BY <2>10, <1>r, <1>u DEF CopyT, ResumeWrite, TypeOK
    <3> QED
      BY <2>10, <3>1, <3>2, <3>3, <3>4, <1>k, <1>u DEF ResumeWrite
  <2>11. CASE ResumeArm(r)
    <3> DEFINE w == [copy[r] EXCEPT !.next = ComputeNextRun(copy[r].sched)]
               t == IF copy[r].sched = "at" THEN "none" ELSE Armed(w)
    <3>1. Armed(w) \in {"none", "at", "every", "cron"}
      <4>1. copy[r] \in Row /\ copy[r].sched \in Schedules
        BY <1>p, <2>0 DEF Row
      <4> QED
        BY <4>1, RowTypes
    <3>2. Arm(job[r], t)
      BY <2>11 DEF ResumeArm
    <3> HIDE DEF w
    <3>3. t \in {"none", "at", "every", "cron"}
      BY <3>1
    <3> HIDE DEF t
    <3>4. TimerT
      BY <3>2, <3>3, <1>a, <1>p, <2>0
    <3>5. CopyT
      BY <2>11, <1>r DEF CopyT, ResumeArm, TypeOK
    <3>6. PcT
      BY <2>11, <2>0, <1>m DEF ResumeArm, Steps
    <3> QED
      BY <2>11, <3>4, <3>5, <3>6, <1>k, <1>u DEF ResumeArm, budget
  <2>12. CASE ResumeEnds(r)
    BY <2>12, <2>0, <1>e, <1>k, <1>u DEF ResumeEnds, budget
  <2>13. ASSUME NEW j \in Jobs, ResumeKeeps(r, j) \/ ResumeMissed(r, j) PROVE TypeInv'
    <3>1. todo[r][j] \in Row /\ row[j] \in Row /\ row[j].retry <= row[j].limit
      BY DEF TypeOK
    <3>2. TodoT
      <4>1. todo' = [todo EXCEPT ![r][j] = NoRow]
        BY <2>13 DEF ResumeKeeps, ResumeMissed, Handled
      <4> QED
        BY <4>1, <1>r DEF TodoT, TypeOK
    <3>3. CASE ResumeKeeps(r, j)
      <4>1. TimerT
        BY <3>3, <3>1, <1>a, RowTypes DEF ResumeKeeps
      <4> QED
        BY <3>3, <3>2, <4>1, <1>k, <1>u DEF ResumeKeeps, budget
    <3>4. CASE ResumeMissed(r, j)
      <4>1. JobT /\ CopyT
        BY <3>4, <3>1 DEF JobT, CopyT, ResumeMissed, TypeOK
      <4>2. PcT
        BY <3>4, <2>0, <1>m DEF ResumeMissed, Steps
      <4>3. FaultT /\ ExcusedT
        BY <3>4, <1>f, <1>xx, <1>u DEF ResumeMissed
      <4>4. RowT
        <5> DEFINE w == [row[j] EXCEPT !.retry = 0]
        <5>1. w \in Row /\ w.retry <= w.limit
          <6>1. w \in Row
            BY <3>1, RowTypes
          <6>2. w.retry = 0 /\ w.limit \in Nat
            BY <3>1, CronAssumption, SMT DEF Row, Limits
          <6> QED
            BY <6>1, <6>2, SMT
        <5>2. Store(j, w) \/ row' = row
          BY <3>4 DEF ResumeMissed
        <5> HIDE DEF w
        <5> QED
          BY <5>1, <5>2, <1>u, StoreTypes DEF RowT
      <4> QED
        BY <3>4, <3>2, <4>1, <4>2, <4>3, <4>4, <1>k, <1>u DEF ResumeMissed
    <3> QED
      BY <2>13, <3>3, <3>4
  <2> QED
    BY <1>5, <2>1, <2>2, <2>3, <2>4, <2>5, <2>6, <2>7, <2>8, <2>9, <2>10, <2>11, <2>12, <2>13 DEF Request
<1>6. CASE Restart
  <2>1. PcT
    BY <1>6 DEF PcT, Restart, TypeOK, Steps
  <2>2. JobT /\ CopyT /\ ResultT /\ TodoT
    BY <1>6, <1>r DEF JobT, CopyT, ResultT, TodoT, Restart, Results
  <2>3. ClaimT
    BY <1>6 DEF ClaimT, Restart
  <2>4. TimerT
    <3>1. \A j \in Jobs : Armed(row[j]) \in {"none", "at", "every", "cron"}
      BY RowTypes DEF TypeOK
    <3> QED
      BY <1>6, <3>1 DEF TimerT, Restart
  <2>5. ExcusedT
    BY <1>6 DEF ExcusedT, Restart
  <2>6. FaultT
    BY <1>6, <1>f, <1>u DEF Restart
  <2>7. RestartT
    BY <1>6, SMT DEF RestartT, Restart, TypeOK
  <2> QED
    BY <1>6, <2>1, <2>2, <2>3, <2>4, <2>5, <2>6, <2>7, <1>k, <1>u DEF Restart
<1>7. ASSUME NEW r \in Requests, Drop(r) PROVE TypeInv'
  <2>1. r \in Procs /\ Ends(r) /\ job[r] \in Jobs
    BY <1>7, <1>p DEF Drop
  <2>2. TodoT
    BY <1>7, <1>r DEF TodoT, Drop, TypeOK
  <2>3. ExcusedT
    BY <1>7, <2>1, <1>xx, <1>u DEF Drop
  <2> QED
    BY <1>7, <2>1, <2>2, <2>3, <1>e, <1>k, <1>u DEF Drop, budget
<1> QED
  BY <1>0, <1>1, <1>2, <1>3, <1>4, <1>5, <1>6, <1>7 DEF Next

-----------------------------------------------------------------------------
(* Every step but a restart moves at most one process. *)

Apart(p) ==
    /\ scn' = scn
    /\ \A q \in Procs \ {p} : pc'[q] = pc[q] /\ job'[q] = job[q] /\ copy'[q] = copy[q] /\ result'[q] = result[q]
    /\ \A r \in Requests \ {p} : todo'[r] = todo[r]

(* A timer that goes off starts one tick, of its own job. *)
LEMMA FireApart ==
    ASSUME TypeOK, NEW j \in Jobs, Fire(j)
    PROVE  \E p \in Ticks :
             /\ Apart(p) /\ pc[p] = "idle" /\ pc'[p] = "load" /\ job'[p] = j
             /\ copy'[p] = copy[p] /\ result'[p] = result[p] /\ Excuse(p, j)
             /\ row' = row /\ timer[j] # "none" /\ timer'[j] = (IF timer[j] = "at" THEN "none" ELSE timer[j])
             /\ \A k \in Jobs \ {j} : timer'[k] = timer[k]
<1> DEFINE p == CHOOSE q \in Ticks : pc[q] = "idle"
<1>1. p \in Ticks /\ pc[p] = "idle" /\ GoTo(p, "load") /\ job' = [job EXCEPT ![p] = j] /\ Excuse(p, j)
  BY DEF Fire
<1>2. /\ timer' = [timer EXCEPT ![j] = IF @ = "at" THEN "none" ELSE @] /\ timer[j] # "none"
      /\ UNCHANGED <<scn, row, claim, copy, result, todo, budget>>
  BY DEF Fire
<1> HIDE DEF p
<1>3. Apart(p) /\ pc'[p] = "load" /\ job'[p] = j
  BY <1>1, <1>2 DEF Apart, GoTo, TypeOK, Procs
<1> QED
  BY <1>1, <1>2, <1>3 DEF TypeOK

(* A step of tick changes its own tick only. *)
LEMMA TickApart ==
    ASSUME TypeOK, NEW p \in Ticks, Tick(p)
    PROVE  Apart(p)
<1> USE DEF Apart, TypeOK, GoTo, Ends, Procs
<1>1. CASE TickMissing(p)
  BY <1>1 DEF TickMissing
<1>2. CASE TickLoadFails(p)
  BY <1>2 DEF TickLoadFails
<1>3. CASE TickDisabled(p)
  BY <1>3 DEF TickDisabled
<1>4. CASE TickLoads(p)
  BY <1>4 DEF TickLoads
<1>5. CASE Reschedule(p)
  BY <1>5 DEF Reschedule
<1>6. CASE TickArm(p)
  BY <1>6 DEF TickArm
<1> QED
  BY <1>1, <1>2, <1>3, <1>4, <1>5, <1>6 DEF Tick

(* A step of the executor changes its own process only. *)
LEMMA ExecutionApart ==
    ASSUME TypeOK, NEW p \in Procs, Execution(p)
    PROVE  Apart(p)
<1> USE DEF Apart, TypeOK, GoTo, Ends, Finish, HandleBusy
<1>1. CASE PrepareFails(p)
  BY <1>1 DEF PrepareFails
<1>2. CASE PrepareBusy(p)
  BY <1>2 DEF PrepareBusy
<1>3. CASE Prepare(p)
  BY <1>3 DEF Prepare
<1>4. CASE RunBusy(p)
  BY <1>4 DEF RunBusy
<1>5. CASE Run(p)
  BY <1>5 DEF Run
<1>6. CASE TurnEnds(p)
  BY <1>6 DEF TurnEnds
<1>7. CASE Record(p)
  BY <1>7 DEF Record
<1> QED
  BY <1>1, <1>2, <1>3, <1>4, <1>5, <1>6, <1>7 DEF Execution

(* A step of a request changes its own request only. *)
LEMMA RequestApart ==
    ASSUME TypeOK, NEW r \in Requests, Request(r)
    PROVE  Apart(r)
<1> USE DEF Apart, TypeOK, GoTo, Ends, Handled, Procs
<1>1. CASE AddInsert(r)
  BY <1>1 DEF AddInsert
<1>2. CASE RequestArm(r)
  BY <1>2 DEF RequestArm
<1>3. CASE UpdateLoad(r)
  BY <1>3 DEF UpdateLoad
<1>4. CASE UpdateWrite(r)
  BY <1>4 DEF UpdateWrite
<1>5. CASE UpdateRefused(r)
  BY <1>5 DEF UpdateRefused
<1>6. CASE RemoveCancel(r)
  BY <1>6 DEF RemoveCancel
<1>7. CASE RemoveDelete(r)
  BY <1>7 DEF RemoveDelete
<1>8. CASE RunNow(r)
  BY <1>8 DEF RunNow
<1>9. CASE ResumeList(r)
  BY <1>9 DEF ResumeList
<1>10. CASE ResumeWrite(r)
  BY <1>10 DEF ResumeWrite
<1>11. CASE ResumeArm(r)
  BY <1>11 DEF ResumeArm
<1>12. CASE ResumeEnds(r)
  BY <1>12 DEF ResumeEnds
<1>13. ASSUME NEW j \in Jobs, ResumeKeeps(r, j) PROVE Apart(r)
  BY <1>13 DEF ResumeKeeps
<1>14. ASSUME NEW j \in Jobs, ResumeMissed(r, j) PROVE Apart(r)
  BY <1>14 DEF ResumeMissed
<1> QED
  BY <1>1, <1>2, <1>3, <1>4, <1>5, <1>6, <1>7, <1>8, <1>9, <1>10, <1>11, <1>12, <1>13, <1>14 DEF Request

(* A dropped handler changes its own request only. *)
LEMMA DropApart ==
    ASSUME TypeOK, NEW r \in Requests, Drop(r)
    PROVE  /\ Apart(r) /\ row' = row /\ timer' = timer /\ pc'[r] = "done" /\ result'[r] = "none"
           /\ \A j \in Jobs : ~todo'[r][j].live
<1>0. r \in Procs /\ r \notin Ticks
  BY CronAssumption DEF Procs
<1>1. Apart(r) /\ row' = row /\ timer' = timer /\ pc'[r] = "done" /\ result'[r] = "none"
  BY <1>0 DEF Drop, Apart, TypeOK, GoTo, Ends, Procs
<1>2. todo'[r] = [j \in Jobs |-> NoRow]
  BY DEF Drop, TypeOK
<1> QED
  BY <1>1, <1>2 DEF NoRow

-----------------------------------------------------------------------------
(* What requests do, and the limits *)

(* Every step keeps a request within its operation. *)
LEMMA OpStep ==
    ASSUME TypeInv, OpInv, [Next]_vars
    PROVE  OpInv'
<1>t. TypeOK
  BY DEF TypeInv
<1>d. \A r \in Requests \cap Ticks : FALSE
  BY CronAssumption
<1>k. ASSUME NEW p \in Procs, Apart(p), p \in Requests => Doing(p)' PROVE OpInv'
  <2>1. ASSUME NEW r \in Requests, r # p PROVE Doing(r)'
    <3>1. pc'[r] = pc[r] /\ result'[r] = result[r] /\ todo'[r] = todo[r] /\ Op(r)' = Op(r)
      BY <1>k, <2>1 DEF Apart, Procs, Op
    <3> QED
      BY <3>1 DEF OpInv, Doing
  <2> QED
    BY <1>k, <2>1 DEF OpInv
<1>0. ASSUME UNCHANGED <<scn, procs>> PROVE OpInv'
  BY <1>0 DEF OpInv, Doing, procs, Op
<1>1. CASE UNCHANGED vars
  BY <1>1, <1>0 DEF vars
<1>2. ASSUME NEW c \in Convs, UserTurn(c) \/ UserTurnEnds(c) PROVE OpInv'
  BY <1>2, <1>0 DEF UserTurn, UserTurnEnds
<1>3. ASSUME NEW j \in Jobs, Fire(j) PROVE OpInv'
  BY <1>3, <1>k, <1>t, <1>d, FireApart DEF Procs
<1>4. ASSUME NEW p \in Ticks, Tick(p) PROVE OpInv'
  BY <1>4, <1>k, <1>t, <1>d, TickApart DEF Procs
<1>5. ASSUME NEW p \in Procs, Execution(p) PROVE OpInv'
  <2>1. SUFFICES ASSUME p \in Requests PROVE Doing(p)'
    BY <1>5, <1>k, <1>t, ExecutionApart
  <2>2. p \notin Ticks /\ Doing(p)
    BY <1>d, <2>1 DEF OpInv
  <2>3. todo' = todo /\ scn' = scn
    BY <1>5 DEF Execution, PrepareFails, PrepareBusy, Prepare, RunBusy, Run, TurnEnds, Record
  <2>4. Op(p) = "runnow"
    BY <1>5, <2>2 DEF Doing, Execution, PrepareFails, PrepareBusy, Prepare, RunBusy, Run, TurnEnds, Record
  <2>5. Op(p)' = "runnow" /\ \A j \in Jobs : ~todo'[p][j].live
    BY <2>2, <2>3, <2>4 DEF Doing, Op
  <2>6. pc'[p] \in {"done", "run", "turn", "record"} /\ result'[p] # "retrying"
    BY <1>5, <1>t, <2>1, <2>2 DEF TypeOK, Doing, Execution, PrepareFails, PrepareBusy, Prepare, RunBusy, Run, TurnEnds, Record, Ends,
       Finish, GoTo, Procs
  <2> QED
    BY <2>5, <2>6 DEF Doing
<1>6. ASSUME NEW r \in Requests, Request(r) PROVE OpInv'
  <2>0. r \in Procs /\ r \notin Ticks /\ Doing(r) /\ Apart(r)
    BY <1>6, <1>d, <1>t, RequestApart DEF OpInv, Procs
  <2>1. SUFFICES Doing(r)'
    BY <1>k, <2>0
  <2>2. Op(r)' = Op(r)
    BY <2>0 DEF Apart, Op
  <2>e. ASSUME Ends(r), todo' = todo, pc[r] \in {"new", "arm", "write", "load"}, pc[r] = "load" => \A j \in Jobs : ~todo[r][j].live,
               Op(r) = "resume" => pc[r] = "load"
        PROVE  Doing(r)'
    BY <2>0, <2>e, <1>t DEF Doing, Ends, GoTo, TypeOK
  <2>3. CASE AddInsert(r)
    BY <2>0, <2>2, <2>3, <1>t DEF Doing, AddInsert, Begins, GoTo, TypeOK
  <2>4. CASE RequestArm(r)
    BY <2>4, <2>e DEF RequestArm
  <2>5. CASE UpdateLoad(r)
    BY <2>0, <2>2, <2>5, <1>t DEF Doing, UpdateLoad, Begins, GoTo, TypeOK
  <2>6. CASE UpdateWrite(r)
    BY <2>0, <2>2, <2>6, <1>t DEF Doing, UpdateWrite, GoTo, TypeOK
  <2>7. CASE UpdateRefused(r)
    BY <2>7, <2>e DEF UpdateRefused
  <2>8. CASE RemoveCancel(r)
    BY <2>0, <2>2, <2>8, <1>t DEF Doing, RemoveCancel, Begins, GoTo, TypeOK
  <2>9. CASE RemoveDelete(r)
    BY <2>9, <2>e DEF RemoveDelete
  <2>10. CASE RunNow(r)
    BY <2>0, <2>2, <2>10, <1>t DEF Doing, RunNow, Begins, GoTo, TypeOK
  <2>11. CASE ResumeList(r)
    BY <2>0, <2>2, <2>11, <1>t DEF Doing, ResumeList, Begins, GoTo, TypeOK
  <2>12. CASE ResumeWrite(r)
    BY <2>0, <2>2, <2>12, <1>t DEF Doing, ResumeWrite, GoTo, TypeOK
  <2>13. CASE ResumeArm(r)
    BY <2>0, <2>2, <2>13, <1>t DEF Doing, ResumeArm, GoTo, TypeOK
  <2>14. CASE ResumeEnds(r)
    BY <2>14, <2>e DEF ResumeEnds
  <2>15. ASSUME NEW j \in Jobs, ResumeKeeps(r, j) PROVE Doing(r)'
    BY <2>0, <2>2, <2>15, <1>t DEF Doing, ResumeKeeps, GoTo, TypeOK
  <2>16. ASSUME NEW j \in Jobs, ResumeMissed(r, j) PROVE Doing(r)'
    BY <2>0, <2>2, <2>16, <1>t DEF Doing, ResumeMissed, GoTo, TypeOK
  <2> QED
    BY <1>6, <2>3, <2>4, <2>5, <2>6, <2>7, <2>8, <2>9, <2>10, <2>11, <2>12, <2>13, <2>14, <2>15, <2>16 DEF Request
<1>7. CASE Restart
  <2>1. ASSUME NEW r \in Requests PROVE pc'[r] \in {"new", "done"} /\ result'[r] = "none" /\ \A j \in Jobs : ~todo'[r][j].live
    BY <1>7, <1>d DEF Restart, Procs, NoRow
  <2> QED
    BY <2>1 DEF OpInv, Doing
<1>8. ASSUME NEW r \in Requests, Drop(r) PROVE OpInv'
  <2>1. Doing(r)'
    BY <1>8, <1>t, DropApart DEF Doing
  <2> QED
    BY <1>8, <1>t, <1>k, <2>1, DropApart DEF Procs
<1> QED
  BY <1>1, <1>2, <1>3, <1>4, <1>5, <1>6, <1>7, <1>8 DEF Next

(* Writing a row as the operations do keeps its limit. *)
LEMMA StoreLimit ==
    ASSUME TypeOK, NEW j \in Jobs, NEW w, w.limit = row[j].limit, Store(j, w)
    PROVE  \A k \in Jobs : row'[k].limit = row[k].limit
BY DEF TypeOK, Store

(* Every step keeps the attempts of a tick within the limit of the row. *)
LEMMA LimitStep ==
    ASSUME TypeInv, OpInv, LimitInv, [Next]_vars
    PROVE  LimitInv'
<1>t. TypeOK
  BY DEF TypeInv
<1>d. \A r \in Requests \cap Ticks : FALSE
  BY CronAssumption
<1> DEFINE Limits0 == \A k \in Jobs : row'[k].limit = row[k].limit
<1>k. ASSUME NEW p \in Procs, Apart(p), p \in Ticks => Counting(p)',
             Limits0 \/ \A q \in Ticks : Active(q) => row'[job[q]].limit = row[job[q]].limit
      PROVE  LimitInv'
  <2>1. ASSUME NEW q \in Ticks, q # p PROVE Counting(q)'
    <3>1. pc'[q] = pc[q] /\ result'[q] = result[q] /\ copy'[q] = copy[q] /\ job'[q] = job[q] /\ job[q] \in Jobs /\ pc[q] \in Steps
      BY <1>k, <1>t, <2>1 DEF Apart, Procs, TypeOK
    <3>2. pc[q] # "idle" => row'[job[q]].limit = row[job[q]].limit
      BY <1>k, <3>1 DEF Active, Steps
    <3> QED
      BY <3>1, <3>2 DEF LimitInv, Counting
  <2> QED
    BY <1>k, <2>1 DEF LimitInv
<1>p. ASSUME NEW p \in Procs
      PROVE  job[p] \in Jobs /\ copy[p] \in Row /\ row[job[p]] \in Row
  BY <1>t DEF TypeOK
<1>e. ASSUME NEW p \in Ticks, Ends(p) PROVE Counting(p)'
  BY <1>e, <1>t DEF Ends, GoTo, Counting, TypeOK, Procs
<1>0. ASSUME UNCHANGED <<row, procs>> PROVE LimitInv'
  BY <1>0 DEF LimitInv, Counting, procs
<1>1. CASE UNCHANGED vars
  BY <1>1, <1>0 DEF vars
<1>2. ASSUME NEW c \in Convs, UserTurn(c) \/ UserTurnEnds(c) PROVE LimitInv'
  BY <1>2, <1>0 DEF UserTurn, UserTurnEnds
<1>3. ASSUME NEW j \in Jobs, Fire(j) PROVE LimitInv'
  <2>1. PICK p \in Ticks : Apart(p) /\ pc[p] = "idle" /\ pc'[p] = "load" /\ result'[p] = result[p] /\ row' = row
    BY <1>3, <1>t, FireApart
  <2>2. Counting(p)'
    BY <2>1 DEF LimitInv, Counting
  <2> QED
    BY <1>k, <2>1, <2>2 DEF Procs
<1>4. ASSUME NEW p \in Ticks, Tick(p) PROVE LimitInv'
  <2>0. Apart(p) /\ p \in Procs /\ Counting(p)
    BY <1>4, <1>t, TickApart DEF LimitInv, Procs
  <2>1. CASE TickMissing(p) \/ TickLoadFails(p) \/ TickDisabled(p) \/ TickArm(p)
    BY <2>0, <2>1, <1>e, <1>k DEF TickMissing, TickLoadFails, TickDisabled, TickArm
  <2>2. CASE TickLoads(p)
    <3>1. Counting(p)'
      BY <2>0, <2>2, <1>t DEF TickLoads, GoTo, Counting, TypeOK
    <3> QED
      BY <2>0, <2>2, <3>1, <1>k DEF TickLoads
  <2>3. CASE Reschedule(p)
    <3>1. Limits0
      <4>1. AfterRun(copy[p], row[job[p]]).limit = row[job[p]].limit
        BY <2>0, <1>p DEF AfterRun, Row
      <4> QED
        BY <2>0, <2>3, <4>1, <1>p, <1>t, StoreLimit DEF Reschedule
    <3>2. Counting(p)'
      <4>1. job' = job /\ copy' = copy /\ result' = result /\ pc'[p] = "arm" /\ pc[p] = "reschedule" /\ row'[job[p]].limit = row[job[p]].limit
        BY <2>0, <2>3, <3>1, <1>p, <1>t DEF Reschedule, GoTo, TypeOK
      <4> QED
        BY <2>0, <4>1 DEF Counting
    <3> QED
      BY <2>0, <3>1, <3>2, <1>k
  <2> QED
    BY <1>4, <2>1, <2>2, <2>3 DEF Tick
<1>5. ASSUME NEW p \in Procs, Execution(p) PROVE LimitInv'
  <2>0. Apart(p)
    BY <1>5, <1>t, ExecutionApart
  <2>1. Limits0
    <3>1. CASE Record(p)
      <4>1. Recorded(p, row[job[p]]).limit = row[job[p]].limit
        BY <1>p DEF Recorded, Row
      <4> QED
        BY <3>1, <4>1, <1>p, <1>t, StoreLimit DEF Record
    <3>2. CASE row' = row
      BY <3>2
    <3> QED
      BY <1>5, <3>1, <3>2 DEF Execution, PrepareFails, PrepareBusy, Prepare, RunBusy, Run, TurnEnds
  <2>2. ASSUME p \in Ticks PROVE Counting(p)'
    <3>0. Counting(p) /\ p \notin Requests
      BY <1>d, <2>2 DEF LimitInv
    <3>1. job' = job /\ copy' = copy /\ row'[job[p]].limit = row[job[p]].limit /\ pc[p] \notin {"idle", "load"}
      BY <1>5, <2>1, <2>2, <3>0, <1>p DEF Execution, PrepareFails, PrepareBusy, Prepare, RunBusy, Run, TurnEnds, Record, HandleBusy, Finish
    <3>2. (result'[p] = "retrying") => pc'[p] \in {"record", "arm"} /\ copy[p].retry < copy[p].limit
      <4>h. ASSUME HandleBusy(p) PROVE pc'[p] = "record" /\ (result'[p] = "retrying" => copy[p].retry < copy[p].limit)
        <5>1. copy[p].retry \in Nat /\ copy[p].limit \in Nat
          BY <1>p, CronAssumption, SMT DEF Row, Limits
        <5>2. pc'[p] = "record" /\ result'[p] = (IF copy[p].retry >= copy[p].limit THEN "settled" ELSE "retrying")
          BY <4>h, <1>t DEF HandleBusy, Finish, GoTo, TypeOK
        <5> QED
          BY <5>1, <5>2, SMT
      <4>s. ASSUME Finish(p, "settled") PROVE pc'[p] = "record" /\ result'[p] = "settled"
        BY <4>s, <1>t DEF Finish, GoTo, TypeOK
      <4>1. CASE PrepareFails(p) \/ PrepareBusy(p) \/ RunBusy(p) \/ TurnEnds(p)
        BY <4>1, <4>h, <4>s, <2>2 DEF PrepareFails, PrepareBusy, RunBusy, TurnEnds
      <4>2. CASE Prepare(p) \/ Run(p)
        BY <4>2, <3>0 DEF Prepare, Run, Counting
      <4>3. CASE Record(p)
        BY <4>3, <3>0, <1>t DEF Record, Counting, GoTo, TypeOK
      <4> QED
        BY <1>5, <4>1, <4>2, <4>3 DEF Execution
    <3> QED
      BY <3>0, <3>1, <3>2 DEF Counting
  <2> QED
    BY <2>0, <2>1, <2>2, <1>k
<1>6. ASSUME NEW r \in Requests, Request(r) PROVE LimitInv'
  <2>0. r \in Procs /\ r \notin Ticks /\ Apart(r)
    BY <1>6, <1>d, <1>t, RequestApart DEF Procs
  <2>1. SUFFICES Limits0 \/ \A q \in Ticks : Active(q) => row'[job[q]].limit = row[job[q]].limit
    BY <1>k, <2>0
  <2>2. CASE row' = row
    BY <2>2
  <2>3. CASE AddInsert(r)
    <3>1. \A q \in Ticks : Active(q) => job[q] # scn.call[r].job
      BY <2>3 DEF AddInsert, Handles, Procs
    <3>2. \A k \in Jobs : k # scn.call[r].job => row'[k] = row[k]
      BY <2>3, <1>t DEF AddInsert, TypeOK
    <3> QED
      BY <3>1, <3>2, <1>p DEF Procs
  <2>4. CASE UpdateWrite(r)
    <3>1. Params(r, row[job[r]]).limit = row[job[r]].limit
      BY <1>p, <2>0 DEF Params, Row
    <3> QED
      BY <2>0, <2>4, <3>1, <1>p, <1>t, StoreLimit DEF UpdateWrite
  <2>5. CASE RemoveDelete(r)
    <3>1. row' = row \/ row' = [row EXCEPT ![job[r]] = [row[job[r]] EXCEPT !.live = FALSE]]
      BY <2>5 DEF RemoveDelete
    <3>2. [row[job[r]] EXCEPT !.live = FALSE].limit = row[job[r]].limit
      BY <1>p, <2>0 DEF Row
    <3> QED
      BY <3>1, <3>2, <1>p, <2>0, <1>t DEF TypeOK
  <2>6. CASE ResumeWrite(r)
    <3>1. AfterRun(copy[r], row[job[r]]).limit = row[job[r]].limit
      BY <2>0, <1>p DEF AfterRun, Row
    <3> QED
      BY <2>0, <2>6, <3>1, <1>p, <1>t, StoreLimit DEF ResumeWrite
  <2>7. ASSUME NEW j \in Jobs, ResumeMissed(r, j) PROVE Limits0
    <3>1. [row[j] EXCEPT !.retry = 0].limit = row[j].limit
      BY <1>t DEF TypeOK, Row
    <3> QED
      BY <2>7, <3>1, <1>t, StoreLimit DEF ResumeMissed
  <2> QED
    BY <1>6, <2>2, <2>3, <2>4, <2>5, <2>6, <2>7 DEF Request, RequestArm, UpdateLoad, UpdateRefused, RemoveCancel, RunNow, ResumeList,
       ResumeArm, ResumeEnds, ResumeKeeps
<1>7. CASE Restart
  <2>1. ASSUME NEW p \in Ticks PROVE pc'[p] = "idle" /\ result'[p] = "none"
    BY <1>7 DEF Restart, Procs
  <2> QED
    BY <2>1 DEF LimitInv, Counting
<1>8. ASSUME NEW r \in Requests, Drop(r) PROVE LimitInv'
  <2>1. r \notin Ticks /\ Apart(r) /\ Limits0
    BY <1>8, <1>d, <1>t, DropApart
  <2> QED
    BY <1>k, <2>1 DEF Procs
<1> QED
  BY <1>1, <1>2, <1>3, <1>4, <1>5, <1>6, <1>7, <1>8 DEF Next

-----------------------------------------------------------------------------
(* How one process moves among the others at work on a job *)

(* The other processes stay at work on what they were at work on. *)
LEMMA ArmsKept ==
    ASSUME NEW p, Apart(p), NEW q \in Procs, q # p, NEW j
    PROVE  Arms(q, j)' <=> Arms(q, j)
BY DEF Apart, Arms, Handles, Active, Arming, Op, Procs

(* A job is quiet when nobody is going to arm or cancel its timer. *)
LEMMA QuietArms ==
    ASSUME NEW j
    PROVE  (Quiet(j) <=> \A p \in Procs : ~Arms(p, j)) /\ (Quiet(j)' <=> \A p \in Procs : ~Arms(p, j)')
BY DEF Quiet, Arms

(* The process p alone is at work on the job. *)
LEMMA Solo ==
    ASSUME NEW j \in Jobs, NEW p \in Procs, Apart(p), Alone(p, j),
           Arms(p, j)' => Knows(p, j)', ~Arms(p, j)' => Follows(j)'
    PROVE  JobInv(j)'
<1>1. \A q \in Procs \ {p} : ~Arms(q, j)'
  BY ArmsKept DEF Alone
<1>2. Alone(p, j)'
  BY <1>1 DEF Alone, Procs
<1> QED
  BY <1>1, <1>2, QuietArms DEF JobInv, Procs

(* A tick of a periodic job moves beside other ticks of it. *)
LEMMA Crowd ==
    ASSUME NEW j \in Jobs, JobInv(j), NEW p \in Ticks, Apart(p),
           \A q \in Procs \ {p} : Arms(q, j) => q \in Ticks,
           row[j].sched \notin OneShot, row'[j].sched = row[j].sched, Due(j)',
           Arms(p, j)' => Knows(p, j)', ~Arms(p, j)' => Follows(j)'
    PROVE  JobInv(j)'
<1>d. \A r \in Requests \cap Ticks : FALSE
  BY CronAssumption
<1>1. ASSUME NEW q \in Procs, q # p, Arms(q, j)' PROVE Knows(q, j)' /\ q \in Ticks
  <2>1. Arms(q, j) /\ q \in Ticks /\ TickInv(q, j)
    BY <1>1, ArmsKept DEF JobInv, Knows
  <2>2. pc'[q] = pc[q] /\ copy'[q] = copy[q] /\ result'[q] = result[q]
    BY <1>1 DEF Apart
  <2>3. TickInv(q, j)'
    BY <2>1, <2>2 DEF TickInv
  <2> QED
    BY <2>1, <2>3, <1>d DEF Knows, Procs
<1>2. Quiet(j)' => Follows(j)'
  BY QuietArms DEF Procs
<1> HIDE DEF OneShot
<1> QED
  BY <1>1, <1>2 DEF JobInv

(* What a process knows depends on the row as it is armed and on the timer. *)
LEMMA KnowsKept ==
    ASSUME NEW j \in Jobs, NEW q \in Procs, scn' = scn, Same(row'[j], row[j]), timer'[j] = timer[j],
           pc'[q] = pc[q], job'[q] = job[q], copy'[q] = copy[q], result'[q] = result[q],
           q \in Requests => todo'[q] = todo[q], Knows(q, j)
    PROVE  Knows(q, j)'
<1>1. (Due(j)' <=> Due(j)) /\ (Follows(j)' <=> Follows(j)) /\ row'[j].sched = row[j].sched
  BY DEF Due, Follows, Same
<1>2. TickInv(q, j) => TickInv(q, j)'
  BY <1>1 DEF TickInv
<1>3. AddInv(q, j) => AddInv(q, j)'
  BY DEF AddInv, Same
<1>4. UpdateInv(q, j) => UpdateInv(q, j)'
  <2>1. Same(copy[q], row[j]) => Same(copy'[q], row'[j])
    BY DEF Same
  <2>2. Same(copy[q], Edited(q, row[j])) => Same(copy[q], Edited(q, row[j])')
    BY DEF Same, Edited, GivesEnabled, GivesSched, Gives
  <2> QED
    BY <1>1, <2>1, <2>2 DEF UpdateInv, Same
<1>5. ASSUME q \in Requests, ResumeInv(q, j) PROVE ResumeInv(q, j)'
  <2>1. todo'[q] = todo[q]
    BY <1>5
  <2>2. /\ Same(copy[q], row[j]) => Same(copy'[q], row'[j])
        /\ Same(todo[q][j], row[j]) => Same(todo'[q][j], row'[j])
    BY <2>1 DEF Same
  <2> QED
    BY <1>1, <1>5, <2>1, <2>2 DEF ResumeInv
<1>6. Op(q)' = Op(q)
  BY DEF Op
<1> QED
  BY <1>2, <1>3, <1>4, <1>5, <1>6 DEF Knows

(* A step that leaves the row as it is armed, and the timer. *)
LEMMA Calm ==
    ASSUME TypeOK, NEW j \in Jobs, JobInv(j), NEW p \in Procs, Apart(p), Same(row'[j], row[j]), timer'[j] = timer[j],
           Arms(p, j)' <=> Arms(p, j), Arms(p, j) => Knows(p, j)'
    PROVE  JobInv(j)'
<1>1. (Due(j)' <=> Due(j)) /\ (Follows(j)' <=> Follows(j)) /\ row'[j].sched = row[j].sched
  BY DEF Due, Follows, Same
<1>2. \A q \in Procs : Arms(q, j)' <=> Arms(q, j)
  BY ArmsKept
<1>3. \A q \in Procs : Alone(q, j)' <=> Alone(q, j)
  BY <1>2 DEF Alone, Procs
<1>4. ASSUME NEW q \in Procs, q # p, Arms(q, j) PROVE Knows(q, j)'
  <2>1. Knows(q, j)
    BY <1>4 DEF JobInv
  <2> QED
    BY <1>4, <2>1, KnowsKept DEF Apart
<1>5. Quiet(j)' <=> Quiet(j)
  BY <1>2, QuietArms DEF Procs
<1> QED
  BY <1>1, <1>2, <1>3, <1>4, <1>5 DEF JobInv

-----------------------------------------------------------------------------
(* Timers, ticks and executions keep the invariant of every job *)

(* A tick is at work on its one job. *)
LEMMA TickArms ==
    ASSUME NEW p \in Ticks, NEW j
    PROVE  (Arms(p, j) <=> Active(p) /\ job[p] = j) /\ (Arms(p, j)' <=> Active(p)' /\ job'[p] = j)
<1>1. p \notin Requests
  BY CronAssumption
<1> QED
  BY <1>1 DEF Arms, Handles, Arming

(* A timer that goes off: the new tick is alone, or beside ticks of a periodic job. *)
LEMMA FireJob ==
    ASSUME TypeInv, OpInv, NEW k \in Jobs, Fire(k), NEW j \in Jobs, j \notin excused', JobInv(j)
    PROVE  JobInv(j)'
<1>t. TypeOK
  BY DEF TypeInv
<1>1. PICK p \in Ticks :
             /\ Apart(p) /\ pc[p] = "idle" /\ pc'[p] = "load" /\ job'[p] = k
             /\ copy'[p] = copy[p] /\ result'[p] = result[p] /\ Excuse(p, k)
             /\ row' = row /\ timer[k] # "none" /\ timer'[k] = (IF timer[k] = "at" THEN "none" ELSE timer[k])
             /\ \A i \in Jobs \ {k} : timer'[i] = timer[i]
  BY <1>t, FireApart
<1>2. p \in Procs /\ p \notin Requests /\ ~Arms(p, j) /\ (Arms(p, j)' <=> j = k)
  BY <1>1, TickArms, CronAssumption DEF Active, Procs
<1>3. CASE j # k
  BY <1>1, <1>2, <1>3, <1>t, Calm DEF Same
<1>4. CASE j = k
  <2>1. \A q \in Procs \ {p} : Arms(q, j) => q \in Ticks
    <3>1. SUFFICES ASSUME NEW q \in Requests, Arms(q, j) PROVE FALSE
      BY DEF Procs
    <3>2. q \in Procs /\ q # p
      BY <1>2 DEF Procs
    <3>3. ~Editing(q)
      BY <1>1, <1>4, <3>1, <3>2 DEF Excuse, Beside, Arms
    <3>4. pc[q] \in Steps \cup {"new", "write", "done"} /\ Doing(q) /\ pc[q] \notin {"idle", "new", "done"} /\ Op(q) # "runnow"
      BY <3>1, <3>2, <1>t, CronAssumption DEF TypeOK, OpInv, Arms, Handles, Active, Arming
    <3>5. Op(q) = "add"
      BY <3>1, <3>3, <3>4 DEF Doing, Editing, Steps
    <3>6. timer[j] = "none"
      BY <3>1, <3>2, <3>5 DEF JobInv, Knows, AddInv
    <3> QED
      BY <1>1, <1>4, <3>6
  <2>2. CASE Alone(p, j)
    <3>1. Follows(j)
      BY <1>2, <2>2, QuietArms DEF JobInv, Alone
    <3>2. Due(j) /\ timer[j] \in {row[j].sched, "at"} /\ timer[j] # "manual"
      BY <3>1, <1>1, <1>4, <1>t DEF Follows, TypeOK
    <3>3. Due(j)' /\ row'[j].sched = row[j].sched
      BY <3>2, <1>1 DEF Due
    <3>4. TickInv(p, j)'
      BY <1>1, <1>4, <3>2, <3>3 DEF TickInv, OneShot
    <3>5. Knows(p, j)'
      BY <1>2, <3>4 DEF Knows
    <3> QED
      BY <1>1, <1>2, <1>4, <2>2, <3>5, Solo
  <2>3. CASE ~Alone(p, j)
    <3>1. PICK q \in Ticks : Arms(q, j) /\ q \in Procs
      BY <2>1, <2>3 DEF Alone
    <3>2. TickInv(q, j)
      BY <3>1 DEF JobInv, Knows
    <3>3. row[j].sched \notin OneShot /\ Due(j)
      BY <3>2, <1>1, <1>4 DEF TickInv
    <3>4. Due(j)' /\ row'[j].sched = row[j].sched
      BY <3>3, <1>1 DEF Due
    <3>5. TickInv(p, j)'
      BY <1>1, <3>3, <3>4 DEF TickInv
    <3>6. Knows(p, j)'
      BY <1>2, <3>5 DEF Knows
    <3> QED
      BY <1>1, <1>2, <1>4, <2>1, <3>3, <3>4, <3>6, Crowd
  <2> QED
    BY <2>2, <2>3
<1> QED
  BY <1>3, <1>4

(* The steps of tick before and after the execution. *)
LEMMA TickJob ==
    ASSUME TypeInv, OpInv, LimitInv, NEW p \in Ticks, Tick(p), NEW j \in Jobs, j \notin excused', JobInv(j)
    PROVE  JobInv(j)'
<1>t. TypeOK
  BY DEF TypeInv
<1>0. p \in Procs /\ p \notin Requests /\ Apart(p) /\ job[p] \in Jobs /\ copy[p] \in Row /\ row[job[p]] \in Row
  BY <1>t, TickApart, CronAssumption DEF Procs, TypeOK
<1>a. Active(p)
  BY DEF Tick, TickMissing, TickLoadFails, TickDisabled, TickLoads, Reschedule, TickArm, Active
<1>b. (job'[p] = job[p]) \/ ~Active(p)'
  BY <1>0, <1>t DEF Tick, TickMissing, TickLoadFails, TickDisabled, TickLoads, Reschedule, TickArm, Active, Ends, GoTo, TypeOK
<1>1. CASE j # job[p]
  <2>1. row'[j] = row[j]
    BY <1>0, <1>1, <1>t DEF Tick, TickMissing, TickLoadFails, TickDisabled, TickLoads, Reschedule, TickArm, Store, TypeOK
  <2>2. timer'[j] = timer[j]
    BY <1>0, <1>1, <1>t DEF Tick, TickMissing, TickLoadFails, TickDisabled, TickLoads, Reschedule, TickArm, Arm, TypeOK
  <2>3. ~Arms(p, j) /\ ~Arms(p, j)'
    BY <1>1, <1>b, TickArms
  <2> QED
    BY <1>0, <1>t, <2>1, <2>2, <2>3, Calm DEF Same
<1>2. CASE j = job[p]
  <2>1. Arms(p, j) /\ TickInv(p, j) /\ (Alone(p, j) \/ row[j].sched \notin OneShot)
    BY <1>0, <1>a, <1>2, TickArms DEF JobInv, Knows
  <2>2. \A q \in Procs \ {p} : Arms(q, j) => q \in Ticks
    <3>1. SUFFICES ASSUME NEW q \in Procs \ {p}, Arms(q, j), q \notin Ticks PROVE FALSE
      OBVIOUS
    <3>2. Alone(q, j)
      BY <3>1 DEF JobInv
    <3> QED
      BY <3>1, <3>2, <2>1, <1>0 DEF Alone
  <2>k. ASSUME Arms(p, j)' => TickInv(p, j)', ~Arms(p, j)' => Follows(j)',
               row[j].sched \notin OneShot => row'[j].sched = row[j].sched /\ Due(j)'
        PROVE  JobInv(j)'
    <3>1. Arms(p, j)' => Knows(p, j)'
      BY <2>k, <1>0 DEF Knows
    <3>2. CASE Alone(p, j)
      BY <2>k, <3>1, <3>2, <1>0, Solo
    <3>3. CASE row[j].sched \notin OneShot
      BY <2>k, <3>1, <3>3, <2>2, <1>0, Crowd
    <3> QED
      BY <2>1, <3>2, <3>3
  <2>3. CASE TickMissing(p) \/ TickDisabled(p)
    BY <1>2, <2>1, <2>3 DEF TickMissing, TickDisabled, TickInv, Due
  <2>4. CASE TickLoadFails(p)
    BY <1>2, <2>4 DEF TickLoadFails
  <2>5. CASE TickLoads(p)
    <3>1. pc'[p] = "prepare" /\ copy'[p] = row[j] /\ row' = row /\ timer' = timer /\ result' = result /\ pc[p] = "load"
          /\ row[j].live /\ row[j].enabled /\ job' = job
      BY <1>0, <1>t, <1>2, <2>5 DEF TickLoads, GoTo, TypeOK
    <3>2. Arms(p, j)'
      BY <1>2, <3>1, TickArms DEF Active
    <3>3. TickInv(p, j)'
      BY <2>1, <3>1 DEF TickInv, Due
    <3>4. row[j].sched \notin OneShot => row'[j].sched = row[j].sched /\ Due(j)'
      BY <2>1, <3>1 DEF TickInv, Due
    <3> QED
      BY <3>2, <3>3, <3>4, <2>k
  <2>6. CASE Reschedule(p)
    <3> DEFINE w == AfterRun(copy[p], row[j])
    <3>1. /\ pc'[p] = "arm" /\ pc[p] = "reschedule" /\ copy' = copy /\ job' = job /\ timer' = timer /\ result' = result
          /\ Store(j, w)
      BY <1>0, <1>t, <1>2, <2>6 DEF Reschedule, GoTo, TypeOK
    <3>2. /\ result[p] # "retrying" /\ copy[p].live /\ copy[p].enabled /\ copy[p].sched = row[j].sched
          /\ row[j].live /\ row[j].enabled /\ row[j].next
      BY <2>1, <3>1 DEF LimitInv, Counting, TickInv, Due
    <3>3. row'[j] = w
      BY <3>1, <3>2, <1>t DEF Store, TypeOK
    <3>4. /\ w.live /\ w.sched = row[j].sched
          /\ w.enabled <=> row[j].sched # "at"
          /\ w.next <=> row[j].sched \notin OneShot
      BY <3>2, <1>0, <1>2 DEF AfterRun, Row, ComputeNextRun, OneShot
    <3>5. Arms(p, j)'
      BY <1>2, <3>1, TickArms DEF Active
    <3> HIDE DEF w
    <3>6. row'[j].sched = row[j].sched /\ (Due(j)' <=> row'[j].sched \notin OneShot)
      BY <3>3, <3>4 DEF Due, OneShot
    <3>7. TickInv(p, j)'
      BY <2>1, <3>1, <3>2, <3>6 DEF TickInv
    <3> QED
      BY <3>5, <3>6, <3>7, <2>k
  <2>7. CASE TickArm(p)
    <3> DEFINE w == [copy[p] EXCEPT !.next = ComputeNextRun(copy[p].sched)]
               t == CASE result[p] = "retrying" -> "at"
                      [] result[p] # "retrying" /\ copy[p].sched = "at" -> "none"
                      [] OTHER -> Armed(w)
    <3>1. row' = row /\ pc[p] = "arm" /\ pc'[p] = "idle" /\ timer'[j] = t
      BY <1>0, <1>t, <1>2, <2>7 DEF TickArm, RetryTimer, Arm, Ends, GoTo, TypeOK
    <3>2. copy[p].live /\ copy[p].enabled /\ copy[p].sched = row[j].sched /\ row[j].sched \in Schedules
      BY <2>1, <3>1, <1>0, <1>2 DEF TickInv, Row
    <3>3. w.live /\ w.enabled /\ w.sched = row[j].sched /\ (w.next <=> row[j].sched # "manual")
      BY <3>2, <1>0 DEF Row, ComputeNextRun
    <3>4. Armed(w) = IF row[j].sched = "manual" THEN "none" ELSE row[j].sched
      BY <3>3 DEF Armed
    <3> HIDE DEF w
    <3>5. Due(j) => t \in {row[j].sched, "at"}
      BY <2>1, <3>1, <3>2, <3>4 DEF TickInv, OneShot
    <3>6. ~Due(j) => t = "none"
      BY <2>1, <3>1, <3>2, <3>4 DEF TickInv, OneShot, Schedules
    <3> HIDE DEF t
    <3>7. ~Arms(p, j)'
      BY <3>1, TickArms DEF Active
    <3>8. Follows(j)'
      BY <3>1, <3>5, <3>6 DEF Follows, Due
    <3>9. row[j].sched \notin OneShot => row'[j].sched = row[j].sched /\ Due(j)'
      BY <2>1, <3>1 DEF TickInv, Due
    <3> QED
      BY <3>7, <3>8, <3>9, <2>k
  <2> QED
    BY <2>3, <2>4, <2>5, <2>6, <2>7 DEF Tick
<1> QED
  BY <1>1, <1>2

(* The executor and the recorded result leave what arms the timer alone. *)
LEMMA ExecutionJob ==
    ASSUME TypeInv, OpInv, LimitInv, NEW p \in Procs, Execution(p), NEW j \in Jobs, j \notin excused', JobInv(j)
    PROVE  JobInv(j)'
<1>t. TypeOK
  BY DEF TypeInv
<1>0. Apart(p) /\ timer' = timer /\ job[p] \in Jobs /\ row[job[p]] \in Row /\ row[j] \in Row
  BY <1>t, ExecutionApart DEF TypeOK, Execution, PrepareFails, PrepareBusy, Prepare, RunBusy, Run, TurnEnds, Record
<1>1. Same(row'[j], row[j])
  <2>1. CASE row' = row
    BY <2>1 DEF Same
  <2>2. CASE Store(job[p], Recorded(p, row[job[p]]))
    <3>1. Same(Recorded(p, row[job[p]]), row[job[p]])
      BY <1>0 DEF Recorded, Same, Row
    <3>2. row'[j] = row[j] \/ (j = job[p] /\ row'[j] = Recorded(p, row[job[p]]))
      BY <2>2, <1>t DEF Store, TypeOK
    <3> QED
      BY <3>1, <3>2 DEF Same
  <2> QED
    BY <2>1, <2>2 DEF Execution, PrepareFails, PrepareBusy, Prepare, RunBusy, Run, TurnEnds, Record
<1>2. CASE p \notin Ticks
  <2>1. p \in Requests /\ Doing(p)
    BY <1>2 DEF OpInv, Procs
  <2>2. Op(p) = "runnow"
    BY <2>1 DEF Doing, Execution, PrepareFails, PrepareBusy, Prepare, RunBusy, Run, TurnEnds, Record
  <2>3. ~Arms(p, j) /\ ~Arms(p, j)'
    BY <1>0, <1>2, <2>2 DEF Arms, Arming, Op, Apart
  <2> QED
    BY <1>0, <1>1, <1>t, <2>3, Calm
<1>3. CASE p \in Ticks
  <2>0. p \notin Requests
    BY <1>3, CronAssumption
  <2>1. /\ pc[p] \in {"prepare", "run", "turn", "record"} /\ job' = job /\ copy' = copy
        /\ pc'[p] \in {"run", "turn", "record", "reschedule", "arm"}
        /\ pc'[p] = "arm" => result'[p] = "retrying"
    BY <1>t, <1>3, <2>0 DEF TypeOK, Execution, PrepareFails, PrepareBusy, Prepare, RunBusy, Run, TurnEnds, Record, HandleBusy, Finish, GoTo
  <2>2. (Arms(p, j)' <=> job[p] = j) /\ (Arms(p, j) <=> job[p] = j)
    BY <1>3, <2>1, TickArms DEF Active
  <2>3. ASSUME Arms(p, j) PROVE Knows(p, j)'
    <3>1. TickInv(p, j)
      BY <1>3, <2>3 DEF JobInv, Knows
    <3>2. (Due(j)' <=> Due(j)) /\ row'[j].sched = row[j].sched
      BY <1>1 DEF Due, Same
    <3>3. TickInv(p, j)'
      BY <1>0, <2>1, <3>1, <3>2 DEF TickInv
    <3> QED
      BY <2>0, <3>3 DEF Knows
  <2> QED
    BY <1>0, <1>1, <1>t, <2>2, <2>3, Calm
<1> QED
  BY <1>2, <1>3

-----------------------------------------------------------------------------
(* Requests keep the invariant of every job *)

(* A request is at work on its job and on the rows a resume has listed. *)
LEMMA RequestArms ==
    ASSUME NEW r \in Requests, NEW j
    PROVE  /\ Arms(r, j) <=> Active(r) /\ (job[r] = j \/ todo[r][j].live) /\ Op(r) # "runnow"
           /\ Arms(r, j)' <=> Active(r)' /\ (job'[r] = j \/ todo'[r][j].live) /\ Op(r)' # "runnow"
<1>1. r \notin Ticks
  BY CronAssumption
<1> QED
  BY <1>1 DEF Arms, Handles, Arming

(* A timer armed from a copy that is like the row agrees with the row. *)
LEMMA ArmedFollows ==
    ASSUME NEW j \in Jobs, NEW w, row[j] \in Row, Same(w, row[j]), row' = row, timer'[j] = Armed(w)
    PROVE  Follows(j)'
BY DEF Same, Armed, Follows, Due, Row

(* An edit that is not excused begins alone on a job at rest. *)
LEMMA BeginsAlone ==
    ASSUME NEW r \in Requests, pc[r] = "new", Editing(r), NEW j \in Jobs, ~Beside(r, j), JobInv(j)
    PROVE  Alone(r, j) /\ Follows(j) /\ ~Arms(r, j)
<1>1. Alone(r, j)
  BY DEF Beside, Alone, Arms
<1>2. ~Arms(r, j)
  BY DEF Arms, Handles, Active
<1> QED
  BY <1>1, <1>2, QuietArms DEF JobInv, Alone

(* add_job. *)
LEMMA AddJob ==
    ASSUME TypeInv, OpInv, NEW r \in Requests, Apart(r), AddInsert(r) \/ (RequestArm(r) /\ Op(r) = "add"),
           NEW j \in Jobs, j \notin excused', JobInv(j)
    PROVE  JobInv(j)'
<1>t. TypeOK
  BY DEF TypeInv
<1>0. /\ r \in Procs /\ r \notin Ticks /\ job[r] \in Jobs /\ copy[r] \in Row /\ row[j] \in Row /\ Doing(r) /\ Op(r)' = Op(r)
      /\ Op(r) = "add"
  BY <1>t, CronAssumption DEF Procs, TypeOK, OpInv, Apart, Op, AddInsert, Begins
<1>d. todo' = todo /\ ~todo[r][j].live
  BY <1>0 DEF Doing, AddInsert, RequestArm
<1>1. CASE AddInsert(r)
  <2> DEFINE k == scn.call[r].job
  <2>1. /\ pc[r] = "new" /\ pc'[r] = "arm" /\ job'[r] = k /\ copy'[r] = NewRow(r) /\ timer' = timer
        /\ \A i \in Jobs : row'[i] = IF i = k THEN NewRow(r) ELSE row[i]
    BY <1>0, <1>1, <1>t DEF AddInsert, Begins, GoTo, TypeOK
  <2>2. ~Arms(r, j) /\ (Arms(r, j)' => j = k)
    BY <2>1, <1>d, RequestArms DEF Active
  <2>3. CASE j # k
    BY <1>0, <1>t, <2>1, <2>2, <2>3, Calm DEF Same
  <2>4. CASE j = k
    <3>1. Alone(r, j) /\ Quiet(j) /\ ~Due(j)
      BY <1>1, <2>4 DEF AddInsert, Alone, Arms, Quiet, Due
    <3>2. timer'[j] = "none" /\ Same(copy'[r], row'[j])
      BY <2>1, <2>4, <3>1 DEF JobInv, Follows, Same
    <3>3. Knows(r, j)'
      BY <1>0, <3>2 DEF Knows, AddInv
    <3>4. Arms(r, j)'
      BY <2>1, <2>4, <1>0, RequestArms DEF Active
    <3> QED
      BY <1>0, <3>1, <3>3, <3>4, Solo
  <2> QED
    BY <2>3, <2>4
<1>2. CASE RequestArm(r)
  <2>1. /\ pc[r] = "arm" /\ pc'[r] = "done" /\ row' = row
        /\ \A i \in Jobs : timer'[i] = IF i = job[r] THEN Armed(copy[r]) ELSE timer[i]
    BY <1>0, <1>2, <1>t DEF RequestArm, Ends, Arm, GoTo, TypeOK
  <2>2. ~Arms(r, j)' /\ (Arms(r, j) <=> j = job[r])
    BY <2>1, <1>d, <1>0, RequestArms DEF Active
  <2>3. CASE j # job[r]
    BY <1>0, <1>t, <2>1, <2>2, <2>3, Calm DEF Same
  <2>4. CASE j = job[r]
    <3>1. Alone(r, j) /\ Same(copy[r], row[j])
      BY <1>0, <2>2, <2>4 DEF JobInv, Knows, AddInv
    <3>2. Follows(j)'
      BY <1>0, <2>1, <2>4, <3>1, ArmedFollows
    <3> QED
      BY <1>0, <2>2, <3>1, <3>2, Solo
  <2> QED
    BY <2>3, <2>4
<1> QED
  BY <1>1, <1>2

(* update_job. *)
LEMMA UpdateJob ==
    ASSUME TypeInv, OpInv, NEW r \in Requests, Apart(r),
           UpdateLoad(r) \/ UpdateWrite(r) \/ UpdateRefused(r) \/ (RequestArm(r) /\ Op(r) = "update"),
           NEW j \in Jobs, j \notin excused', JobInv(j)
    PROVE  JobInv(j)'
<1>t. TypeOK
  BY DEF TypeInv
<1>0. /\ r \in Procs /\ r \notin Ticks /\ job[r] \in Jobs /\ copy[r] \in Row /\ row[j] \in Row /\ Doing(r) /\ Op(r)' = Op(r)
      /\ Op(r) = "update"
  BY <1>t, CronAssumption DEF Procs, TypeOK, OpInv, Apart, Op, UpdateLoad, UpdateWrite, UpdateRefused, Begins
<1>d. todo' = todo /\ ~todo[r][j].live
  BY <1>0 DEF Doing, UpdateLoad, UpdateWrite, UpdateRefused, RequestArm
<1>k. ASSUME Arms(r, j)' => UpdateInv(r, j)', ~Arms(r, j)' => Follows(j)', Alone(r, j)
      PROVE  JobInv(j)'
  <2>1. Arms(r, j)' => Knows(r, j)'
    BY <1>k, <1>0 DEF Knows
  <2> QED
    BY <1>k, <1>0, <2>1, Solo
<1>i. ASSUME Arms(r, j) PROVE Alone(r, j) /\ UpdateInv(r, j)
  BY <1>i, <1>0 DEF JobInv, Knows
<1>1. CASE UpdateLoad(r)
  <2> DEFINE k == scn.call[r].job
  <2>1. /\ pc[r] = "new" /\ pc'[r] = "write" /\ job'[r] = k /\ copy'[r] = Edited(r, row[k]) /\ timer' = timer /\ row' = row
        /\ scn' = scn /\ Excuse(r, k)
    BY <1>0, <1>1, <1>t DEF UpdateLoad, Begins, GoTo, TypeOK
  <2>2. ~Arms(r, j) /\ (Arms(r, j)' => j = k)
    BY <2>1, <1>d, RequestArms DEF Active
  <2>3. CASE j # k
    BY <1>0, <1>t, <2>1, <2>2, <2>3, Calm DEF Same
  <2>4. CASE j = k
    <3>1. Alone(r, j) /\ Follows(j)
      BY <1>0, <2>1, <2>4, BeginsAlone DEF Excuse, Editing
    <3>2. Follows(j)'
      BY <2>1, <3>1 DEF Follows, Due
    <3>3. Edited(r, row[j])' = Edited(r, row[j])
      BY <2>1 DEF Edited, GivesEnabled, GivesSched, Gives
    <3>4. Same(copy'[r], Edited(r, row[j])')
      BY <2>1, <2>4, <3>3 DEF Same
    <3>5. UpdateInv(r, j)'
      BY <2>1, <3>2, <3>4 DEF UpdateInv
    <3> QED
      BY <1>k, <3>1, <3>2, <3>5
  <2> QED
    BY <2>3, <2>4
<1>2. CASE UpdateWrite(r)
  <2> DEFINE w == Params(r, row[job[r]])
  <2>1. /\ pc[r] = "write" /\ pc'[r] = "arm" /\ job' = job /\ copy' = copy /\ timer' = timer /\ row[job[r]].live
        /\ \A i \in Jobs : row'[i] = IF i = job[r] THEN w ELSE row[i]
    BY <1>0, <1>2, <1>t DEF UpdateWrite, Store, GoTo, TypeOK
  <2>2. (Arms(r, j) <=> j = job[r]) /\ (Arms(r, j)' <=> j = job[r])
    BY <2>1, <1>0, <1>d, RequestArms DEF Active
  <2>3. CASE j # job[r]
    BY <1>0, <1>t, <2>1, <2>2, <2>3, Calm DEF Same
  <2>4. CASE j = job[r]
    <3>1. Alone(r, j) /\ Same(copy[r], Edited(r, row[j]))
      BY <1>i, <2>1, <2>2, <2>4 DEF UpdateInv
    <3>2. Same(copy[r], w)
      <4>1. row[j] \in Row
        BY <1>0
      <4> QED
        BY <3>1, <4>1, <2>4 DEF Same, Edited, Params, Row, GivesEnabled, GivesSched, Gives
    <3>3. UpdateInv(r, j)'
      BY <2>1, <2>4, <3>2 DEF UpdateInv
    <3> QED
      BY <1>k, <2>2, <2>4, <3>1, <3>3
  <2> QED
    BY <2>3, <2>4
<1>3. CASE UpdateRefused(r)
  <2>1. row' = row /\ timer' = timer /\ pc'[r] = "done" /\ pc[r] \in {"new", "write"}
    BY <1>0, <1>3, <1>t DEF UpdateRefused, Ends, GoTo, TypeOK
  <2>2. ~Arms(r, j)' /\ (Arms(r, j) => pc[r] = "write")
    BY <2>1, RequestArms DEF Active
  <2>3. CASE ~Arms(r, j)
    BY <1>0, <1>t, <2>1, <2>2, <2>3, Calm DEF Same
  <2>4. CASE Arms(r, j)
    <3>1. Alone(r, j) /\ Follows(j)
      BY <1>i, <2>2, <2>4 DEF UpdateInv
    <3>2. Follows(j)'
      BY <2>1, <3>1 DEF Follows, Due
    <3> QED
      BY <1>k, <2>2, <3>1, <3>2
  <2> QED
    BY <2>3, <2>4
<1>4. CASE RequestArm(r)
  <2>1. /\ pc[r] = "arm" /\ pc'[r] = "done" /\ row' = row
        /\ \A i \in Jobs : timer'[i] = IF i = job[r] THEN Armed(copy[r]) ELSE timer[i]
    BY <1>0, <1>4, <1>t DEF RequestArm, Ends, Arm, GoTo, TypeOK
  <2>2. ~Arms(r, j)' /\ (Arms(r, j) <=> j = job[r])
    BY <2>1, <1>d, <1>0, RequestArms DEF Active
  <2>3. CASE j # job[r]
    BY <1>0, <1>t, <2>1, <2>2, <2>3, Calm DEF Same
  <2>4. CASE j = job[r]
    <3>1. Alone(r, j) /\ Same(copy[r], row[j])
      BY <1>i, <2>1, <2>2, <2>4 DEF UpdateInv
    <3>2. Follows(j)'
      BY <1>0, <2>1, <2>4, <3>1, ArmedFollows
    <3> QED
      BY <1>k, <2>2, <3>1, <3>2
  <2> QED
    BY <2>3, <2>4
<1> QED
  BY <1>1, <1>2, <1>3, <1>4

(* remove_job. *)
LEMMA RemoveJob ==
    ASSUME TypeInv, OpInv, NEW r \in Requests, Apart(r), RemoveCancel(r) \/ RemoveDelete(r),
           NEW j \in Jobs, j \notin excused', JobInv(j)
    PROVE  JobInv(j)'
<1>t. TypeOK
  BY DEF TypeInv
<1>0. /\ r \in Procs /\ r \notin Ticks /\ job[r] \in Jobs /\ Doing(r) /\ Op(r)' = Op(r) /\ Op(r) = "remove"
  BY <1>t, CronAssumption DEF Procs, TypeOK, OpInv, Apart, Op, RemoveCancel, RemoveDelete, Begins
<1>d. todo' = todo /\ ~todo[r][j].live
  BY <1>0 DEF Doing, RemoveCancel, RemoveDelete
<1>1. CASE RemoveCancel(r)
  <2> DEFINE k == scn.call[r].job
  <2>1. /\ pc[r] = "new" /\ pc'[r] = "write" /\ job'[r] = k /\ row' = row /\ Excuse(r, k)
        /\ \A i \in Jobs : timer'[i] = IF i = k THEN "none" ELSE timer[i]
    BY <1>0, <1>1, <1>t DEF RemoveCancel, Begins, Arm, GoTo, TypeOK
  <2>2. ~Arms(r, j) /\ (Arms(r, j)' <=> j = k)
    BY <2>1, <1>d, <1>0, RequestArms DEF Active
  <2>3. CASE j # k
    BY <1>0, <1>t, <2>1, <2>2, <2>3, Calm DEF Same
  <2>4. CASE j = k
    <3>1. Alone(r, j)
      BY <1>0, <2>1, <2>4, BeginsAlone DEF Excuse, Editing
    <3>2. Knows(r, j)'
      BY <1>0, <2>1, <2>4 DEF Knows
    <3> QED
      BY <1>0, <2>2, <2>4, <3>1, <3>2, Solo
  <2> QED
    BY <2>3, <2>4
<1>2. CASE RemoveDelete(r)
  <2>1. pc[r] = "write" /\ pc'[r] = "done" /\ timer' = timer
    BY <1>0, <1>2, <1>t DEF RemoveDelete, Ends, GoTo, TypeOK
  <2>2. ~Arms(r, j)' /\ (Arms(r, j) <=> j = job[r])
    BY <2>1, <1>d, <1>0, RequestArms DEF Active
  <2>3. CASE j # job[r]
    <3>1. row'[j] = row[j]
      BY <1>0, <1>2, <1>t, <2>3 DEF RemoveDelete, TypeOK
    <3> QED
      BY <1>0, <1>t, <2>1, <2>2, <2>3, <3>1, Calm DEF Same
  <2>4. CASE j = job[r]
    <3>1. Alone(r, j) /\ timer[j] = "none"
      BY <1>0, <2>2, <2>4 DEF JobInv, Knows
    <3>2. row' = [row EXCEPT ![job[r]].live = FALSE]
      BY <1>2, <2>4 DEF RemoveDelete
    <3>3. ~row'[j].live
      <4>1. row'[j] = [row[j] EXCEPT !.live = FALSE] /\ row[j] \in Row
        BY <3>2, <2>4, <1>t DEF TypeOK
      <4> QED
        BY <4>1 DEF Row
    <3>4. Follows(j)'
      BY <2>1, <3>1, <3>3 DEF Follows, Due
    <3> QED
      BY <1>0, <2>2, <3>1, <3>4, Solo
  <2> QED
    BY <2>3, <2>4
<1> QED
  BY <1>1, <1>2

(* run_now never arms the timer. *)
LEMMA RunNowJob ==
    ASSUME TypeInv, NEW r \in Requests, Apart(r), RunNow(r), NEW j \in Jobs, JobInv(j)
    PROVE  JobInv(j)'
<1>1. TypeOK /\ r \in Procs /\ Op(r) = "runnow" /\ Op(r)' = Op(r) /\ row' = row /\ timer' = timer
  BY DEF TypeInv, Procs, RunNow, Begins, Apart, Op
<1>2. ~Arms(r, j) /\ ~Arms(r, j)'
  BY <1>1, RequestArms
<1> QED
  BY <1>1, <1>2, Calm DEF Same

(* handle_system_resume. *)
LEMMA ResumeJob ==
    ASSUME TypeInv, OpInv, NEW r \in Requests, Apart(r), Op(r) = "resume",
           \/ ResumeList(r) \/ ResumeWrite(r) \/ ResumeArm(r) \/ ResumeEnds(r)
           \/ \E i \in Jobs : ResumeKeeps(r, i) \/ ResumeMissed(r, i),
           NEW j \in Jobs, j \notin excused', JobInv(j)
    PROVE  JobInv(j)'
<1>t. TypeOK
  BY DEF TypeInv
<1>0. /\ r \in Procs /\ r \notin Ticks /\ job[r] \in Jobs /\ copy[r] \in Row /\ row[j] \in Row /\ Op(r)' = "resume"
      /\ todo[r][j] \in Row
  BY <1>t, CronAssumption DEF Procs, TypeOK, Apart, Op
<1>k. ASSUME Arms(r, j)' => ResumeInv(r, j)', ~Arms(r, j)' => Follows(j)', Alone(r, j)
      PROVE  JobInv(j)'
  <2>1. Arms(r, j)' => Knows(r, j)'
    BY <1>k, <1>0 DEF Knows
  <2> QED
    BY <1>k, <1>0, <2>1, Solo
<1>c. ASSUME Arms(r, j)' <=> Arms(r, j), Arms(r, j) => ResumeInv(r, j)', row'[j] = row[j], timer'[j] = timer[j]
      PROVE  JobInv(j)'
  <2>1. Arms(r, j) => Knows(r, j)'
    BY <1>c, <1>0 DEF Knows
  <2> QED
    BY <1>c, <1>0, <1>t, <2>1, Calm DEF Same
<1>i. ASSUME Arms(r, j) PROVE Alone(r, j) /\ ResumeInv(r, j)
  BY <1>i, <1>0 DEF JobInv, Knows
<1>f. ASSUME row'[j] = row[j], timer'[j] = timer[j] PROVE (Follows(j)' <=> Follows(j)) /\ (Due(j)' <=> Due(j))
  BY <1>f DEF Follows, Due
<1>1. CASE ResumeList(r)
  <2>1. /\ pc[r] = "new" /\ pc'[r] = "load" /\ row' = row /\ timer' = timer
        /\ todo'[r][j] = IF row[j].live /\ row[j].enabled THEN row[j] ELSE NoRow
    BY <1>0, <1>1, <1>t DEF ResumeList, Begins, GoTo, TypeOK
  <2>2. ~Beside(r, j)
    BY <1>1 DEF ResumeList
  <2>3. Alone(r, j) /\ Follows(j)
    BY <2>1, <2>2, BeginsAlone DEF Editing
  <2>4. Follows(j)'
    BY <2>1, <2>3, <1>f
  <2>5. todo'[r][j].live => todo'[r][j].enabled /\ Same(todo'[r][j], row'[j])
    <3>1. ~NoRow.live
      BY DEF NoRow
    <3>2. todo'[r][j].live => todo'[r][j] = row[j] /\ row[j].enabled
      BY <2>1, <3>1
    <3> QED
      BY <2>1, <3>2 DEF Same
  <2>6. ResumeInv(r, j)'
    BY <2>1, <2>4, <2>5 DEF ResumeInv
  <2> QED
    BY <2>3, <2>4, <2>6, <1>k
<1>2. CASE ResumeWrite(r)
  <2>1. pc[r] = "write" /\ job' = job /\ todo' = todo /\ timer' = timer /\ pc'[r] \in {"arm", "load"}
    BY <1>0, <1>2, <1>t DEF ResumeWrite, GoTo, TypeOK
  <2>2. Arms(r, j)' <=> Arms(r, j)
    BY <2>1, <1>0, RequestArms DEF Active
  <2>3. CASE j # job[r]
    <3>1. row'[j] = row[j]
      BY <1>0, <1>2, <2>3, <1>t DEF ResumeWrite, Store, TypeOK
    <3>2. ASSUME Arms(r, j) PROVE ResumeInv(r, j)'
      <4>1. todo[r][j].live /\ ResumeInv(r, j)
        BY <3>2, <1>i, <2>3, RequestArms
      <4> QED
        BY <4>1, <2>1, <2>3, <3>1, <1>f DEF ResumeInv
    <3> QED
      BY <1>c, <2>1, <2>2, <3>1, <3>2
  <2>4. CASE j = job[r]
    <3> DEFINE w == AfterRun(copy[r], row[j])
    <3>1. pc'[r] = "arm" /\ copy' = copy /\ Store(j, w)
      BY <1>0, <1>2, <2>4, <1>t DEF ResumeWrite, GoTo, TypeOK
    <3>2. Arms(r, j)
      BY <2>1, <2>4, <1>0, RequestArms DEF Active
    <3>3. Alone(r, j) /\ copy[r].live /\ copy[r].enabled /\ ~todo[r][j].live /\ Same(copy[r], row[j])
      BY <1>i, <3>2, <2>1, <2>4 DEF ResumeInv
    <3>4. row'[j] = w
      BY <3>1, <3>3, <1>t DEF Store, Same, TypeOK
    <3>5. /\ w.live /\ w.sched = row[j].sched /\ copy[r].sched = row[j].sched
          /\ w.enabled <=> copy[r].sched # "at"
          /\ w.next <=> copy[r].sched \notin OneShot
      BY <3>3, <1>0 DEF AfterRun, Row, ComputeNextRun, OneShot, Same
    <3> HIDE DEF w
    <3>6. row'[j].sched = copy[r].sched /\ (Due(j)' <=> copy[r].sched \notin OneShot)
      BY <3>4, <3>5 DEF Due, OneShot
    <3>7. ResumeInv(r, j)'
      BY <2>1, <2>4, <3>1, <3>3, <3>6 DEF ResumeInv
    <3> QED
      BY <1>k, <2>2, <3>2, <3>3, <3>7
  <2> QED
    BY <2>3, <2>4
<1>3. CASE ResumeArm(r)
  <2> DEFINE w == [copy[r] EXCEPT !.next = ComputeNextRun(copy[r].sched)]
             t == IF copy[r].sched = "at" THEN "none" ELSE Armed(w)
  <2>1. /\ pc[r] = "arm" /\ pc'[r] = "load" /\ job' = job /\ todo' = todo /\ row' = row
        /\ \A i \in Jobs : timer'[i] = IF i = job[r] THEN t ELSE timer[i]
    BY <1>0, <1>3, <1>t DEF ResumeArm, Arm, GoTo, TypeOK
  <2>2. Arms(r, j)' <=> Arms(r, j)
    BY <2>1, <1>0, RequestArms DEF Active
  <2>3. CASE j # job[r]
    <3>1. timer'[j] = timer[j]
      BY <2>1, <2>3
    <3>2. ASSUME Arms(r, j) PROVE ResumeInv(r, j)'
      <4>1. todo[r][j].live /\ ResumeInv(r, j)
        BY <3>2, <1>i, <2>3, RequestArms
      <4> QED
        BY <4>1, <2>1, <2>3, <3>1, <1>f DEF ResumeInv
    <3> QED
      BY <1>c, <2>1, <2>2, <3>1, <3>2
  <2>4. CASE j = job[r]
    <3>1. Arms(r, j)
      BY <2>1, <2>4, <1>0, RequestArms DEF Active
    <3>2. /\ Alone(r, j) /\ copy[r].live /\ copy[r].enabled /\ ~todo[r][j].live /\ row[j].sched = copy[r].sched
          /\ Due(j) <=> copy[r].sched \notin OneShot
      BY <1>i, <3>1, <2>1, <2>4 DEF ResumeInv
    <3>3. w.live /\ w.enabled /\ w.sched = row[j].sched /\ (w.next <=> row[j].sched # "manual")
      BY <3>2, <1>0 DEF Row, ComputeNextRun
    <3>4. Armed(w) = IF row[j].sched = "manual" THEN "none" ELSE row[j].sched
      BY <3>3 DEF Armed
    <3> HIDE DEF w
    <3>5. IF Due(j) THEN t \in {row[j].sched, "at"} ELSE t = "none"
      BY <3>2, <3>4 DEF OneShot
    <3> HIDE DEF t
    <3>6. Follows(j)'
      BY <2>1, <2>4, <3>5 DEF Follows, Due
    <3>7. ResumeInv(r, j)'
      BY <2>1, <3>2, <3>6 DEF ResumeInv
    <3> QED
      BY <1>k, <3>2, <3>6, <3>7
  <2> QED
    BY <2>3, <2>4
<1>4. CASE ResumeEnds(r)
  <2>1. pc[r] = "load" /\ pc'[r] = "done" /\ row' = row /\ timer' = timer
    BY <1>0, <1>4, <1>t DEF ResumeEnds, Ends, GoTo, TypeOK
  <2>2. ~Arms(r, j)'
    BY <2>1, RequestArms DEF Active
  <2>3. CASE ~Arms(r, j)
    BY <1>c, <2>1, <2>2, <2>3
  <2>4. CASE Arms(r, j)
    <3>1. Alone(r, j) /\ Follows(j)
      BY <1>i, <2>1, <2>4 DEF ResumeInv
    <3> QED
      BY <1>k, <1>f, <2>1, <2>2, <3>1
  <2> QED
    BY <2>3, <2>4
<1>5. ASSUME NEW i \in Jobs, ResumeKeeps(r, i) PROVE JobInv(j)'
  <2>1. /\ pc[r] = "load" /\ pc' = pc /\ job' = job /\ copy' = copy /\ row' = row /\ todo[r][i].live
        /\ \A k \in Jobs : timer'[k] = IF k = i THEN Armed(todo[r][i]) ELSE timer[k]
        /\ \A k \in Jobs : todo'[r][k] = IF k = i THEN NoRow ELSE todo[r][k]
    BY <1>0, <1>5, <1>t DEF ResumeKeeps, Arm, Handled, TypeOK
  <2>2. CASE j # i
    <3>1. (Arms(r, j)' <=> Arms(r, j)) /\ timer'[j] = timer[j] /\ todo'[r][j] = todo[r][j]
      BY <2>1, <2>2, <1>0, RequestArms DEF Active
    <3>2. ASSUME Arms(r, j) PROVE ResumeInv(r, j)'
      <4>1. ResumeInv(r, j)
        BY <3>2, <1>i
      <4> QED
        BY <4>1, <2>1, <3>1, <1>f DEF ResumeInv
    <3> QED
      BY <1>c, <2>1, <3>1, <3>2
  <2>3. CASE j = i
    <3>1. Arms(r, j)
      BY <2>1, <2>3, <1>0, RequestArms DEF Active
    <3>2. Alone(r, j) /\ Same(todo[r][j], row[j])
      BY <3>1, <1>i, <2>1, <2>3 DEF ResumeInv
    <3>3. Follows(j)'
      BY <1>0, <2>1, <2>3, <3>2, ArmedFollows
    <3>4. ~todo'[r][j].live
      BY <2>1, <2>3 DEF NoRow
    <3>5. ResumeInv(r, j)'
      BY <2>1, <3>3, <3>4 DEF ResumeInv
    <3> QED
      BY <1>k, <3>2, <3>3, <3>5
  <2> QED
    BY <2>2, <2>3
<1>6. ASSUME NEW i \in Jobs, ResumeMissed(r, i) PROVE JobInv(j)'
  <2>1. /\ pc[r] = "load" /\ pc'[r] = "write" /\ job'[r] = i /\ copy'[r] = todo[r][i] /\ timer' = timer /\ todo[r][i].live
        /\ \A k \in Jobs : todo'[r][k] = IF k = i THEN NoRow ELSE todo[r][k]
    BY <1>0, <1>6, <1>t DEF ResumeMissed, GoTo, Handled, TypeOK
  <2>2. CASE j # i
    <3>1. row'[j] = row[j] /\ timer'[j] = timer[j] /\ todo'[r][j] = todo[r][j]
      BY <1>6, <2>1, <2>2, <1>t DEF ResumeMissed, Store, TypeOK
    <3>2. Arms(r, j)' <=> todo[r][j].live
      BY <2>1, <2>2, <3>1, <1>0, RequestArms DEF Active
    <3>3. CASE ~Arms(r, j)
      <4>1. ~Arms(r, j)'
        BY <2>1, <3>2, <3>3, <1>0, RequestArms DEF Active
      <4> QED
        BY <1>c, <3>1, <3>3, <4>1
    <3>4. CASE Arms(r, j)
      <4>1. Alone(r, j) /\ ResumeInv(r, j) /\ Follows(j)'
        BY <1>i, <1>f, <2>1, <3>1, <3>4 DEF ResumeInv
      <4>2. ResumeInv(r, j)'
        BY <2>1, <2>2, <3>1, <4>1 DEF ResumeInv
      <4> QED
        BY <1>k, <4>1, <4>2
    <3> QED
      BY <3>3, <3>4
  <2>3. CASE j = i
    <3>1. Arms(r, j)
      BY <2>1, <2>3, <1>0, RequestArms DEF Active
    <3>2. Alone(r, j) /\ Same(todo[r][j], row[j]) /\ Follows(j) /\ todo[r][j].enabled
      BY <3>1, <1>i, <2>1, <2>3 DEF ResumeInv
    <3>3. Same(row'[j], row[j])
      <4>1. Same([row[j] EXCEPT !.retry = 0], row[j])
        BY <1>0 DEF Same, Row
      <4>2. row'[j] = row[j] \/ row'[j] = [row[j] EXCEPT !.retry = 0]
        BY <1>6, <2>3, <1>t DEF ResumeMissed, Store, TypeOK
      <4> QED
        BY <4>1, <4>2 DEF Same
    <3>4. Follows(j)' /\ Same(copy'[r], row'[j])
      BY <2>1, <2>3, <3>2, <3>3 DEF Follows, Due, Same
    <3>5. ~todo'[r][j].live
      BY <2>1, <2>3 DEF NoRow
    <3>6. ResumeInv(r, j)'
      BY <2>1, <2>3, <3>2, <3>4, <3>5 DEF ResumeInv
    <3> QED
      BY <1>k, <3>2, <3>4, <3>6
  <2> QED
    BY <2>2, <2>3
<1> QED
  BY <1>1, <1>2, <1>3, <1>4, <1>5, <1>6

(* Every request. *)
LEMMA RequestJob ==
    ASSUME TypeInv, OpInv, NEW r \in Requests, Request(r), NEW j \in Jobs, j \notin excused', JobInv(j)
    PROVE  JobInv(j)'
<1>1. Apart(r)
  BY RequestApart DEF TypeInv
<1>2. CASE AddInsert(r) \/ (RequestArm(r) /\ Op(r) = "add")
  BY <1>1, <1>2, AddJob
<1>3. CASE UpdateLoad(r) \/ UpdateWrite(r) \/ UpdateRefused(r) \/ (RequestArm(r) /\ Op(r) = "update")
  BY <1>1, <1>3, UpdateJob
<1>4. CASE RemoveCancel(r) \/ RemoveDelete(r)
  BY <1>1, <1>4, RemoveJob
<1>5. CASE RunNow(r)
  BY <1>1, <1>5, RunNowJob
<1>6. CASE \/ ResumeList(r) \/ ResumeWrite(r) \/ ResumeArm(r) \/ ResumeEnds(r)
           \/ \E i \in Jobs : ResumeKeeps(r, i) \/ ResumeMissed(r, i)
  <2>1. Op(r) = "resume"
    BY <1>6 DEF ResumeList, Begins, ResumeWrite, ResumeArm, ResumeEnds, ResumeKeeps, ResumeMissed
  <2> QED
    BY <1>1, <1>6, <2>1, ResumeJob
<1>7. RequestArm(r) => Op(r) \in {"add", "update"}
  BY DEF RequestArm
<1> QED
  BY <1>2, <1>3, <1>4, <1>5, <1>6, <1>7 DEF Request

(* A dropped handler leaves a timer and a row apart only where it excuses the *)
(* job: an update and a resume that have not written yet have changed neither. *)
LEMMA DropJob ==
    ASSUME TypeInv, OpInv, NEW r \in Requests, Drop(r), NEW j \in Jobs, j \notin excused', JobInv(j)
    PROVE  JobInv(j)'
<1>t. TypeOK
  BY DEF TypeInv
<1>0. /\ r \in Procs /\ r \notin Ticks /\ Doing(r) /\ Apart(r) /\ row' = row /\ timer' = timer /\ pc'[r] = "done"
      /\ pc[r] \in {"load", "write", "arm", "prepare"}
  BY <1>t, CronAssumption, DropApart DEF Procs, OpInv, Drop
<1>1. ~Arms(r, j)'
  BY <1>0, RequestArms DEF Active
<1>2. CASE ~Arms(r, j)
  BY <1>0, <1>t, <1>1, <1>2, Calm DEF Same
<1>3. CASE Arms(r, j)
  <2>1. Alone(r, j) /\ Knows(r, j)
    BY <1>0, <1>3 DEF JobInv
  <2>2. j = job[r] \/ (todo[r][j].live /\ Op(r) = "resume")
    BY <1>0, <1>3, RequestArms DEF Doing
  <2>3. j = job[r] => pc[r] # "arm" /\ Op(r) # "remove"
    BY DEF Drop, LeftApart
  <2>4. Op(r) \in {"update", "resume"} /\ (Op(r) = "update" => pc[r] = "write")
    BY <1>0, <1>3, <2>2, <2>3 DEF Doing, Arms, Arming
  <2>5. Follows(j)
    <3>1. CASE Op(r) = "update"
      BY <1>0, <2>1, <2>4, <3>1 DEF Knows, UpdateInv
    <3>2. CASE Op(r) = "resume"
      BY <1>0, <2>1, <2>2, <2>3, <3>2 DEF Knows, ResumeInv, Doing
    <3> QED
      BY <2>4, <3>1, <3>2
  <2>6. Follows(j)'
    BY <1>0, <2>5 DEF Follows, Due
  <2> QED
    BY <1>0, <1>1, <2>1, <2>6, Solo
<1> QED
  BY <1>2, <1>3

(* A restart arms every timer from its row, or excuses every job. *)
LEMMA RestartJob ==
    ASSUME TypeInv, Restart, NEW j \in Jobs, j \notin excused'
    PROVE  JobInv(j)'
<1>1. row' = row /\ timer'[j] = Armed(row[j]) /\ row[j] \in Row
  BY DEF Restart, TypeInv, TypeOK
<1>2. ASSUME NEW p \in Procs PROVE ~Arms(p, j)'
  <2>1. pc'[p] \in {"idle", "new", "done"}
    BY DEF Restart
  <2> QED
    BY <2>1 DEF Arms, Handles, Active
<1>3. Follows(j)'
  BY <1>1, ArmedFollows DEF Same
<1> QED
  BY <1>2, <1>3 DEF JobInv

-----------------------------------------------------------------------------
(* Theorems *)

(* The service starts with every timer armed from its row. *)
LEMMA InitInv ==
    ASSUME Init
    PROVE  IInv
<1>1. scn \in Scenarios /\ scn \in Workloads /\ AnyJob \in Jobs
  BY CronAssumption DEF Init, AnyJob
<1>2. \A j \in Jobs : row[j] \in Row /\ row[j].retry <= row[j].limit /\ Armed(row[j]) \in {"none", "at", "every", "cron"}
  BY <1>1, CronAssumption, RowTypes DEF Init, Workloads
<1>3. NoRow \in Row
  BY <1>1, <1>2, RowTypes
<1>4. TypeInv
  BY <1>1, <1>2, <1>3 DEF Init, TypeInv, TypeOK, Workloads, Procs, Steps, Results
<1>5. \A p \in Procs : pc[p] = (IF p \in Ticks THEN "idle" ELSE "new") /\ result[p] = "none"
  BY DEF Init
<1>6. OpInv
  <2>1. \A r \in Requests : pc[r] = "new" /\ result[r] = "none" /\ \A j \in Jobs : ~todo[r][j].live
    BY <1>5, CronAssumption DEF Procs, Init, NoRow
  <2> QED
    BY <2>1 DEF OpInv, Doing
<1>7. LimitInv
  BY <1>5 DEF LimitInv, Counting, Procs
<1>8. ASSUME NEW j \in Jobs PROVE JobInv(j)
  <2>1. \A p \in Procs : ~Arms(p, j)
    BY <1>5 DEF Arms, Handles, Active
  <2>2. timer[j] = Armed(row[j])
    BY DEF Init
  <2>3. Follows(j)
    BY <2>2, <1>2 DEF Follows, Due, Armed, Row
  <2> QED
    BY <2>1, <2>3 DEF JobInv
<1> QED
  BY <1>4, <1>6, <1>7, <1>8 DEF IInv

(* Every step keeps the invariant. *)
LEMMA StepInv ==
    ASSUME IInv, [Next]_vars
    PROVE  IInv'
<1> USE DEF IInv
<1>1. TypeInv' /\ OpInv' /\ LimitInv'
  BY TypeStep, OpStep, LimitStep
<1>2. SUFFICES ASSUME NEW j \in Jobs \ excused' PROVE JobInv(j)'
  BY <1>1
<1>3. CASE Restart
  BY <1>3, RestartJob
<1>4. CASE ~Restart
  <2>1. excused \subseteq excused'
    <3>1. ASSUME NEW c \in Convs, UserTurn(c) \/ UserTurnEnds(c) PROVE excused \subseteq excused'
      BY <3>1 DEF UserTurn, UserTurnEnds
    <3>2. ASSUME NEW i \in Jobs, Fire(i) PROVE excused \subseteq excused'
      BY <3>2 DEF Fire, Excuse
    <3>3. ASSUME NEW p \in Ticks, Tick(p) PROVE excused \subseteq excused'
      BY <3>3 DEF Tick, TickMissing, TickLoadFails, TickDisabled, TickLoads, Reschedule, TickArm, Excuse
    <3>4. ASSUME NEW p \in Procs, Execution(p) PROVE excused \subseteq excused'
      BY <3>4 DEF Execution, PrepareFails, PrepareBusy, Prepare, RunBusy, Run, TurnEnds, Record, Excuse
    <3>5. ASSUME NEW r \in Requests, Request(r) PROVE excused \subseteq excused'
      <4>1. CASE AddInsert(r) \/ RequestArm(r) \/ UpdateLoad(r) \/ UpdateWrite(r) \/ UpdateRefused(r)
        BY <4>1 DEF AddInsert, RequestArm, UpdateLoad, UpdateWrite, UpdateRefused, Excuse
      <4>2. CASE RemoveCancel(r) \/ RemoveDelete(r) \/ RunNow(r)
        BY <4>2 DEF RemoveCancel, RemoveDelete, RunNow, Excuse
      <4>3. CASE ResumeList(r) \/ ResumeWrite(r) \/ ResumeArm(r) \/ ResumeEnds(r)
        BY <4>3 DEF ResumeList, ResumeWrite, ResumeArm, ResumeEnds, Excuse
      <4>4. ASSUME NEW i \in Jobs, ResumeKeeps(r, i) \/ ResumeMissed(r, i) PROVE excused \subseteq excused'
        BY <4>4 DEF ResumeKeeps, ResumeMissed, Excuse
      <4> QED BY <3>5, <4>1, <4>2, <4>3, <4>4 DEF Request
    <3>6. CASE UNCHANGED vars
      BY <3>6 DEF vars
    <3>7. ASSUME NEW r \in Requests, Drop(r) PROVE excused \subseteq excused'
      BY <3>7 DEF Drop
    <3> QED BY <1>4, <3>1, <3>2, <3>3, <3>4, <3>5, <3>6, <3>7 DEF Next
  <2>2. JobInv(j)
    BY <2>1
  <2>3. ASSUME UNCHANGED <<scn, row, timer, procs>> PROVE JobInv(j)'
    <3>1. \A p \in Procs : (Arms(p, j)' <=> Arms(p, j)) /\ (Alone(p, j)' <=> Alone(p, j))
      BY <2>3 DEF Arms, Alone, Handles, Active, Arming, Op, procs
    <3>2. \A p \in Procs : Knows(p, j) => Knows(p, j)'
      BY <2>3, KnowsKept DEF procs, Same
    <3>3. (Follows(j)' <=> Follows(j)) /\ (Quiet(j)' <=> Quiet(j))
      BY <2>3, <3>1, QuietArms DEF Follows, Due
    <3> QED
      BY <2>2, <2>3, <3>1, <3>2, <3>3 DEF JobInv
  <2>4. CASE UNCHANGED vars
    BY <2>3, <2>4 DEF vars
  <2>5. ASSUME NEW c \in Convs, UserTurn(c) \/ UserTurnEnds(c) PROVE JobInv(j)'
    BY <2>3, <2>5 DEF UserTurn, UserTurnEnds
  <2> QED
    BY <1>4, <2>2, <2>4, <2>5, FireJob, TickJob, ExecutionJob, RequestJob, DropJob DEF Next
<1> QED
  BY <1>3, <1>4

(* The invariant of the scheduled jobs holds in every reachable state. *)
THEOREM CronInvariant == Spec => []IInv
<1>1. Init => IInv
  BY InitInv
<1>2. IInv /\ [Next]_vars => IInv'
  BY StepInv
<1> QED
  BY <1>1, <1>2, PTL DEF Spec

(* Every state of the cron service is well typed; in particular the attempts *)
(* counted for a job never exceed its max_retries, although a tick counts    *)
(* them on the copy of the row it read when it began.                        *)
THEOREM TypesCorrect == Spec => []TypeOK
<1>1. IInv => TypeOK
  BY DEF IInv, TypeInv
<1> QED
  BY <1>1, CronInvariant, PTL

(* When every operation on a job has ended, the timer of the job agrees with *)
(* the row, whatever ticks, retries, run_now calls, edits of a job at rest,  *)
(* resumes, dropped handlers and restarts came before: no due job is left    *)
(* without a timer and no other job has one, unless a storage failure, a     *)
(* concurrent edit or a handler dropped between the row and the timer of the *)
(* job is on record since the last restart.                                  *)
THEOREM TimersFollowRows == Spec => []TimerFollowsRow
<1>1. IInv => TimerFollowsRow
  BY DEF IInv, JobInv, Follows, TimerFollowsRow
<1> QED
  BY <1>1, CronInvariant, PTL
=============================================================================
