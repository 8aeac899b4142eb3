------------------------------ MODULE CronJobs ------------------------------
(***************************************************************************)
(* Scheduled jobs: crates/aionui-cron (service.rs, scheduler.rs,           *)
(* executor.rs), wired by aionui-app/src/router/state.rs.                  *)
(*                                                                         *)
(* A job is a database row and at most one timer.  A timer that goes off   *)
(* spawns a tick, which no later abort of the timer reaches; a tick reads  *)
(* the row once and works with that copy until it has re-armed the timer.  *)
(* Requests (add, update, remove, run now, resume) run beside the ticks.   *)
(*                                                                         *)
(* Abstracted: the clock.  next_run_at is kept as set or not set, a set    *)
(* timer may go off at any time, and a resume may find any set next_run_at *)
(* in the past.  The schedule is one of "at", two periodic ones, and       *)
(* "manual", the empty cron expression, which has no next run.             *)
(***************************************************************************)
EXTENDS Naturals, FiniteSets

CONSTANTS Jobs,
          Ticks,       \* bound: ticks in progress at the same time
          Requests,    \* calls of the service
          Convs,       \* conversations of the jobs that continue one
          Fresh,       \* home of a job that runs in a new conversation
          Free, User,  \* claim of a conversation: none, an interactive turn
          Keep,        \* a field that an update does not give
          Scenarios,   \* the workloads Init chooses from
          MaxRetries   \* max_retries of a new job (3 in the code)

Schedules == {"at", "every", "cron", "manual"}
Limits    == 0..(MaxRetries + 1)
Row == [live : BOOLEAN, enabled : BOOLEAN, sched : Schedules, next : BOOLEAN,
        retry : Limits, limit : Limits]
Call == [op : {"add", "update", "remove", "runnow", "resume", "unused"}, job : Jobs,
         enabled : BOOLEAN \cup {Keep}, sched : Schedules \cup {Keep}]

(* A workload: the rows at the start, where the jobs run, what each request *)
(* asks for, and how many storage failures and restarts happen              *)
Workloads == [rows : [Jobs -> Row], home : [Jobs -> Convs \cup {Fresh}],
              call : [Requests -> Call], faults : 0..2, restarts : 0..2]

ASSUME CronAssumption ==
    /\ Scenarios \subseteq Workloads
    /\ \A s \in Scenarios : \A j \in Jobs : s.rows[j].retry <= s.rows[j].limit
    /\ \A s \in Scenarios : \A r \in Requests : s.call[r].op = "add" => s.call[r].sched # Keep
    /\ MaxRetries \in Nat /\ Jobs # {}
    /\ Ticks \cap Requests = {}
    /\ Free # User /\ {Free, User} \cap (Ticks \cup Requests) = {}
    /\ Keep \notin BOOLEAN /\ Keep \notin Schedules

VARIABLES
    scn,     \* the workload, fixed by Init
    row,     \* row[j]: the stored job
    timer,   \* timer[j]: the schedule of the armed timer, "none"
    claim,   \* claim[c]: the holder of the conversation
    pc, job, copy, result,  \* ticks and requests
    todo,    \* todo[r]: the rows a resume has listed and not yet handled
    faults,  \* storage failures left
    restarts,\* restarts left
    excused  \* history: jobs that met a failure, an edit beside another operation
             \* or a handler dropped between their row and their timer

procs  == <<pc, job, copy, result, todo>>
budget == <<faults, restarts>>
vars   == <<scn, row, timer, claim, procs, budget, excused>>

Procs   == Ticks \cup Requests
Steps   == {"idle", "load", "prepare", "run", "turn", "record", "reschedule", "arm"}
Results == {"none", "settled", "retrying"}  \* settled: ok, error or skipped
Op(r)   == scn.call[r].op

TypeOK ==
    /\ row \in [Jobs -> Row] /\ timer \in [Jobs -> {"none", "at", "every", "cron"}]
    /\ claim \in [Convs -> {Free, User} \cup Procs]
    /\ pc \in [Procs -> Steps \cup {"new", "write", "done"}]
    /\ \A p \in Ticks : pc[p] \in Steps
    /\ job \in [Procs -> Jobs] /\ copy \in [Procs -> Row] /\ result \in [Procs -> Results]
    /\ todo \in [Requests -> [Jobs -> Row]]
    /\ faults \in 0..2 /\ restarts \in 0..2
    /\ excused \subseteq Jobs
    /\ \A j \in Jobs : row[j].retry <= row[j].limit

NoRow  == [live |-> FALSE, enabled |-> FALSE, sched |-> "manual", next |-> FALSE, retry |-> 0, limit |-> 0]
AnyJob == CHOOSE j \in Jobs : TRUE

(* schedule_job cancels the old timer and arms one for an enabled job with a *)
(* next run; the timer of an empty cron expression goes off once             *)
Armed(w) == IF ~(w.live /\ w.enabled /\ w.next) THEN "none"
            ELSE IF w.sched = "manual" THEN "at" ELSE w.sched
Arm(j, t) == timer' = [timer EXCEPT ![j] = t]

ComputeNextRun(s) == s # "manual"

Init ==
    /\ scn \in Scenarios
    /\ row = scn.rows /\ timer = [j \in Jobs |-> Armed(scn.rows[j])]
    /\ claim = [c \in Convs |-> Free]
    /\ pc = [p \in Procs |-> IF p \in Ticks THEN "idle" ELSE "new"]
    /\ job = [p \in Procs |-> AnyJob] /\ copy = [p \in Procs |-> NoRow]
    /\ result = [p \in Procs |-> "none"]
    /\ todo = [r \in Requests |-> [j \in Jobs |-> NoRow]]
    /\ faults = scn.faults /\ restarts = scn.restarts
    /\ excused = {}

GoTo(p, s) == pc' = [pc EXCEPT ![p] = s]
Finish(p, s) == result' = [result EXCEPT ![p] = s] /\ GoTo(p, "record")
Ends(p) ==
    /\ GoTo(p, IF p \in Ticks THEN "idle" ELSE "done")
    /\ job' = [job EXCEPT ![p] = AnyJob] /\ copy' = [copy EXCEPT ![p] = NoRow]
    /\ result' = [result EXCEPT ![p] = "none"]

Fails == faults > 0 /\ faults' = faults - 1

(* repo.update: the row becomes w; a missing row is only logged *)
Store(j, w) == row' = [row EXCEPT ![j] = IF @.live THEN w ELSE @]

Active(p)      == pc[p] \notin {"idle", "new", "done"}
Handles(p, j)  == Active(p) /\ (job[p] = j \/ (p \in Requests /\ todo[p][j].live))
Editing(p)     == p \in Requests /\ Op(p) \in {"update", "remove", "resume"}
Arming(p)      == p \in Ticks \/ Op(p) # "runnow"
(* an edit beside another operation that will arm or cancel the timer *)
Beside(p, j) == \E q \in Procs \ {p} : Handles(q, j) /\ Arming(q) /\ (Editing(p) \/ Editing(q))
Excuse(p, j) == excused' = IF Beside(p, j) THEN excused \cup {j} ELSE excused

-----------------------------------------------------------------------------
(* Interactive turns and timers *)

UserTurn(c) ==
    /\ claim[c] = Free /\ claim' = [claim EXCEPT ![c] = User]
    /\ UNCHANGED <<scn, row, timer, procs, budget, excused>>

UserTurnEnds(c) ==
    /\ claim[c] = User /\ claim' = [claim EXCEPT ![c] = Free]
    /\ UNCHANGED <<scn, row, timer, procs, budget, excused>>

(* An "at" timer goes off once, a periodic one goes on; the tick is a task of its own *)
Fire(j) ==
    /\ timer[j] # "none" /\ \E p \in Ticks : pc[p] = "idle"
    /\ timer' = [timer EXCEPT ![j] = IF @ = "at" THEN "none" ELSE @]
    /\ LET p == CHOOSE q \in Ticks : pc[q] = "idle"
       IN GoTo(p, "load") /\ job' = [job EXCEPT ![p] = j] /\ Excuse(p, j)
    /\ UNCHANGED <<scn, row, claim, copy, result, todo, budget>>

-----------------------------------------------------------------------------
(* tick *)

MutantOnlyReturns(p) ==
    /\ p \in Ticks /\ pc[p] = "load" /\ ~row[job[p]].live /\ Ends(p)
    /\ UNCHANGED <<scn, row, timer, claim, todo, budget, excused>>

TickMissing(p) ==
    /\ p \in Ticks /\ pc[p] = "load" /\ ~row[job[p]].live
    /\ Arm(job[p], "none") /\ Ends(p)
    /\ UNCHANGED <<scn, row, claim, todo, budget, excused>>

(* the row cannot be read or parsed, or its assistant not resolved *)
TickLoadFails(p) ==
    /\ p \in Ticks /\ pc[p] = "load" /\ Fails
    /\ Ends(p) /\ excused' = excused \cup {job[p]}
    /\ UNCHANGED <<scn, row, timer, claim, todo, restarts>>

TickDisabled(p) ==
    /\ p \in Ticks /\ pc[p] = "load" /\ row[job[p]].live /\ ~row[job[p]].enabled
    /\ Ends(p)
    /\ UNCHANGED <<scn, row, timer, claim, todo, budget, excused>>

TickLoads(p) ==
    /\ p \in Ticks /\ pc[p] = "load" /\ row[job[p]].live /\ row[job[p]].enabled
    /\ copy' = [copy EXCEPT ![p] = row[job[p]]] /\ GoTo(p, "prepare")
    /\ UNCHANGED <<scn, row, timer, claim, job, result, todo, budget, excused>>

-----------------------------------------------------------------------------
(* The executor, for ticks and run_now *)

Home(p) == scn.home[job[p]]
Claimed(p) == Home(p) # Fresh /\ claim[Home(p)] # Free

MutantPatient(p) == Finish(p, IF copy[p].retry > copy[p].limit THEN "settled" ELSE "retrying")

HandleBusy(p) == Finish(p, IF copy[p].retry >= copy[p].limit THEN "settled" ELSE "retrying")

(* the skill, the workspace or the conversation cannot be prepared or bound *)
PrepareFails(p) ==
    /\ pc[p] = "prepare"
    /\ IF p \in Ticks THEN Finish(p, "settled") /\ UNCHANGED <<job, copy>> ELSE Ends(p)
    /\ UNCHANGED <<scn, row, timer, claim, todo, budget, excused>>

PrepareBusy(p) ==
    /\ pc[p] = "prepare" /\ Claimed(p)
    /\ IF p \in Ticks THEN HandleBusy(p) /\ UNCHANGED <<job, copy>> ELSE Ends(p)
    /\ UNCHANGED <<scn, row, timer, claim, todo, budget, excused>>

Prepare(p) ==
    /\ pc[p] = "prepare" /\ ~Claimed(p) /\ GoTo(p, "run")
    /\ UNCHANGED <<scn, row, timer, claim, job, copy, result, todo, budget, excused>>

(* run_agent_turn finds the conversation claimed *)
RunBusy(p) ==
    /\ pc[p] = "run" /\ Claimed(p)
    /\ IF p \in Ticks THEN HandleBusy(p) ELSE Finish(p, "settled")
    /\ UNCHANGED <<scn, row, timer, claim, job, copy, todo, budget, excused>>

Run(p) ==
    /\ pc[p] = "run" /\ ~Claimed(p) /\ GoTo(p, "turn")
    /\ claim' = [c \in Convs |-> IF c = Home(p) THEN p ELSE claim[c]]
    /\ UNCHANGED <<scn, row, timer, job, copy, result, todo, budget, excused>>

TurnEnds(p) ==
    /\ pc[p] = "turn" /\ Finish(p, "settled")
    /\ claim' = [c \in Convs |-> IF claim[c] = p THEN Free ELSE claim[c]]
    /\ UNCHANGED <<scn, row, timer, job, copy, todo, budget, excused>>

-----------------------------------------------------------------------------
(* handle_execution_result and handle_run_now_result *)

MutantKeepsCount(p, w) ==
    [w EXCEPT !.retry = IF result[p] = "retrying" THEN copy[p].retry + 1 ELSE copy[p].retry]

Recorded(p, w) == [w EXCEPT !.retry = IF result[p] = "retrying" THEN copy[p].retry + 1 ELSE 0]

(* update_job_after_success, update_job_after_error, the skipped status, the retry count *)
Record(p) ==
    /\ pc[p] = "record"
    /\ \/ Store(job[p], Recorded(p, row[job[p]])) /\ UNCHANGED <<faults, excused>>
       \/ Fails /\ row' = row /\ excused' = excused \cup {job[p]}
    /\ IF p \in Requests THEN Ends(p)
       ELSE GoTo(p, IF result[p] = "retrying" THEN "arm" ELSE "reschedule") /\ UNCHANGED <<job, copy, result>>
    /\ UNCHANGED <<scn, timer, claim, todo, restarts>>

(* the row w after a run of the job as the copy c has it *)
AfterRun(c, w) == IF c.sched = "at" THEN [w EXCEPT !.enabled = FALSE, !.next = FALSE]
                  ELSE [w EXCEPT !.next = ComputeNextRun(c.sched)]

(* reschedule_after_execution writes the row ... *)
Reschedule(p) ==
    /\ pc[p] = "reschedule" /\ GoTo(p, "arm")
    /\ \/ Store(job[p], AfterRun(copy[p], row[job[p]])) /\ UNCHANGED <<faults, excused>>
       \/ Fails /\ row' = row /\ excused' = excused \cup {job[p]}
    /\ UNCHANGED <<scn, timer, claim, job, copy, result, todo, restarts>>

(* schedule_retry arms the timer of a made-up job whose schedule is "at" *)
RetryTimer == "at"

(* ... and arms the timer from the copy read when the tick began *)
TickArm(p) ==
    /\ p \in Ticks /\ pc[p] = "arm" /\ Ends(p)
    /\ Arm(job[p], CASE result[p] = "retrying" -> RetryTimer
                     [] result[p] # "retrying" /\ copy[p].sched = "at" -> "none"
                     [] OTHER -> Armed([copy[p] EXCEPT !.next = ComputeNextRun(copy[p].sched)]))
    /\ UNCHANGED <<scn, row, claim, todo, budget, excused>>

-----------------------------------------------------------------------------
(* Requests *)

Begins(r, op) == r \in Requests /\ pc[r] = "new" /\ Op(r) = op

NewRow(r) == [live |-> TRUE, enabled |-> TRUE, sched |-> scn.call[r].sched,
              next |-> ComputeNextRun(scn.call[r].sched), retry |-> 0, limit |-> MaxRetries]

(* the id of a new job is one that no operation refers to *)
AddInsert(r) ==
    /\ Begins(r, "add") /\ ~row[scn.call[r].job].live
    /\ \A p \in Procs : ~Handles(p, scn.call[r].job)
    /\ job' = [job EXCEPT ![r] = scn.call[r].job] /\ copy' = [copy EXCEPT ![r] = NewRow(r)]
    /\ row' = [row EXCEPT ![scn.call[r].job] = NewRow(r)] /\ GoTo(r, "arm")
    /\ UNCHANGED <<scn, timer, claim, result, todo, budget, excused>>

MutantForgetsTimer(r) ==
    /\ r \in Requests /\ pc[r] = "arm" /\ Op(r) \in {"add", "update"}
    /\ Arm(job[r], IF scn.call[r].sched = Keep THEN timer[job[r]] ELSE Armed(copy[r])) /\ Ends(r)
    /\ UNCHANGED <<scn, row, claim, todo, budget, excused>>

(* add_job and update_job arm the timer from their own copy and answer with it *)
RequestArm(r) ==
    /\ r \in Requests /\ pc[r] = "arm" /\ Op(r) \in {"add", "update"}
    /\ Arm(job[r], Armed(copy[r])) /\ Ends(r)
    /\ UNCHANGED <<scn, row, claim, todo, budget, excused>>

(* the fields an update gives, and the next run they imply *)
GivesEnabled(r) == scn.call[r].enabled # Keep
GivesSched(r)   == scn.call[r].sched # Keep
Gives(r)        == GivesEnabled(r) \/ GivesSched(r)
Edited(r, w) ==
    LET s == IF GivesSched(r) THEN scn.call[r].sched ELSE w.sched
    IN  [w EXCEPT !.enabled = IF GivesEnabled(r) THEN scn.call[r].enabled ELSE @,
                  !.sched = s,
                  !.next = IF Gives(r) THEN ComputeNextRun(s) ELSE @]

UpdateLoad(r) ==
    /\ Begins(r, "update") /\ row[scn.call[r].job].live
    /\ job' = [job EXCEPT ![r] = scn.call[r].job]
    /\ copy' = [copy EXCEPT ![r] = Edited(r, row[scn.call[r].job])]
    /\ GoTo(r, "write") /\ Excuse(r, scn.call[r].job)
    /\ UNCHANGED <<scn, row, timer, claim, result, todo, budget>>

(* build_update_params: the fields given, and next_run_at with them; it has *)
(* no max_retries, so the limit of a row never changes                      *)
Params(r, w) == [w EXCEPT !.enabled = IF GivesEnabled(r) THEN copy[r].enabled ELSE @,
                          !.sched = IF GivesSched(r) THEN copy[r].sched ELSE @,
                          !.next = IF Gives(r) THEN copy[r].next ELSE @]

UpdateWrite(r) ==
    /\ pc[r] = "write" /\ Op(r) = "update" /\ row[job[r]].live
    /\ Store(job[r], Params(r, row[job[r]])) /\ GoTo(r, "arm")
    /\ UNCHANGED <<scn, timer, claim, job, copy, result, todo, budget, excused>>

(* the job is gone, the request is refused, or the write fails *)
UpdateRefused(r) ==
    /\ pc[r] \in {"new", "write"} /\ Op(r) = "update" /\ Ends(r)
    /\ UNCHANGED <<scn, row, timer, claim, todo, budget, excused>>

RemoveCancel(r) ==
    /\ Begins(r, "remove")
    /\ Arm(scn.call[r].job, "none") /\ job' = [job EXCEPT ![r] = scn.call[r].job]
    /\ GoTo(r, "write") /\ Excuse(r, scn.call[r].job)
    /\ UNCHANGED <<scn, row, claim, copy, result, todo, budget>>

RemoveDelete(r) ==
    /\ pc[r] = "write" /\ Op(r) = "remove"
    /\ \/ row' = [row EXCEPT ![job[r]].live = FALSE] /\ UNCHANGED <<faults, excused>>
       \/ Fails /\ row' = row /\ excused' = excused \cup {job[r]}
    /\ Ends(r)
    /\ UNCHANGED <<scn, timer, claim, todo, restarts>>

RunNow(r) ==
    /\ Begins(r, "runnow")
    /\ job' = [job EXCEPT ![r] = scn.call[r].job]
    /\ IF row[scn.call[r].job].live
       THEN copy' = [copy EXCEPT ![r] = row[scn.call[r].job]] /\ GoTo(r, "prepare")
       ELSE GoTo(r, "done") /\ copy' = copy
    /\ UNCHANGED <<scn, row, timer, claim, result, todo, budget, excused>>

-----------------------------------------------------------------------------
(* handle_system_resume *)

ResumeList(r) ==
    /\ Begins(r, "resume")
    /\ todo' = [todo EXCEPT ![r] = [j \in Jobs |-> IF row[j].live /\ row[j].enabled THEN row[j] ELSE NoRow]]
    /\ GoTo(r, "load")
    /\ excused' = excused \cup {j \in Jobs : Beside(r, j)}
    /\ UNCHANGED <<scn, row, timer, claim, job, copy, result, budget>>

Handled(r, j) == todo' = [todo EXCEPT ![r][j] = NoRow]

(* a job whose next run is not in the past is armed again *)
ResumeKeeps(r, j) ==
    /\ Op(r) = "resume" /\ pc[r] = "load" /\ todo[r][j].live
    /\ Arm(j, Armed(todo[r][j])) /\ Handled(r, j)
    /\ UNCHANGED <<scn, row, claim, pc, job, copy, result, budget, excused>>

(* record_missed_execution, then reschedule_after_missed *)
ResumeMissed(r, j) ==
    /\ Op(r) = "resume" /\ pc[r] = "load" /\ todo[r][j].live /\ todo[r][j].next
    /\ \/ Store(j, [row[j] EXCEPT !.retry = 0]) /\ UNCHANGED <<faults, excused>>
       \/ Fails /\ row' = row /\ excused' = excused \cup {j}
    /\ job' = [job EXCEPT ![r] = j] /\ copy' = [copy EXCEPT ![r] = todo[r][j]]
    /\ Handled(r, j) /\ GoTo(r, "write")
    /\ UNCHANGED <<scn, timer, claim, result, restarts>>

ResumeWrite(r) ==
    /\ Op(r) = "resume" /\ pc[r] = "write"
    /\ \/ Store(job[r], AfterRun(copy[r], row[job[r]])) /\ GoTo(r, "arm") /\ UNCHANGED <<copy, faults, excused>>
       \/ /\ Fails /\ row' = row /\ excused' = excused \cup {job[r]}
          /\ IF copy[r].sched = "at" THEN GoTo(r, "arm") /\ copy' = copy
             ELSE GoTo(r, "load") /\ copy' = [copy EXCEPT ![r] = NoRow]
    /\ UNCHANGED <<scn, timer, claim, job, result, todo, restarts>>

ResumeArm(r) ==
    /\ Op(r) = "resume" /\ pc[r] = "arm"
    /\ Arm(job[r], IF copy[r].sched = "at" THEN "none"
                   ELSE Armed([copy[r] EXCEPT !.next = ComputeNextRun(copy[r].sched)]))
    /\ GoTo(r, "load") /\ copy' = [copy EXCEPT ![r] = NoRow]
    /\ UNCHANGED <<scn, row, claim, job, result, todo, budget, excused>>

ResumeEnds(r) ==
    /\ Op(r) = "resume" /\ pc[r] = "load" /\ \A j \in Jobs : ~todo[r][j].live
    /\ Ends(r)
    /\ UNCHANGED <<scn, row, timer, claim, todo, budget, excused>>

-----------------------------------------------------------------------------
(* The routes await the service in the handler, and the server drops a handler *)
(* whose client goes away: the request stops at an await and does no more.  A  *)
(* run_now that has prepared its conversation is a task of its own.  The await *)
(* it stops at lies between the row and the timer of its job after the write   *)
(* of an add, an update or a resume, and in a removal, whose cancel came first *)
LeftApart(r) == Op(r) = "remove" \/ pc[r] = "arm"

Drop(r) ==
    /\ r \in Requests /\ pc[r] \in {"load", "write", "arm", "prepare"}
    /\ Ends(r) /\ todo' = [todo EXCEPT ![r] = [j \in Jobs |-> NoRow]]
    /\ excused' = IF LeftApart(r) THEN excused \cup {job[r]} ELSE excused
    /\ UNCHANGED <<scn, row, timer, claim, budget>>

-----------------------------------------------------------------------------
(* The process ends at any point; the next one arms every enabled row *)

Restart ==
    /\ restarts > 0 /\ restarts' = restarts - 1
    /\ pc' = [p \in Procs |-> IF p \in Ticks THEN "idle" ELSE IF pc[p] = "new" THEN "new" ELSE "done"]
    /\ job' = [p \in Procs |-> AnyJob] /\ copy' = [p \in Procs |-> NoRow]
    /\ result' = [p \in Procs |-> "none"] /\ todo' = [r \in Requests |-> [j \in Jobs |-> NoRow]]
    /\ claim' = [c \in Convs |-> Free]
    /\ \/ timer' = [j \in Jobs |-> Armed(row[j])] /\ excused' = {} /\ faults' = faults
       \/ Fails /\ timer' = [j \in Jobs |-> "none"] /\ excused' = Jobs
    /\ UNCHANGED <<scn, row>>

Tick(p) == \/ TickMissing(p) \/ TickLoadFails(p) \/ TickDisabled(p) \/ TickLoads(p)
           \/ Reschedule(p) \/ TickArm(p)

Execution(p) == \/ PrepareFails(p) \/ PrepareBusy(p) \/ Prepare(p)
                \/ RunBusy(p) \/ Run(p) \/ TurnEnds(p) \/ Record(p)

Request(r) == \/ AddInsert(r) \/ RequestArm(r)
              \/ UpdateLoad(r) \/ UpdateWrite(r) \/ UpdateRefused(r)
              \/ RemoveCancel(r) \/ RemoveDelete(r) \/ RunNow(r)
              \/ ResumeList(r) \/ ResumeWrite(r) \/ ResumeArm(r) \/ ResumeEnds(r)
              \/ \E j \in Jobs : ResumeKeeps(r, j) \/ ResumeMissed(r, j)

Next == \/ \E c \in Convs : UserTurn(c) \/ UserTurnEnds(c)
        \/ \E j \in Jobs : Fire(j)
        \/ \E p \in Ticks : Tick(p)
        \/ \E p \in Procs : Execution(p)
        \/ \E r \in Requests : Request(r) \/ Drop(r)
        \/ Restart

(* Timers go off, tasks run on, turns end; nothing has to be requested, and a *)
(* request that has begun goes on unless its handler is dropped               *)
Fairness ==
    /\ \A c \in Convs : WF_vars(UserTurnEnds(c))
    /\ \A j \in Jobs : SF_vars(Fire(j))
    /\ \A p \in Ticks : WF_vars(Tick(p))
    /\ \A p \in Procs : WF_vars(Execution(p))
    /\ \A r \in Requests : WF_vars(pc[r] # "new" /\ Request(r))

Spec == Init /\ [][Next]_vars /\ Fairness

-----------------------------------------------------------------------------
(* Properties *)

Due(j)   == row[j].live /\ row[j].enabled /\ row[j].next
Quiet(j) == \A p \in Procs : Handles(p, j) => ~Arming(p)

(* When every operation on a job has ended, its timer agrees with its row:  *)
(* a due job has the timer of its schedule, or the one-shot timer of a      *)
(* retry, and no other job has a timer.  Overlapping ticks, retries,        *)
(* run_now, restarts, edits of a job at rest and handlers dropped before    *)
(* their write keep this; excepted, until the next restart, are jobs that   *)
(* met a storage failure, were edited beside another operation, or whose    *)
(* request was dropped between the row and the timer.                       *)
TimerFollowsRow ==
    \A j \in Jobs \ excused : Quiet(j) =>
        IF Due(j) THEN timer[j] \in {row[j].sched, "at"} ELSE timer[j] = "none"

(* The timer of a removed job ends, also when a tick that was running       *)
(* during remove_job armed it again: the tick it causes finds no row.       *)
RemovedJobQuiesces ==
    \A j \in Jobs : <>[](~row[j].live) => <>[](timer[j] = "none")

(* A chain of retries for a busy conversation ends: the job runs, fails or  *)
(* is skipped once its attempts are used up, however often users take the   *)
(* conversation and whatever ticks, run_now and restarts come between.      *)
RetryChainEnds ==
    \A j \in Jobs : (Due(j) /\ row[j].retry > 0 /\ j \notin excused)
                       ~> (~Due(j) \/ row[j].retry = 0 \/ j \in excused)
=============================================================================
