----------------------------- MODULE CronService -----------------------------
(***************************************************************************)
(* The cron scheduler of the gateway: cron/service.py.                     *)
(*                                                                         *)
(* The jobs are in memory (_store) and in jobs.json.  Other processes add  *)
(* and delete jobs by lines in action.jsonl.  One asyncio task, the timer, *)
(* sleeps until a job is due and then executes the due jobs one by one,    *)
(* each an awaited turn of the agent.  Meanwhile the WebUI and the cron    *)
(* tool call the service from other tasks; most calls arm the timer again, *)
(* which cancels the task that executes the batch.                         *)
(*                                                                         *)
(* Time is counted in units of the repeating jobs' interval.  What a call  *)
(* does between two awaits is one action.                                  *)
(***************************************************************************)
EXTENDS Naturals, FiniteSets

CONSTANTS
    Jobs,           \* job ids
    System,         \* the jobs registered at boot (dream, heartbeat)
    At,             \* time of a one-shot job, 0 for a repeating one
    NoJob,          \* the table has no entry of this job
    Keep,           \* action.jsonl has no line about this job
    Unreadable,     \* jobs.json cannot be parsed
    Idle,           \* the timer task executes no job
    MaxNow,         \* bound: the clock
    MaxCalls,       \* bound: calls that change or run a job
    MaxCorruptions, \* bound: times the file is damaged from outside
    MaxExits        \* bound: exits of the gateway

Entry == [enabled : BOOLEAN, next : Nat]
Tables == [Jobs -> Entry \cup {NoJob}]

ASSUME CronAssumption ==
    /\ IsFiniteSet(Jobs) /\ System \subseteq Jobs
    /\ At \in [Jobs -> Nat] /\ \A j \in System : At[j] = 0
    /\ NoJob \notin Entry /\ Keep \notin Entry \cup {NoJob}
    /\ Unreadable \notin Tables
    /\ Idle \notin Jobs \X Nat
    /\ {MaxNow, MaxCalls, MaxCorruptions, MaxExits} \subseteq Nat

VARIABLES
    now,            \* _now_ms()
    disk,           \* jobs.json; a missing file is the empty table
    actions,        \* the last line about each job in action.jsonl
    up,             \* _running
    store,          \* _store
    timer,          \* _timer_task: none, asleep, or busy with a batch
    due,            \* the jobs of the batch it has not started, with their time
    current,        \* the job it executes, with its time
    dying,          \* cancelled batches that have not ended yet
    manual,         \* jobs that run_job executes
    used,           \* history: jobs created
    gone,           \* history: jobs removed, or one-shot and completed
    submitted,      \* history: the due times a batch started, per job
    completed,      \* history: those it completed
    logLost,        \* history: an exit emptied action.jsonl before the save
    calls, corruptions, exits

files == <<disk, actions>>
task == <<timer, due, current, dying>>
bounds == <<calls, corruptions, exits>>
history == <<used, gone, submitted, completed, logLost>>
vars == <<now, files, up, store, task, manual, history, bounds>>

Nothing == [j \in Jobs |-> NoJob]
Untouched == [j \in Jobs |-> Keep]

\* _active_executions
Active == (IF timer = "busy" THEN 1 ELSE 0) + dying + Cardinality(manual)

\* The next run from now on; 0 is None, a one-shot job whose time is over.
NextRun(j) == IF At[j] = 0 THEN now + 1 ELSE IF At[j] > now THEN At[j] ELSE 0
NewEntry(j) == [enabled |-> TRUE, next |-> NextRun(j)]

IsDue(s, j) == /\ s[j] # NoJob /\ s[j].enabled
               /\ s[j].next # 0 /\ s[j].next <= now
DueIn(s) == {<<j, s[j].next>> : j \in {i \in Jobs : IsDue(s, i)}}

\* action.jsonl line by line: the last line about a job decides.
Replay(table, log) == [j \in Jobs |-> IF log[j] = Keep THEN table[j] ELSE log[j]]

\* Faults: a load in the middle of an execution; a log emptied unread.
ReadsAlways == disk # Unreadable
LogEmptied == Untouched

\* During an execution the table in memory is the only valid one; otherwise
\* every load reads the files again.  A damaged file is moved aside and the
\* table in memory used for this once.
Reads == Active = 0 /\ disk # Unreadable
Loaded == IF Reads THEN Replay(disk, actions) ELSE store
LoadedLog == IF Reads THEN Untouched ELSE actions
LoadedDisk == IF Reads THEN Loaded ELSE IF Active = 0 THEN Nothing ELSE disk

Load == store' = Loaded /\ disk' = LoadedDisk /\ actions' = LoadedLog
Save(s) == store' = s /\ disk' = s /\ actions' = LoadedLog

\* Fault: the batch goes on beside the new timer.
ArmBesideBatch ==
    /\ timer' = IF timer = "busy" THEN "busy" ELSE "asleep"
    /\ UNCHANGED <<due, current, dying>>

\* A new timer task; the old one is cancelled, asleep or not.
ArmTimer ==
    /\ timer' = "asleep"
    /\ due' = {}
    /\ current' = Idle
    /\ dying' = dying + (IF timer = "busy" THEN 1 ELSE 0)

Init ==
    /\ now = 0
    /\ disk = Nothing
    /\ actions = Untouched
    /\ up = FALSE
    /\ store = Nothing
    /\ timer = "none" /\ due = {} /\ current = Idle /\ dying = 0
    /\ manual = {}
    /\ used = System /\ gone = {} /\ submitted = {} /\ completed = {}
    /\ logLost = FALSE
    /\ calls = 0 /\ corruptions = 0 /\ exits = 0

Elapse ==
    /\ now < MaxNow
    /\ now' = now + 1
    /\ UNCHANGED <<files, up, store, task, manual, history, bounds>>

(***************************************************************************)
(* Boot and exit of the gateway.                                           *)
(***************************************************************************)

\* register_system_job loads and saves before start() does.
Registered(j) == IF j \in System THEN NewEntry(j) ELSE Replay(disk, actions)[j]
Booted == [j \in Jobs |->
             IF Registered(j) # NoJob /\ Registered(j).enabled
             THEN [Registered(j) EXCEPT !.next = NextRun(j)] ELSE Registered(j)]

Start ==
    /\ ~up /\ disk # Unreadable
    /\ up' = TRUE
    /\ store' = Booted /\ disk' = Booted /\ actions' = Untouched
    /\ timer' = "asleep"
    /\ UNCHANGED <<now, due, current, dying, manual, history, bounds>>

\* The boot fails on a damaged file, which is moved aside.
StartRefused ==
    /\ ~up /\ disk = Unreadable
    /\ disk' = Nothing
    /\ UNCHANGED <<now, actions, up, store, task, manual, history, bounds>>

\* The boot dies after the registrations, if any, have saved the merged table:
\* with the log still there, emptied, or emptied and saved once more.
ExitInStart ==
    /\ ~up /\ disk # Unreadable /\ exits < MaxExits
    /\ \E saved \in BOOLEAN :
          /\ System # {} => saved
          /\ disk' = IF saved THEN [j \in Jobs |-> Registered(j)] ELSE disk
          /\ actions' \in IF saved /\ System = {} THEN {Untouched}
                         ELSE {actions, Untouched}
          /\ logLost' = (logLost \/ (~saved /\ actions' # actions))
    /\ exits' = exits + 1
    /\ UNCHANGED <<now, up, store, task, manual, used, gone, submitted,
                   completed, calls, corruptions>>

\* The process ends; stop() saves nothing.
Down ==
    /\ up /\ exits < MaxExits
    /\ up' = FALSE
    /\ store' = Nothing
    /\ timer' = "none" /\ due' = {} /\ current' = Idle /\ dying' = 0
    /\ manual' = {}
    /\ exits' = exits + 1
    /\ UNCHANGED <<now, used, gone, submitted, completed, calls, corruptions>>

Exit == Down /\ UNCHANGED <<files, logLost>>

\* _merge_action empties the log before it saves what was in it.
ExitInMerge ==
    /\ Down
    /\ Reads /\ actions # Untouched
    /\ actions' = Untouched
    /\ logLost' = TRUE
    /\ UNCHANGED disk

Damage ==
    /\ disk # Unreadable /\ corruptions < MaxCorruptions
    /\ disk' = Unreadable
    /\ corruptions' = corruptions + 1
    /\ UNCHANGED <<now, actions, up, store, task, manual, history, calls, exits>>

(***************************************************************************)
(* The timer task: tick, _on_timer and _execute_job.                       *)
(***************************************************************************)

Begin(p) ==
    /\ current' = p
    /\ submitted' = submitted \cup {p}

\* It sleeps at most max_sleep_ms, so it may wake before anything is due.
WakeInVain ==
    /\ up /\ timer = "asleep"
    /\ DueIn(Loaded) = {}
    /\ Save(Loaded)
    /\ UNCHANGED <<now, up, task, manual, history, bounds>>

Wake ==
    /\ up /\ timer = "asleep"
    /\ Load
    /\ timer' = "busy"
    /\ \E p \in DueIn(Loaded) : Begin(p) /\ due' = DueIn(Loaded) \ {p}
    /\ UNCHANGED <<now, up, dying, manual, used, gone, completed, logLost, bounds>>

\* The table after job j was executed, by the timer or by hand.
Executed(s, j) ==
    IF s[j] = NoJob THEN s
    ELSE IF At[j] # 0 THEN [s EXCEPT ![j] = NoJob]
    ELSE [s EXCEPT ![j].next = NextRun(j)]

OneShot(j) == IF At[j] # 0 THEN {j} ELSE {}

\* on_job has returned or raised; only the whole batch is saved.
NextInBatch ==
    /\ \E p \in due : Begin(p) /\ due' = due \ {p}
    /\ UNCHANGED <<disk, timer, dying>>

\* Faults: the batch ends without the save; without a new timer.
EndUnsaved ==
    /\ due = {}
    /\ timer' = "asleep" /\ current' = Idle
    /\ UNCHANGED <<disk, due, dying, submitted>>

EndUnarmed ==
    /\ due = {}
    /\ disk' = store'
    /\ timer' = "none" /\ current' = Idle
    /\ UNCHANGED <<due, dying, submitted>>

EndBatch ==
    /\ due = {}
    /\ disk' = store'
    /\ timer' = "asleep" /\ current' = Idle
    /\ UNCHANGED <<due, dying, submitted>>

FinishJob ==
    /\ timer = "busy"
    /\ store' = Executed(store, current[1])
    /\ completed' = completed \cup {current}
    /\ gone' = gone \cup OneShot(current[1])
    /\ NextInBatch \/ EndBatch
    /\ UNCHANGED <<now, actions, up, manual, used, logLost, bounds>>

\* The cancellation has gone through on_job of a cancelled batch.
BatchDies ==
    /\ dying > 0
    /\ dying' = dying - 1
    /\ UNCHANGED <<now, files, up, store, timer, due, current, manual, history,
                   bounds>>

(***************************************************************************)
(* Calls in the gateway: the cron tool and the WebUI.                      *)
(***************************************************************************)

\* list_jobs, get_job, status, and every call that finds no such job; run_job,
\* when it does not find it enabled, also arms a timer that sleeps already.
ListJobs ==
    /\ up
    /\ Load
    /\ UNCHANGED <<now, up, task, manual, history, bounds>>

\* A call that changes the table, saves it and arms the timer.
Change(s) ==
    /\ up /\ calls < MaxCalls
    /\ Save(s)
    /\ ArmTimer
    /\ calls' = calls + 1
    /\ UNCHANGED <<now, up, manual, submitted, completed, logLost, corruptions,
                   exits>>

AddJob(j) ==
    /\ j \notin used
    /\ Change([Loaded EXCEPT ![j] = NewEntry(j)])
    /\ used' = used \cup {j}
    /\ UNCHANGED gone

RemoveJob(j) ==
    /\ j \notin System /\ Loaded[j] # NoJob
    /\ Change([Loaded EXCEPT ![j] = NoJob])
    /\ gone' = gone \cup {j}
    /\ UNCHANGED used

\* enable_job, and update_job for a job that keeps its switch.
SetJob(j, enabled) ==
    /\ j \notin System /\ Loaded[j] # NoJob
    /\ Change([Loaded EXCEPT ![j] =
                 [enabled |-> enabled, next |-> IF enabled THEN NextRun(j) ELSE 0]])
    /\ UNCHANGED <<used, gone>>

RunJob(j) ==
    /\ up /\ calls < MaxCalls
    /\ j \notin System \cup manual
    /\ Load
    /\ Loaded[j] # NoJob /\ Loaded[j].enabled
    /\ manual' = manual \cup {j}
    /\ calls' = calls + 1
    /\ UNCHANGED <<now, up, task, history, corruptions, exits>>

FinishRun(j) ==
    /\ j \in manual
    /\ store' = Executed(store, j) /\ disk' = store'
    /\ manual' = manual \ {j}
    /\ gone' = gone \cup OneShot(j)
    /\ UNCHANGED <<now, actions, up, task, used, submitted, completed, logLost,
                   bounds>>

(***************************************************************************)
(* Calls in another process (nanobot agent): they write action.jsonl only. *)
(***************************************************************************)

CliAdd(j) ==
    /\ j \notin used
    /\ actions' = [actions EXCEPT ![j] = NewEntry(j)]
    /\ used' = used \cup {j}
    /\ UNCHANGED <<now, disk, up, store, task, manual, gone, submitted,
                   completed, logLost, bounds>>

CliRemove(j) ==
    /\ j \notin System /\ disk # Unreadable
    /\ Replay(disk, actions)[j] # NoJob
    /\ actions' = [actions EXCEPT ![j] = NoJob]
    /\ gone' = gone \cup {j}
    /\ UNCHANGED <<now, disk, up, store, task, manual, used, submitted,
                   completed, logLost, bounds>>

\* Its load moves a damaged file aside like any other.
CliLoadFails ==
    /\ disk = Unreadable
    /\ disk' = Nothing
    /\ UNCHANGED <<now, actions, up, store, task, manual, history, bounds>>

Call(j) ==
    \/ AddJob(j)
    \/ RemoveJob(j)
    \/ \E enabled \in BOOLEAN : SetJob(j, enabled)
    \/ RunJob(j)
    \/ FinishRun(j)
    \/ CliAdd(j)
    \/ CliRemove(j)

Next ==
    \/ Elapse
    \/ Start \/ StartRefused \/ ExitInStart \/ Exit \/ ExitInMerge
    \/ Damage
    \/ WakeInVain \/ Wake \/ FinishJob \/ BatchDies
    \/ ListJobs
    \/ CliLoadFails
    \/ \E j \in Jobs : Call(j)

Spec == Init /\ [][Next]_vars

\* The event loop runs a timer that is due, and what the agent executes ends.
FairSpec ==
    /\ Spec
    /\ WF_vars(Wake \/ WakeInVain)
    /\ WF_vars(FinishJob)
    /\ WF_vars(BatchDies)
    /\ \A j \in Jobs : WF_vars(FinishRun(j))

(***************************************************************************)
(* Properties.                                                             *)
(***************************************************************************)

Times == Jobs \X Nat

\* Types, and that the timer task has a batch exactly while it executes one.
TypeOK ==
    /\ now \in Nat
    /\ disk \in Tables \cup {Unreadable}
    /\ actions \in [Jobs -> Entry \cup {NoJob, Keep}]
    /\ up \in BOOLEAN
    /\ store \in Tables
    /\ timer \in IF up THEN {"asleep", "busy"} ELSE {"none"}
    /\ due \subseteq Times
    /\ current \in Times \cup {Idle}
    /\ current # Idle <=> timer = "busy"
    /\ timer # "busy" => due = {}
    /\ dying \in Nat
    /\ manual \subseteq Jobs
    /\ used \subseteq Jobs /\ gone \subseteq Jobs
    /\ submitted \subseteq Times /\ completed \subseteq submitted
    /\ logLost \in BOOLEAN
    /\ {calls, corruptions, exits} \subseteq Nat

\* A due time that was executed to its end is not executed again, whatever is
\* called or dies meanwhile (test_timer_execution_is_not_rolled_back_by_
\* list_jobs_reload, for list_jobs only).
CompletedOnce == current \notin completed /\ due \cap completed = {}

\* The batch is computed before the awaits, yet a repeating job that was
\* disabled or removed since is neither executed nor waiting in it.
BatchEnabled ==
    \A p \in (due \cup {current}) \ {Idle} :
        At[p[1]] = 0 => store[p[1]] # NoJob /\ store[p[1]].enabled

\* Between executions every load replaces the table in memory by the one on
\* disk, so nothing that was executed or called may be missing there.
IdleSaved ==
    up /\ Active = 0 /\ corruptions = 0 => disk = store

\* A job that was created and neither removed nor done is on disk, or in the
\* log of actions, through any exit: unless the file was damaged, or the
\* process died just between the emptying of the log and the save.
JobsSurvive ==
    corruptions = 0 /\ ~logLost =>
        \A j \in used \ gone :
            disk[j] # NoJob \/ actions[j] \in Entry \/ j \in System

\* A due job does not stay due: it is executed, unless somebody disables or
\* removes it or the gateway exits.
DueJobsRun == \A j \in Jobs : []<>~(up /\ IsDue(store, j))

\* "Each job should have run exactly once, not looped" (test_list_jobs_during_
\* on_job_does_not_cause_stale_reload): a due time is handed to the agent once.
RunsOncePerDue ==
    [][current' \notin {current, Idle} => current' \notin submitted]_vars

\* The job table: of its types, saved whenever no job executes, and followed by
\* the batch.
TableSound == TypeOK /\ IdleSaved /\ BatchEnabled
=============================================================================
