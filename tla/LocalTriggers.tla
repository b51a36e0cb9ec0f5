---------------------------- MODULE LocalTriggers ----------------------------
(***************************************************************************)
(* The durable queue of local triggers: triggers/local_store.py and the    *)
(* gateway's consumer triggers/local_runner.py.                            *)
(*                                                                         *)
(* A delivery is a file that moves between the directories inbox,          *)
(* processing and failed; the file holds its number of attempts.  A file   *)
(* lock is held across each store operation, so an operation is one        *)
(* action; an operation made of several file writes has a second action    *)
(* in which the process dies part of the way.  The CLI enqueues from a     *)
(* process of its own, everything else runs in the gateway process.        *)
(***************************************************************************)
EXTENDS Naturals, Sequences, FiniteSets

CONSTANTS
    Deliveries,     \* the deliveries, numbered in the order of file names
    Triggers,       \* trigger ids
    TriggerOf,      \* the trigger of each delivery
    Reachable,      \* the triggers whose channel is enabled
    MaxAttempts,    \* _MAX_DELIVERY_ATTEMPTS (10)
    BatchSize,      \* batch_size (20)
    MaxCrashes,     \* bound: exits of the gateway
    NoFile          \* the directory has no file of this delivery

ASSUME TriggersAssumption ==
    /\ Deliveries \subseteq Nat /\ IsFiniteSet(Deliveries)
    /\ TriggerOf \in [Deliveries -> Triggers]
    /\ Reachable \subseteq Triggers
    /\ MaxAttempts \in Nat \ {0}
    /\ BatchSize \in Nat \ {0}
    /\ MaxCrashes \in Nat
    /\ NoFile \notin Nat

VARIABLES
    triggers,       \* triggers.json
    inbox,          \* attempts in the file of each delivery, per directory
    processing,
    failed,
    runs,           \* status in the audit record triggers/runs/<id>.json
    phase,          \* where run_local_trigger_queue is; "stuck" when it
                    \* awaits a turn that nobody will answer
    batch,          \* the claimed deliveries it has not handled yet
    submits,        \* history: turns submitted for each delivery
    accepted,       \* history: deliveries enqueued
    crashes         \* exits of the gateway so far

files == <<inbox, processing, failed>>
runner == <<phase, batch>>
history == <<accepted, crashes>>
vars == <<triggers, files, runs, runner, submits, history>>

Attempts == 0 .. MaxAttempts
Claims == [id : Deliveries, attempts : Attempts]
Statuses == {"none", "queued", "processing", "ok", "error", "interrupted", "retrying"}

In(dir) == {d \in Deliveries : dir[d] # NoFile}
Of(t) == {d \in Deliveries : TriggerOf[d] = t}
Deleted(d) == triggers[TriggerOf[d]] = "deleted"
InBatch == {batch[i].id : i \in DOMAIN batch}

Erase(dir, D) == [d \in Deliveries |-> IF d \in D THEN NoFile ELSE dir[d]]

Init ==
    /\ triggers = [t \in Triggers |-> "absent"]
    /\ inbox = [d \in Deliveries |-> NoFile]
    /\ processing = [d \in Deliveries |-> NoFile]
    /\ failed = [d \in Deliveries |-> NoFile]
    /\ runs = [d \in Deliveries |-> "none"]
    /\ phase = "down"
    /\ batch = <<>>
    /\ submits = [d \in Deliveries |-> 0]
    /\ accepted = {}
    /\ crashes = 0

\* The gateway is gone, and with it the runner's memory.
Exit ==
    /\ phase # "down"
    /\ crashes < MaxCrashes
    /\ crashes' = crashes + 1
    /\ phase' = "down"
    /\ batch' = <<>>
-----------------------------------------------------------------------------
(* LocalTriggerStore: the triggers *)

CreateTrigger(t) ==
    /\ phase # "down"
    /\ triggers[t] = "absent"
    /\ triggers' = [triggers EXCEPT ![t] = "enabled"]
    /\ UNCHANGED <<files, runs, runner, submits, history>>

EnableTrigger(t, to) ==
    /\ phase # "down"
    /\ triggers[t] \in {"enabled", "disabled"} \ {to}
    /\ triggers' = [triggers EXCEPT ![t] = to]
    /\ UNCHANGED <<files, runs, runner, submits, history>>

\* The trigger is saved out of the store first, then its files are removed.
RemoveTrigger(t) ==
    /\ triggers[t] \in {"enabled", "disabled"}
    /\ triggers' = [triggers EXCEPT ![t] = "deleted"]

DeleteTrigger(t) ==
    /\ phase # "down"
    /\ RemoveTrigger(t)
    /\ inbox' = Erase(inbox, Of(t))
    /\ processing' = Erase(processing, Of(t))
    /\ failed' = Erase(failed, Of(t))
    /\ UNCHANGED <<runs, runner, submits, history>>

ExitInDelete(t) ==
    /\ Exit
    /\ RemoveTrigger(t)
    /\ \E D \in SUBSET Of(t) :
          /\ inbox' = Erase(inbox, D)
          /\ processing' = Erase(processing, D)
          /\ failed' = Erase(failed, D)
    /\ UNCHANGED <<runs, submits, accepted>>
-----------------------------------------------------------------------------
(* LocalTriggerStore: the deliveries *)

\* A process of the CLI: the delivery, then its audit record.  If a write
\* fails, both are taken back; if the process is killed they are not.
Enqueue(d) ==
    /\ d \notin accepted
    /\ triggers[TriggerOf[d]] = "enabled"
    /\ inbox' = [inbox EXCEPT ![d] = 0]
    /\ accepted' = accepted \cup {d}
    /\ \/ runs' = [runs EXCEPT ![d] = "queued"]
       \/ UNCHANGED runs
    /\ UNCHANGED <<triggers, processing, failed, runner, submits, crashes>>

\* The first n files by name.
Oldest(n) ==
    {d \in In(inbox) : Cardinality({e \in In(inbox) : e < d}) < n}

\* Fault: a claim is a copy.
CopyToProcessing(D) ==
    /\ processing' = [d \in Deliveries |->
                         IF d \in D THEN inbox[d] ELSE processing[d]]
    /\ UNCHANGED inbox

MoveToProcessing(D) ==
    /\ processing' = [d \in Deliveries |->
                         IF d \in D THEN inbox[d] ELSE processing[d]]
    /\ inbox' = Erase(inbox, D)

\* The deliveries D in the order of their names.
Orders(D) ==
    {q \in [1 .. Cardinality(D) -> D] :
        /\ \A d \in D : \E i \in DOMAIN q : q[i] = d
        /\ \A i, j \in DOMAIN q : i < j => q[i] < q[j]}

Claim ==
    /\ phase = "polling"
    /\ In(inbox) # {}
    /\ \E q \in Orders(Oldest(BatchSize)) :
          batch' = [i \in DOMAIN q |-> [id |-> q[i], attempts |-> inbox[q[i]]]]
    /\ MoveToProcessing(Oldest(BatchSize))
    /\ phase' = "delivering"
    /\ UNCHANGED <<triggers, failed, runs, submits, history>>

\* The runner sleeps: it has nothing to claim, or awaits a dropped turn.
Sleep ==
    /\ (phase = "polling" /\ In(inbox) = {}) \/ phase = "stuck"
    /\ UNCHANGED vars

ExitInClaim ==
    /\ phase = "polling"
    /\ Exit
    /\ \E n \in 1 .. BatchSize : MoveToProcessing(Oldest(n))
    /\ UNCHANGED <<triggers, failed, runs, submits, accepted>>

\* Faults: one attempt too many; a retry forgets to count.
LastAttemptLate(n) == n + 1 > MaxAttempts
SameCount(n) == n

LastAttempt(n) == n + 1 >= MaxAttempts
Retried(n) == n + 1

\* _retry_delivery_unlocked for the deliveries D: a copy with one more attempt
\* goes to the inbox, or to failed; then the originals gone are removed.
Requeue(count, D, gone) ==
    /\ inbox' = [d \in Deliveries |-> IF d \in D /\ ~LastAttempt(count[d])
                                      THEN Retried(count[d]) ELSE inbox[d]]
    /\ failed' = [d \in Deliveries |-> IF d \in D /\ LastAttempt(count[d])
                                       THEN Retried(count[d]) ELSE failed[d]]
    /\ processing' = Erase(processing, gone)
-----------------------------------------------------------------------------
(* run_local_trigger_queue *)

\* The gateway starts: recover_processing_deliveries.
Start ==
    /\ phase = "down"
    /\ Requeue(processing, In(processing), In(processing))
    /\ phase' = "polling"
    /\ UNCHANGED <<triggers, runs, batch, submits, history>>

\* It dies after the files before d, having copied d or not.
ExitInStart ==
    /\ phase = "down"
    /\ crashes < MaxCrashes
    /\ crashes' = crashes + 1
    /\ \E d \in In(processing), copied \in BOOLEAN :
          LET before == {e \in In(processing) : e < d}
          IN Requeue(processing, before \cup (IF copied THEN {d} ELSE {}), before)
    /\ UNCHANGED <<triggers, runs, runner, submits, accepted>>

Current == Head(batch)
Handling(p) == phase = p /\ batch # <<>>

Proceed ==
    /\ batch' = Tail(batch)
    /\ phase' = IF Tail(batch) = <<>> THEN "polling" ELSE "delivering"

\* Fault: a delivery claimed before its trigger was deleted is submitted.
DeliverableUnlessDisabled(d) ==
    triggers[TriggerOf[d]] # "disabled" /\ TriggerOf[d] \in Reachable

Deliverable(d) == triggers[TriggerOf[d]] = "enabled" /\ TriggerOf[d] \in Reachable

\* Fault: acknowledged when it is submitted.
AckOnSubmit(d) == processing' = Erase(processing, {d})

\* The file stays until the turn ended.
HoldOnSubmit(d) == UNCHANGED processing

Submit ==
    /\ Handling("delivering")
    /\ Deliverable(Current.id)
    /\ runs' = [runs EXCEPT ![Current.id] = "processing"]
    /\ submits' = [submits EXCEPT ![Current.id] = @ + 1]
    /\ HoldOnSubmit(Current.id)
    /\ phase' = "waiting"
    /\ UNCHANGED <<triggers, inbox, failed, batch, history>>

\* What ends a delivery, and the status recorded before the file is removed:
\* the trigger is not found, disabled, or its channel is off; or the turn
\* answered, or failed in the agent.
Ending(status) ==
    \/ /\ Handling("delivering")
       /\ ~Deliverable(Current.id)
       /\ status = "error"
    \/ /\ Handling("waiting")
       /\ status \in {"ok", "error"}

Complete ==
    /\ \E status \in {"ok", "error"} :
          Ending(status) /\ runs' = [runs EXCEPT ![Current.id] = status]
    /\ processing' = Erase(processing, {Current.id})
    /\ Proceed
    /\ UNCHANGED <<triggers, inbox, failed, submits, history>>

ExitInComplete ==
    /\ \E status \in {"ok", "error"} :
          Ending(status) /\ runs' = [runs EXCEPT ![Current.id] = status]
    /\ Exit
    /\ UNCHANGED <<triggers, files, submits, accepted>>

CurrentCount == [d \in {Current.id} |-> Current.attempts]
\* The task of the turn is cancelled (/stop) before it has the session lock and
\* a gate slot: nobody resolves the future the runner awaits.
Dropped ==
    /\ Handling("waiting")
    /\ phase' = "stuck"
    /\ UNCHANGED <<triggers, files, runs, batch, submits, history>>

Undecided ==
    \/ Handling("delivering") /\ Deliverable(Current.id)
    \/ Handling("waiting")

\* Any other exception, before the submission or after it (a record cannot be
\* written): the delivery is queued again.
Retry ==
    /\ Undecided
    /\ Requeue(CurrentCount, {Current.id}, {Current.id})
    /\ runs' = [runs EXCEPT ![Current.id] =
                   IF LastAttempt(Current.attempts) THEN "error" ELSE "retrying"]
    /\ Proceed
    /\ UNCHANGED <<triggers, submits, history>>

\* It dies between the copy, the removal and the record.
ExitInRetry ==
    /\ Undecided
    /\ Exit
    /\ \E gone \in SUBSET {Current.id} : Requeue(CurrentCount, {Current.id}, gone)
    /\ UNCHANGED <<triggers, runs, submits, accepted>>

\* The gateway is stopped while the runner awaits a turn: the delivery is queued
\* again and the runner ends; the rest of the batch stays in processing.
Cancelled ==
    /\ Handling("waiting") \/ Handling("stuck")
    /\ Exit
    /\ Requeue(CurrentCount, {Current.id}, {Current.id})
    /\ runs' = [runs EXCEPT ![Current.id] = "interrupted"]
    /\ UNCHANGED <<triggers, submits, accepted>>

Crash == Exit /\ UNCHANGED <<triggers, files, runs, submits, accepted>>
-----------------------------------------------------------------------------
Handle == Claim \/ Submit \/ Complete \/ Retry

Next ==
    \/ \E t \in Triggers :
          \/ CreateTrigger(t) \/ DeleteTrigger(t) \/ ExitInDelete(t)
          \/ \E to \in {"enabled", "disabled"} : EnableTrigger(t, to)
    \/ \E d \in Deliveries : Enqueue(d)
    \/ Start \/ Sleep \/ ExitInStart \/ ExitInClaim
    \/ Handle \/ Dropped \/ ExitInComplete \/ ExitInRetry \/ Cancelled \/ Crash

Spec == Init /\ [][Next]_vars

\* The gateway is started again after it stopped; the runner's task runs.  A
\* submitted turn ends, unless it is dropped: no step of Handle leaves "stuck",
\* so that nothing is assumed of a dropped turn.
FairSpec == Spec /\ WF_vars(Start) /\ WF_vars(Handle)
-----------------------------------------------------------------------------
(* Properties *)

\* Every variable has its type.
TypeOK ==
    /\ triggers \in [Triggers -> {"absent", "enabled", "disabled", "deleted"}]
    /\ inbox \in [Deliveries -> Attempts \cup {NoFile}]
    /\ processing \in [Deliveries -> Attempts \cup {NoFile}]
    /\ failed \in [Deliveries -> Attempts \cup {NoFile}]
    /\ runs \in [Deliveries -> Statuses]
    /\ phase \in {"down", "polling", "delivering", "waiting", "stuck"}
    /\ batch \in Seq(Claims)
    /\ submits \in [Deliveries -> Nat]
    /\ accepted \subseteq Deliveries
    /\ crashes \in 0 .. MaxCrashes

\* A delivery is not lost: until its audit record says that it ended, an
\* accepted delivery of an existing trigger is in one of the directories,
\* whatever dies in between.
NothingLost ==
    \A d \in accepted :
        ~Deleted(d) /\ runs[d] \notin {"ok", "error"} =>
            d \in In(inbox) \cup In(processing) \cup In(failed)

\* While the gateway is up, a file in processing belongs to the batch that
\* the runner works on (or nobody would ever handle it), and a delivery has
\* one file: recovery has undone every half-finished move.
ClaimsOwned ==
    phase # "down" =>
        /\ In(processing) \subseteq InBatch
        /\ In(inbox) \cap In(processing) = {}
        /\ In(inbox) \cap In(failed) = {}

\* At-least-once, but at most MaxAttempts times (local_store.py:24), counting
\* crashes, cancellations and retries together.
SubmitsBounded == \A d \in Deliveries : submits[d] <= MaxAttempts

\* An accepted delivery does not wait for ever, though the gateway crashes and
\* restarts: unless the one consumer hangs at a dropped turn, of this or of
\* another delivery, which only the end of the gateway undoes.
DeliveriesEnd ==
    \A d \in Deliveries :
        d \in accepted ~> \/ d \notin In(inbox) \cup In(processing)
                          \/ phase = "stuck"

\* The state of a delivery for the abstract queue.  A deleted trigger takes
\* its deliveries along, though a file may be left by a crash.
DeliveryState(d) ==
    CASE d \notin accepted -> "none"
      [] d \in accepted /\ Deleted(d) -> "void"
      [] OTHER -> IF d \in In(inbox) \cup In(processing) THEN "pending"
                  ELSE IF d \in In(failed) THEN "failed" ELSE "settled"

Promise == INSTANCE DeliveryQueue
           WITH state <- [d \in Deliveries |-> DeliveryState(d)]

\* The files and the runner implement the promised queue.
ImplementsQueue == Promise!Spec

\* The files: of their types, and every claimed one in the runner's hands.
FilesSound == TypeOK /\ ClaimsOwned
=============================================================================
