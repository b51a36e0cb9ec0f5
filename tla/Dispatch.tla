------------------------------ MODULE Dispatch ------------------------------
(***************************************************************************)
(* The routing core of the agent: AgentLoop.run, AgentLoop._dispatch and   *)
(* the automation-turn coordinators of agent/automation_turns.py.          *)
(*                                                                         *)
(* One asyncio task (run) consumes the inbound bus and routes each message *)
(* to an inline command handler, to the deferred queue of its session, to  *)
(* the injection queue of the turn that is running, or to a new task.  The *)
(* tasks of a session take its lock in FIFO order, then a slot of the      *)
(* global gate.  A task is identified with the message it dispatches.      *)
(*                                                                         *)
(* Every action is what the event loop runs between two suspensions.  The  *)
(* end of a turn is one such stretch: the in-repository subscribers of     *)
(* the events it publishes only put on unbounded queues, which does not    *)
(* suspend.                                                                *)
(***************************************************************************)
EXTENDS Naturals, Sequences, FiniteSets

CONSTANTS
    Msgs,       \* the messages the channels and the automations send
    Sessions,   \* effective session keys
    Sess,       \* the session of each message
    Kind,       \* what each message is
    QueueCap,   \* maxsize of an injection queue (20)
    GateCap,    \* NANOBOT_MAX_CONCURRENT_REQUESTS
    MaxRounds,  \* _MAX_GOAL_CONTINUATION_ROUNDS (12); 0: no goal is active
    None        \* no queue registered, no control command in progress

\* "user" is text, "command" a dispatchable command without effect on the
\* routing, "auto" a cron or local-trigger turn, "temporary" a message that
\* requires an existing session; the rest are control commands.
Kinds == {"user", "command", "auto", "temporary", "stop", "new", "discard"}

ASSUME DispatchAssumption ==
    /\ Sess \in [Msgs -> Sessions]
    /\ Kind \in [Msgs -> Kinds]
    /\ QueueCap \in Nat \ {0}
    /\ GateCap \in Nat \ {0}
    /\ MaxRounds \in Nat
    /\ IsFiniteSet(Sessions)
    /\ None \notin Msgs /\ None \notin Seq(Msgs)

VARIABLES
    inbound,        \* MessageBus.inbound
    control,        \* the message whose inline handler run() is awaiting
    awaits,         \* tasks each _cancel_active_tasks call is waiting for
    activeTasks,    \* _active_tasks
    lockQ,          \* owner (head) and waiters of each session lock
    turn,           \* progress of the lock owner past lock and gate
    pendingQueues,  \* _pending_queues
    deferred,       \* _deferred_automation_turns
    permits,        \* free slots of _concurrency_gate
    cancelled,      \* tasks with a cancellation in flight
    waiters,        \* futures of the coordinators' submit calls
    rounds,         \* goal continuations spent, per session
    fate            \* history: what became of each message

bus == <<inbound, deferred>>
tasks == <<activeTasks, lockQ, turn, permits, cancelled>>
vars == <<inbound, control, awaits, activeTasks, lockQ, turn, pendingQueues,
          deferred, permits, cancelled, waiters, rounds, fate>>

Elems(q) == {q[i] : i \in DOMAIN q}
Automations == {m \in Msgs : Kind[m] = "auto"}
Queued(s) == IF pendingQueues[s] = None THEN <<>> ELSE pendingQueues[s]
Registered(s) == pendingQueues[s] # None

Fates == {"unsent", "live", "injected", "done", "failed", "stopped", "dropped"}
Stages == {"idle", "running", "blocked", "clearing"}

Init ==
    /\ inbound = <<>>
    /\ control = None
    /\ awaits = [m \in Msgs |-> {}]
    /\ activeTasks = [s \in Sessions |-> {}]
    /\ lockQ = [s \in Sessions |-> <<>>]
    /\ turn = [s \in Sessions |-> "idle"]
    /\ pendingQueues = [s \in Sessions |-> None]
    /\ deferred = [s \in Sessions |-> <<>>]
    /\ permits = GateCap
    /\ cancelled = {}
    /\ waiters = [m \in Automations |-> "none"]
    /\ rounds = [s \in Sessions |-> 0]
    /\ fate = [m \in Msgs |-> "unsent"]

Settle(m, f) == fate' = [fate EXCEPT ![m] = f]
-----------------------------------------------------------------------------
(* The senders *)

\* A channel publishes a message; a cron job or a trigger submits a turn and
\* waits for the future it registers.
Publish(m) ==
    /\ fate[m] = "unsent"
    /\ inbound' = Append(inbound, m)
    /\ waiters' = IF m \in Automations
                  THEN [waiters EXCEPT ![m] = "waiting"] ELSE waiters
    /\ Settle(m, "live")
    /\ UNCHANGED <<control, awaits, tasks, pendingQueues, deferred, rounds>>

\* The caller of submit is cancelled: its finally clause drops the waiter,
\* the message stays where it is.
CallerCancelled(m) ==
    /\ waiters[m] = "waiting"
    /\ waiters' = [waiters EXCEPT ![m] = "gone"]
    /\ UNCHANGED <<bus, control, awaits, tasks, pendingQueues, rounds, fate>>

\* Fault: only answers are reported.
CompleteSuccessOnly(m, outcome) ==
    waiters' = IF m \in Automations /\ waiters[m] = "waiting" /\ outcome = "ok"
               THEN [waiters EXCEPT ![m] = outcome] ELSE waiters

\* AutomationTurnCoordinator.complete: a missing future is ignored.
Complete(m, outcome) ==
    waiters' = IF m \in Automations /\ waiters[m] = "waiting"
               THEN [waiters EXCEPT ![m] = outcome] ELSE waiters
-----------------------------------------------------------------------------
(* run(): one inbound message *)

Consume(m) ==
    /\ control = None
    /\ inbound # <<>>
    /\ m = Head(inbound)
    /\ inbound' = Tail(inbound)

\* Fault: every session's tasks.
CancelTargetsEverywhere(s, self) == (UNION {activeTasks[r] : r \in Sessions}) \ {self}

\* The task set popped by _cancel_active_tasks.
CancelTargets(s, self) == activeTasks[s] \ {self}

\* Fault: the tasks are awaited but not cancelled.
AwaitActiveTasks(s, self) ==
    /\ awaits' = [awaits EXCEPT ![self] = CancelTargets(s, self)]
    /\ activeTasks' = [activeTasks EXCEPT ![s] = {}]
    /\ UNCHANGED cancelled

CancelActiveTasks(s, self) ==
    /\ awaits' = [awaits EXCEPT ![self] = CancelTargets(s, self)]
    /\ cancelled' = cancelled \cup CancelTargets(s, self)
    /\ activeTasks' = [activeTasks EXCEPT ![s] = {}]

\* The tasks that the handler of m awaits have finished.
Ended(m) == awaits[m] \cap Elems(lockQ[Sess[m]]) = {}

\* /stop, a session discard, and /new while a turn is active are handled
\* inside run(), which consumes nothing until the cancelled tasks ended.
ReceiveControl(m) ==
    /\ Consume(m)
    /\ \/ Kind[m] \in {"stop", "discard"}
       \/ Kind[m] = "new" /\ Registered(Sess[m])
    /\ control' = m
    /\ CancelActiveTasks(Sess[m], m)
    /\ UNCHANGED <<lockQ, turn, pendingQueues, deferred, permits, waiters,
                   rounds, fate>>

\* cmd_stop then empties the injection queue that is still registered.
FinishControl ==
    /\ control # None
    /\ Ended(control)
    /\ LET s == Sess[control]
           drained == IF Kind[control] = "stop" THEN Elems(Queued(s)) ELSE {}
       IN /\ fate' = [m \in Msgs |-> CASE m = control -> "done"
                                       [] m \in drained -> "stopped"
                                       [] OTHER -> fate[m]]
          /\ pendingQueues' = IF Kind[control] = "stop"
                              THEN [pendingQueues EXCEPT ![s] = None]
                              ELSE pendingQueues
    /\ awaits' = [awaits EXCEPT ![control] = {}]
    /\ control' = None
    /\ UNCHANGED <<bus, tasks, waiters, rounds>>

\* A temporary-chat message whose session is no longer cached is ignored.
ReceiveDropped(m) ==
    /\ Consume(m)
    /\ Kind[m] = "temporary"
    /\ Settle(m, "dropped")
    /\ UNCHANGED <<control, awaits, tasks, pendingQueues, deferred, waiters,
                   rounds>>

\* Any other command that arrives during a turn is answered inline.
ReceiveCommand(m) ==
    /\ Consume(m)
    /\ Kind[m] = "command"
    /\ Registered(Sess[m])
    /\ Settle(m, "done")
    /\ UNCHANGED <<control, awaits, tasks, pendingQueues, deferred, waiters,
                   rounds>>

\* Fault: no turn is deferred.
DefersNothing(m) == FALSE

\* defer_if_active
Defers(m) == Kind[m] = "auto" /\ Registered(Sess[m])

ReceiveDeferred(m) ==
    /\ Consume(m)
    /\ Defers(m)
    /\ deferred' = [deferred EXCEPT ![Sess[m]] = Append(@, m)]
    /\ UNCHANGED <<control, awaits, tasks, pendingQueues, waiters, rounds,
                   fate>>

Injects(m) ==
    /\ Kind[m] \in {"user", "temporary", "auto"}
    /\ ~Defers(m)
    /\ Registered(Sess[m])
    /\ Len(pendingQueues[Sess[m]]) < QueueCap

ReceiveFollowUp(m) ==
    /\ Consume(m)
    /\ Injects(m)
    /\ pendingQueues' = [pendingQueues EXCEPT ![Sess[m]] = Append(@, m)]
    /\ UNCHANGED <<control, awaits, tasks, deferred, waiters, rounds, fate>>

\* The session is not registered, or its queue is full: a task of its own.
ReceiveTask(m) ==
    /\ Consume(m)
    /\ Kind[m] \notin {"stop", "discard"}
    /\ Kind[m] \in {"new", "command"} => ~Registered(Sess[m])
    /\ ~Defers(m) /\ ~Injects(m)
    /\ lockQ' = [lockQ EXCEPT ![Sess[m]] = Append(@, m)]
    /\ activeTasks' = [activeTasks EXCEPT ![Sess[m]] = @ \cup {m}]
    /\ UNCHANGED <<control, awaits, turn, pendingQueues, deferred, permits,
                   cancelled, waiters, rounds, fate>>
-----------------------------------------------------------------------------
(* _dispatch: one task *)

Owner(s) == Head(lockQ[s])
Running(s, stage) == lockQ[s] # <<>> /\ turn[s] = stage

\* Lock, then gate; only now is the injection queue registered.
StartTurn(s) ==
    /\ Running(s, "idle")
    /\ Owner(s) \notin cancelled
    /\ permits > 0
    /\ permits' = permits - 1
    /\ turn' = [turn EXCEPT ![s] = "running"]
    /\ pendingQueues' = [pendingQueues EXCEPT ![s] = <<>>]
    /\ UNCHANGED <<bus, control, awaits, activeTasks, lockQ, cancelled,
                   waiters, rounds, fate>>

\* The runner takes a follow-up into the running turn.
Inject(s) ==
    /\ Running(s, "running")
    /\ Owner(s) \notin cancelled
    /\ Kind[Owner(s)] \notin {"new", "command"}
    /\ Queued(s) # <<>>
    /\ Settle(Head(Queued(s)), "injected")
    /\ pendingQueues' = [pendingQueues EXCEPT ![s] = Tail(@)]
    /\ UNCHANGED <<bus, control, awaits, tasks, waiters, rounds>>

Wake(s) == IF deferred[s] = <<>> THEN <<>> ELSE <<Head(deferred[s])>>

\* Fault: the deferred turn is not popped.
PublishWithoutPop(s, leftover) ==
    /\ inbound' = inbound \o leftover \o Wake(s)
    /\ UNCHANGED deferred

\* The leftovers of the queue, then publish_next_deferred_turn.
PublishNextDeferred(s, leftover) ==
    /\ inbound' = inbound \o leftover \o Wake(s)
    /\ deferred' = [deferred EXCEPT ![s] = IF @ = <<>> THEN @ ELSE Tail(@)]

\* Faults: the queue stays registered; a cancelled turn keeps its slot.
StayRegistered(s) == UNCHANGED pendingQueues
LeakGate(s) == permits' = IF Owner(s) \in cancelled THEN permits ELSE permits + 1

Unregister(s) == pendingQueues' = [pendingQueues EXCEPT ![s] = None]
ReleaseGate(s) == permits' = permits + 1

\* The finally clauses: unregister the queue, republish what is left in it,
\* wake one deferred turn, release gate and lock.
Close(s, leftover) ==
    /\ PublishNextDeferred(s, leftover)
    /\ Unregister(s)
    /\ ReleaseGate(s)
    /\ activeTasks' = [activeTasks EXCEPT ![s] = @ \ {Owner(s)}]
    /\ cancelled' = cancelled \ {Owner(s)}
    /\ lockQ' = [lockQ EXCEPT ![s] = Tail(@)]
    /\ turn' = [turn EXCEPT ![s] = "idle"]

\* A turn that answers, or fails with an exception.  Saving a turn after
\* which no goal is active gives the spent rounds back (a command saves none).
EndTurn(s) ==
    /\ Running(s, "running")
    /\ Owner(s) \notin cancelled
    /\ Kind[Owner(s)] # "new"
    /\ \/ Complete(Owner(s), "ok") /\ Settle(Owner(s), "done")
       \/ Complete(Owner(s), "error") /\ Settle(Owner(s), "failed")
    /\ Close(s, Queued(s))
    /\ \/ rounds' = rounds
       \/ Kind[Owner(s)] # "command" /\ rounds' = [rounds EXCEPT ![s] = 0]
    /\ UNCHANGED <<control, awaits>>

\* The iteration budget ends while a goal is active: maybe_continue_turn puts
\* the continuation on the turn's own queue, whence it is republished.  The
\* slice is complete for its coordinator, and saving it may still fail.
CanContinue(s) ==
    /\ Running(s, "running")
    /\ Owner(s) \notin cancelled
    /\ Kind[Owner(s)] \in {"user", "temporary", "auto"}
    /\ rounds[s] < MaxRounds

ContinueTurn(s) ==
    /\ CanContinue(s)
    /\ Len(Queued(s)) < QueueCap
    /\ rounds' = [rounds EXCEPT ![s] = @ + 1]
    /\ Complete(Owner(s), "ok") \/ Complete(Owner(s), "error")
    /\ Close(s, Append(Queued(s), Owner(s)))
    /\ UNCHANGED <<control, awaits, fate>>

\* The put waits for room in a queue that only this turn consumes.
BlockOnFullQueue(s) ==
    /\ CanContinue(s)
    /\ Len(Queued(s)) >= QueueCap
    /\ rounds' = [rounds EXCEPT ![s] = @ + 1]
    /\ turn' = [turn EXCEPT ![s] = "blocked"]
    /\ UNCHANGED <<bus, control, awaits, activeTasks, lockQ, pendingQueues,
                   permits, cancelled, waiters, fate>>

\* /new as a turn of its own: it pops and cancels the session's tasks (the
\* cancellation of itself is swallowed by the await that follows it).
ClearSession(s) ==
    /\ Running(s, "running")
    /\ Owner(s) \notin cancelled
    /\ Kind[Owner(s)] = "new"
    /\ turn' = [turn EXCEPT ![s] = "clearing"]
    /\ CancelActiveTasks(s, Owner(s))
    /\ UNCHANGED <<bus, control, lockQ, pendingQueues, permits, waiters,
                   rounds, fate>>

SessionCleared(s) ==
    /\ Running(s, "clearing")
    /\ Ended(Owner(s))
    /\ awaits' = [awaits EXCEPT ![Owner(s)] = {}]
    /\ Settle(Owner(s), "done")
    /\ Close(s, Queued(s))
    /\ UNCHANGED <<control, waiters, rounds>>

\* A cancelled turn unwinds.
AbortTurn(s) ==
    /\ Running(s, "running") \/ Running(s, "blocked")
    /\ Owner(s) \in cancelled
    /\ Complete(Owner(s), "error")
    /\ Settle(Owner(s), "stopped")
    /\ Close(s, Queued(s))
    /\ UNCHANGED <<control, awaits, rounds>>

\* Fault: it wakes nobody.
CloseUnstartedSilent(s) == UNCHANGED bus

\* The outer finally clause.
CloseUnstarted(s) == PublishNextDeferred(s, <<>>)

\* A task cancelled while it waits for the lock or the gate never registered
\* a queue: it wakes one deferred turn and does not tell its coordinator.
AbortWaiting(s, i) ==
    /\ i \in DOMAIN lockQ[s]
    /\ lockQ[s][i] \in cancelled
    /\ i = 1 => turn[s] = "idle"
    /\ Settle(lockQ[s][i], "stopped")
    /\ CloseUnstarted(s)
    /\ lockQ' = [lockQ EXCEPT ![s] = SubSeq(@, 1, i - 1)
                                       \o SubSeq(@, i + 1, Len(@))]
    /\ activeTasks' = [activeTasks EXCEPT ![s] = @ \ {lockQ[s][i]}]
    /\ cancelled' = cancelled \ {lockQ[s][i]}
    /\ UNCHANGED <<control, awaits, turn, pendingQueues, permits, waiters,
                   rounds>>

\* Every message was handled: run() waits for the next one.
Quiescent ==
    /\ \A m \in Msgs : fate[m] \notin {"unsent", "live"}
    /\ UNCHANGED vars
-----------------------------------------------------------------------------
Receive(m) ==
    \/ ReceiveControl(m) \/ ReceiveDropped(m) \/ ReceiveCommand(m)
    \/ ReceiveDeferred(m) \/ ReceiveFollowUp(m) \/ ReceiveTask(m)

Step(s) ==
    \/ Inject(s) \/ EndTurn(s) \/ ContinueTurn(s) \/ BlockOnFullQueue(s)
    \/ ClearSession(s) \/ SessionCleared(s) \/ AbortTurn(s)

Next ==
    \/ \E m \in Msgs : Publish(m) \/ Receive(m)
    \/ \E m \in Automations : CallerCancelled(m)
    \/ FinishControl
    \/ \E s \in Sessions : StartTurn(s) \/ Step(s)
    \/ \E s \in Sessions, i \in 1 .. Cardinality(Msgs) : AbortWaiting(s, i)
    \/ Quiescent

\* The event loop runs every ready callback; a turn ends because iterations,
\* LLM calls and tools are bounded.  Lock and semaphore are FIFO, so a waiter
\* is not passed over forever: strong fairness for StartTurn.
Fairness ==
    /\ WF_vars(\E m \in Msgs : Receive(m))
    /\ WF_vars(FinishControl)
    /\ \A s \in Sessions :
          /\ SF_vars(StartTurn(s))
          /\ WF_vars(Step(s) /\ ~Inject(s))
          /\ WF_vars(\E i \in 1 .. Cardinality(Msgs) : AbortWaiting(s, i))

Spec == Init /\ [][Next]_vars
FairSpec == Spec /\ Fairness
-----------------------------------------------------------------------------
(* Properties *)

\* Every variable has its type; an injection queue never exceeds its maxsize
\* (loop.py: asyncio.Queue(maxsize=20)).
TypeOK ==
    /\ inbound \in Seq(Msgs)
    /\ control \in Msgs \cup {None}
    /\ awaits \in [Msgs -> SUBSET Msgs]
    /\ activeTasks \in [Sessions -> SUBSET Msgs]
    /\ lockQ \in [Sessions -> Seq(Msgs)]
    /\ turn \in [Sessions -> Stages]
    /\ pendingQueues \in [Sessions -> Seq(Msgs) \cup {None}]
    /\ \A s \in Sessions : Len(Queued(s)) <= QueueCap
    /\ deferred \in [Sessions -> Seq(Msgs)]
    /\ permits \in 0 .. GateCap
    /\ cancelled \subseteq Msgs
    /\ waiters \in [Automations -> {"none", "waiting", "ok", "error", "gone"}]
    /\ rounds \in [Sessions -> 0 .. MaxRounds]
    /\ fate \in [Msgs -> Fates]

Places(m) ==
    {<<"inbound", i>> : i \in {j \in DOMAIN inbound : inbound[j] = m}}
    \cup {<<"control", 0>> : c \in {control} \cap {m}}
    \cup UNION {{<<"task", i>> : i \in {j \in DOMAIN lockQ[s] : lockQ[s][j] = m}}
                \cup {<<"pending", i>> :
                       i \in {j \in DOMAIN Queued(s) : Queued(s)[j] = m}}
                \cup {<<"deferred", i>> :
                       i \in {j \in DOMAIN deferred[s] : deferred[s][j] = m}}
                : s \in {Sess[m]}}

\* No message is lost or handled twice: one that has not met its fate is in
\* exactly one place, and one that has is nowhere.  The places are filled by
\* run() and emptied by the finally clauses of _dispatch and by cmd_stop.
ExactlyOnce ==
    \A m \in Msgs :
        Cardinality(Places(m)) = (IF fate[m] = "live" THEN 1 ELSE 0)

\* run() adds follow-ups to a registered queue, so a registered queue has a
\* turn that owns it: none outlives its turn, none is registered by a task
\* that still waits for the lock or the gate.
QueueHasConsumer ==
    \A s \in Sessions :
        Registered(s) => lockQ[s] # <<>> /\ turn[s] # "idle"

\* The gate's slots are the turns past it plus the free ones, whichever way
\* turns end; a slot that leaks would in the end stop every session.
PermitsConserved ==
    permits + Cardinality({s \in Sessions : turn[s] # "idle"}) = GateCap

\* A deferred automation has somebody left to wake it: a task of its session,
\* or an automation of that session already on the bus.
NoStrandedDeferred ==
    \A s \in Sessions :
        deferred[s] # <<>> =>
            \/ lockQ[s] # <<>>
            \/ \E i \in DOMAIN inbound :
                  Sess[inbound[i]] = s /\ Kind[inbound[i]] = "auto"

\* An automation turn is never mixed into a running turn as a follow-up
\* (class docstring of AutomationTurnCoordinator).
AutomationsNotInjected ==
    \A m \in Automations : fate[m] # "injected"

\* Only /stop, /new or a discard of its own session loses a message, and the
\* command has been taken off the bus by then.
StoppedByCommand ==
    \A m \in Msgs :
        fate[m] = "stopped" =>
            \E c \in Msgs :
                /\ Sess[c] = Sess[m]
                /\ Kind[c] \in {"stop", "new", "discard"}
                /\ fate[c] # "unsent" /\ c \notin Elems(inbound)

\* Whatever was sent is answered, injected, or given up for a reason: no state
\* is the last in which nothing is under way (a settled message stays settled).
EveryMessageSettles == []<>(\A m \in Msgs : fate[m] # "live")

\* A control command does not hold run() for ever: what it cancelled ends,
\* even a turn that is stuck.
ControlReturns == []<>(control = None)

\* The caller of submit_cron_turn or submit_local_trigger_turn gets its answer,
\* unless a control command stopped the turn: a task cancelled before it starts
\* (_dispatch's outer finally clause) tells no coordinator.
AutomationAnswered ==
    []<>(\A m \in Automations : waiters[m] = "waiting" => fate[m] = "stopped")

\* The tables of the loop: of their types, the gate's slots all accounted for,
\* and no automation in the queue of a turn.
TablesSound == TypeOK /\ PermitsConserved /\ AutomationsNotInjected
=============================================================================
