--------------------------- MODULE BackgroundWork ---------------------------
(***************************************************************************)
(* What runs beside the conversation of a session: the sub-agents its turns*)
(* spawn, and the processes that turns and sub-agents leave running in exec*)
(* sessions.  /stop of a session and the shutdown of the gateway cancel and*)
(* kill all of it, while calls of other sessions hold the manager's lock.  *)
(* Turns use one exec session manager, sub-agents share another.           *)
(* Code: agent/tools/exec_session.py, agent/tools/shell.py (killing),      *)
(* agent/subagent.py, agent/tools/spawn.py, agent/loop.py (/stop, close).  *)
(***************************************************************************)
EXTENDS Integers, Sequences, FiniteSets

CONSTANTS
    Keys,         \* session keys; the running turn of a session has its name
    Subs,         \* sub-agents, each spawned at most once
    MaxSubs,      \* max_concurrent_subagents
    MaxSessions,  \* max_sessions of a manager
    Budgets,      \* bounds: how many turns of each session and sub-agents begin, processes start, chunks are
                  \* written, kills raise, sessions grow idle and overdue
    None

\* Where a /stop and a shutdown are, and the sessions they put back.
StopRecords == [key : Keys, at : {"cancel", "subs", "turns", "done"}, back : SUBSET Nat]
ClosingRecords == [at : {"cancel", "cancelsubs", "subs", "turns", "done"}, back : SUBSET Nat,
                   round : {1, 2}, asked : BOOLEAN]

ASSUME ConstantsAssumption ==
    /\ None \notin Keys \cup Subs /\ Keys \cap Subs = {}
    /\ None \notin StopRecords \cup ClosingRecords
    /\ MaxSubs \in Nat /\ MaxSessions \in Nat
    /\ Budgets \subseteq [turns : [Keys -> Nat], subs : SUBSET Subs, starts : Nat, writes : Nat, faults : Nat,
                          idle : Nat, overdue : Nat]

Tasks == Keys \cup Subs
Managers == {"turns", "subs"}
ManagerOf(t) == IF t \in Keys THEN "turns" ELSE "subs"

VARIABLES
    alive,    \* the session a task works for, None if it does not run
    inline,   \* sub-agents the spawning turn waits for
    call,     \* the exec call of each task
    lock,     \* who holds the lock of each manager
    closed,   \* _closed of each manager
    exec,     \* every exec session: process, output and place in the pool
    stop,     \* the /stop that runs, None without one
    closing,  \* close_mcp: where it is, None before the shutdown
    inbound,  \* results announced on the bus
    left      \* what is left of the budget

taskVars == <<alive, inline>>
vars == <<alive, inline, call, lock, closed, exec, stop, closing,
          inbound, left>>

Init ==
    /\ alive = [t \in Tasks |-> None]
    /\ inline = {}
    /\ call = [t \in Tasks |-> None]
    /\ lock = [m \in Managers |-> None]
    /\ closed = [m \in Managers |-> FALSE]
    /\ exec = <<>>
    /\ stop = None
    /\ closing = None
    /\ inbound = {}
    /\ left \in Budgets
-----------------------------------------------------------------------------
(* Turns and sub-agents *)

\* Not during a /stop: the loop that starts turns runs it.
Begin(k) ==
    /\ alive[k] = None /\ stop = None /\ closing = None /\ left.turns[k] > 0
    /\ alive' = [alive EXCEPT ![k] = k]
    /\ left' = [left EXCEPT !.turns[k] = @ - 1]
    /\ UNCHANGED <<inline, call, lock, closed, exec, stop, closing, inbound>>

Free(t) == alive[t] # None /\ call[t] = None

End(k) ==
    /\ Free(k)
    /\ alive' = [alive EXCEPT ![k] = None]
    /\ UNCHANGED <<inline, call, lock, closed, exec, stop, closing,
                   inbound, left>>

Running == {b \in Subs : alive[b] # None}

\* spawn, run_inline: counted, then registered without an await between.
Spawn(k, b, wait) ==
    /\ Free(k) /\ b \in left.subs
    /\ Cardinality(Running) < MaxSubs
    /\ alive' = [alive EXCEPT ![b] = k]
    /\ left' = [left EXCEPT !.subs = @ \ {b}]
    /\ inline' = IF wait THEN inline \cup {b} ELSE inline
    /\ call' = IF wait THEN [call EXCEPT ![k] = [at |-> "inline", sub |-> b]] ELSE call
    /\ UNCHANGED <<lock, closed, exec, stop, closing, inbound>>

WaitsFor(t, b) == call[t] # None /\ call[t].at = "inline" /\ call[t].sub = b

\* Fault: a result somebody waits for is announced as well.
SubEndsAnnounced(b) ==
    /\ b \in Running /\ call[b] = None
    /\ alive' = [alive EXCEPT ![b] = None]
    /\ inbound' = inbound \cup {b}
    /\ call' = [t \in Tasks |-> IF WaitsFor(t, b) THEN None ELSE call[t]]
    /\ UNCHANGED <<inline, lock, closed, exec, stop, closing, left>>

\* The sub-agent is done, well or not: it announces its result on the bus,
\* or the waiting turn gets it.
SubEnds(b) ==
    /\ b \in Running /\ call[b] = None
    /\ alive' = [alive EXCEPT ![b] = None]
    /\ inbound' = IF b \in inline THEN inbound ELSE inbound \cup {b}
    /\ call' = [t \in Tasks |-> IF WaitsFor(t, b) THEN None ELSE call[t]]
    /\ UNCHANGED <<inline, lock, closed, exec, stop, closing, left>>
-----------------------------------------------------------------------------
(* Exec sessions: the processes *)

Execs == 1..Len(exec)
Pooled(m) == {e \in Execs : exec[e].manager = m /\ exec[e].pooled}

Process(e, next, rest) ==
    /\ exec' = [exec EXCEPT ![e] = next]
    /\ left' = rest
    /\ UNCHANGED <<taskVars, call, lock, closed, stop, closing, inbound>>

Writes(e) ==
    /\ exec[e].runs /\ left.writes > 0
    /\ Process(e, [exec[e] EXCEPT !.pipe = @ + 1], [left EXCEPT !.writes = @ - 1])

Exits(e) == exec[e].runs /\ Process(e, [exec[e] EXCEPT !.runs = FALSE], left)

\* _read_stream
Reads(e) ==
    /\ exec[e].pipe > 0
    /\ Process(e, [exec[e] EXCEPT !.buffer = @ + exec[e].pipe, !.pipe = 0], left)

Using(e) == {t \in Tasks : call[t] # None /\ call[t].at # "inline" /\ call[t].exec = e}

\* Nobody polled for idle_timeout (writing to stdin does not count); the
\* deadline of the command passed.
GrowsIdle(e) ==
    /\ exec[e].pooled /\ ~exec[e].idle /\ left.idle > 0
    /\ \A t \in Using(e) : call[t].at = "feeding"
    /\ Process(e, [exec[e] EXCEPT !.idle = TRUE], [left EXCEPT !.idle = @ - 1])

GrowsOverdue(e) ==
    /\ exec[e].runs /\ ~exec[e].overdue /\ left.overdue > 0
    /\ Process(e, [exec[e] EXCEPT !.overdue = TRUE], [left EXCEPT !.overdue = @ - 1])

\* kill() of the sessions E: the signals are sent at once.  In F it is refused
\* (a process of another user, PermissionError): kill() raises.
Killed(E, F) == [e \in Execs |-> IF e \in F THEN [exec[e] EXCEPT !.failed = TRUE]
                                 ELSE IF e \in E THEN [exec[e] EXCEPT !.runs = FALSE]
                                 ELSE exec[e]]

Refused(E) == {F \in SUBSET {e \in E : exec[e].runs} : Cardinality(F) <= left.faults}

WithPool(ex, E, in) == [e \in DOMAIN ex |-> IF e \in E THEN [ex[e] EXCEPT !.pooled = in] ELSE ex[e]]
-----------------------------------------------------------------------------
(* Exec calls of a task.  A call record says what it does and where it is. *)

Set(t, c) == call' = [call EXCEPT ![t] = c]
Return(t) == Set(t, None)
At(t, place) == call[t] # None /\ call[t].at = place
Move(t, place) == Set(t, [call[t] EXCEPT !.at = place])
Release(m) == lock' = [lock EXCEPT ![m] = None]
Hold(t) == lock' = [lock EXCEPT ![ManagerOf(t)] = t]

callRest == <<taskVars, closed, stop, closing, inbound>>

\* Fault: exited sessions do not count.
RoomBesideExited(m) == Cardinality({e \in Pooled(m) : exec[e].runs}) < MaxSessions

Room(m) == Cardinality(Pooled(m)) < MaxSessions

Found(t, c) == c.exec \in Pooled(ManagerOf(t)) /\ exec[c.exec].owner = alive[t]

\* write(terminate) and an overdue poll kill the process and go on, unless that raises.
Kill(t, c) == \E F \in Refused({c.exec}) :
    /\ exec' = [Killed({c.exec}, F) EXCEPT ![c.exec].idle = FALSE]
    /\ left' = [left EXCEPT !.faults = @ - Cardinality(F)]
    /\ IF F = {} THEN Set(t, [c EXCEPT !.at = "eof"]) ELSE Return(t)

\* The idle sessions are gone: a start creates its process under the lock, a
\* write releases it and feeds, kills or polls its session, a list returns; a
\* start without room (or beyond the bound) fails.
Proceed(t, c) ==
    LET m == ManagerOf(t)
    IN \/ /\ c.op = "start" /\ Room(m) /\ Len(exec) < left.starts
          /\ Hold(t) /\ Set(t, [c EXCEPT !.at = "spawning"])
          /\ UNCHANGED <<exec, left>>
       \/ /\ \/ c.op = "list"
             \/ c.op = "start" /\ ~(Room(m) /\ Len(exec) < left.starts)
             \/ c.op = "write" /\ ~Found(t, c)
          /\ Release(m) /\ Return(t)
          /\ UNCHANGED <<exec, left>>
       \/ /\ c.op = "write" /\ Found(t, c) /\ Release(m)
          /\ \/ /\ exec[c.exec].runs
                /\ Set(t, [c EXCEPT !.at = "feeding"])
                /\ UNCHANGED <<exec, left>>
             \/ /\ Set(t, [c EXCEPT !.at = "waiting"])
                /\ exec' = [exec EXCEPT ![c.exec].idle = FALSE]
                /\ UNCHANGED left
             \/ Kill(t, c)

Idle(m) == {e \in Pooled(m) : exec[e].idle}

\* _cleanup_locked: one idle session of E is killed while the lock is held.
Reap(t, c, E) == \E e \in E, F \in SUBSET E :
    /\ F \in Refused({e})
    /\ exec' = Killed({e}, F)
    /\ left' = [left EXCEPT !.faults = @ - Cardinality(F)]
    /\ IF F = {} THEN Hold(t) /\ Set(t, [c EXCEPT !.at = "reaping", !.reaped = e, !.idle = E \ {e}])
                 ELSE Release(ManagerOf(t)) /\ Return(t)

\* start, write or list: the lock is taken.
Call(t, op, e) ==
    LET c == [op |-> op, at |-> "locked", exec |-> e, reaped |-> 0, idle |-> {}]
        m == ManagerOf(t)
    IN /\ Free(t) /\ lock[m] = None
       /\ ~(op = "start" /\ closed[m])
       /\ IF Idle(m) = {} THEN Proceed(t, c) ELSE Reap(t, c, Idle(m))
       /\ UNCHANGED callRest

\* The idle session is dead and leaves the pool.
Reaped(t) ==
    /\ At(t, "reaping")
    /\ exec' = WithPool(exec, {call[t].reaped}, FALSE)
    /\ Move(t, "cleaning")
    /\ UNCHANGED <<lock, left, callRest>>

Cleaned(t) ==
    /\ At(t, "cleaning")
    /\ IF call[t].idle = {} THEN Proceed(t, call[t]) ELSE Reap(t, call[t], call[t].idle)
    /\ UNCHANGED callRest

\* The process is there, or could not be started; it is registered before the
\* lock is released.
Spawned(t, ok) ==
    LET e == [owner |-> alive[t], manager |-> ManagerOf(t), pooled |-> TRUE,
              runs |-> TRUE, idle |-> FALSE, overdue |-> FALSE, failed |-> FALSE,
              pipe |-> 0, buffer |-> 0, done |-> FALSE, late |-> FALSE]
    IN /\ At(t, "spawning")
       /\ Release(ManagerOf(t))
       /\ IF ok THEN /\ exec' = Append(exec, e)
                     /\ Set(t, [call[t] EXCEPT !.at = "waiting", !.exec = Len(exec) + 1])
                ELSE UNCHANGED exec /\ Return(t)
       /\ UNCHANGED <<left, callRest>>

\* stdin takes the text (then poll), or the process has exited.
Fed(t) ==
    /\ At(t, "feeding")
    /\ IF exec[call[t].exec].runs
       THEN /\ Move(t, "waiting")
            /\ exec' = [exec EXCEPT ![call[t].exec].idle = FALSE]
       ELSE Return(t) /\ UNCHANGED exec
    /\ UNCHANGED <<lock, left, callRest>>

\* poll: the process exits, or yield_time_ms or the deadline pass.
WaitOver(t) ==
    LET e == exec[call[t].exec]
    IN /\ At(t, "waiting")
       /\ \/ e.runs /\ e.overdue /\ Kill(t, call[t])
          \/ /\ ~(e.runs /\ e.overdue)
             /\ Move(t, IF e.runs THEN "grace" ELSE "eof")
             /\ UNCHANGED <<exec, left>>
       /\ UNCHANGED <<lock, callRest>>

\* Fault: the session of a process that still runs is dropped too.
AnswerPops(t, late) ==
    LET e == call[t].exec
    IN /\ exec' = [exec EXCEPT ![e].buffer = 0, ![e].done = ~exec[e].runs,
                               ![e].late = @ \/ late]
       /\ Move(t, "popping")
       /\ UNCHANGED <<lock, left, callRest>>

\* What the buffers hold is the answer.  It says done if the process has
\* exited by then, whatever is still in the pipe.
Answer(t, late) ==
    LET e == call[t].exec
    IN /\ exec' = [exec EXCEPT ![e].buffer = 0, ![e].done = ~exec[e].runs,
                               ![e].late = @ \/ late]
       /\ IF exec[e].runs THEN Return(t) ELSE Move(t, "popping")
       /\ UNCHANGED <<lock, left, callRest>>

\* Fault: the readers are not awaited.
AnswerAtOnce(t) == At(t, "eof") /\ Answer(t, FALSE)

\* After the exit: the readers reach the end of the pipe.
AnswerAtEof(t) == At(t, "eof") /\ exec[call[t].exec].pipe = 0 /\ Answer(t, FALSE)

\* Fault: the readers are awaited without a limit.
AnswerUnlimited(t) == AnswerAtEof(t)

\* ... or two seconds pass and they are given up.
AnswerLate(t) == At(t, "eof") /\ exec[call[t].exec].pipe > 0 /\ Answer(t, TRUE)

\* The process ran when it was looked at: output or the grace time ends it.
\* It may have exited since: then its last output is lost.
AnswerInGrace(t) ==
    /\ At(t, "grace")
    /\ Answer(t, ~exec[call[t].exec].runs /\ exec[call[t].exec].pipe > 0)

\* The finished session leaves the pool.
Popped(t) ==
    /\ At(t, "popping") /\ lock[ManagerOf(t)] = None
    /\ exec' = WithPool(exec, {call[t].exec}, FALSE)
    /\ Return(t)
    /\ UNCHANGED <<lock, left, callRest>>

AfterLock(t) == Reaped(t) \/ Cleaned(t) \/ Spawned(t, TRUE) \/ Spawned(t, FALSE)
Poll(t) == WaitOver(t) \/ AnswerAtEof(t) \/ AnswerLate(t) \/ AnswerInGrace(t)
-----------------------------------------------------------------------------
(* /stop and the shutdown.  A record says which manager's sessions are next, *)
(* and those whose kill raised and that go back to the pool.                 *)

\* Fault: a cancelled call keeps the lock.
CancelHolding(T) ==
    LET gone == T \cup {b \in Subs : \E t \in T : WaitsFor(t, b)}
    IN /\ alive' = [t \in Tasks |-> IF t \in gone THEN None ELSE alive[t]]
       /\ call' = [t \in Tasks |-> IF t \in gone \/ \E b \in gone : WaitsFor(t, b)
                                   THEN None ELSE call[t]]
       /\ UNCHANGED <<inline, lock>>

\* The tasks are cancelled and awaited: their calls end where they are.
Cancel(T) ==
    LET gone == T \cup {b \in Subs : \E t \in T : WaitsFor(t, b)}
    IN /\ alive' = [t \in Tasks |-> IF t \in gone THEN None ELSE alive[t]]
       /\ call' = [t \in Tasks |-> IF t \in gone \/ \E b \in gone : WaitsFor(t, b)
                                   THEN None ELSE call[t]]
       /\ lock' = [m \in Managers |-> IF lock[m] \in gone THEN None ELSE lock[m]]
       /\ UNCHANGED inline

\* The sessions E of manager m leave the pool and are killed; those whose kill
\* is refused, F, are the "back" of who ends them.
Terminate(m, E, F) ==
    /\ lock[m] = None
    /\ exec' = WithPool(Killed(E, F), E, FALSE)
    /\ left' = [left EXCEPT !.faults = @ - Cardinality(F)]

Stop(k) ==
    /\ stop = None /\ closing = None
    /\ stop' = [key |-> k, at |-> "cancel", back |-> {}]
    /\ Cancel({k} \cap {t \in Tasks : alive[t] # None})
    /\ UNCHANGED <<closed, exec, closing, inbound, left>>

\* subagents.cancel_by_session
StopSubs ==
    /\ stop # None /\ stop.at = "cancel"
    /\ stop' = [stop EXCEPT !.at = "subs"]
    /\ Cancel({b \in Running : alive[b] = stop.key})
    /\ UNCHANGED <<closed, exec, closing, inbound, left>>

\* Fault: idle sessions are left to the cleanup.
OwnedInUse(m, k) == {e \in Pooled(m) : exec[e].owner = k /\ ~exec[e].idle}

Owned(m, k) == {e \in Pooled(m) : exec[e].owner = k}

AfterManager(m) == IF m = "subs" THEN "turns" ELSE "done"

\* terminate_by_owner of each manager.
StopTerminates(m) ==
    /\ stop # None /\ stop.at = m /\ stop.back = {}
    /\ \E F \in Refused(Owned(m, stop.key)) :
          /\ Terminate(m, Owned(m, stop.key), F)
          /\ stop' = [stop EXCEPT !.back = F, !.at = IF F = {} THEN AfterManager(m) ELSE m]
    /\ UNCHANGED <<taskVars, call, lock, closed, closing, inbound>>

\* The survivors are kept and the error is raised: nothing catches it in the
\* command's handler nor in run(), whose end closes everything.
StopRaises(m) ==
    /\ stop # None /\ stop.at = m /\ stop.back # {} /\ lock[m] = None
    /\ exec' = WithPool(exec, stop.back, TRUE)
    /\ stop' = None
    /\ closing' = IF closing = None THEN [at |-> "cancel", back |-> {}, round |-> 1, asked |-> FALSE]
                                    ELSE closing
    /\ UNCHANGED <<taskVars, call, lock, closed, inbound, left>>

StopDone ==
    /\ stop # None /\ stop.at = "done"
    /\ stop' = None
    /\ UNCHANGED <<taskVars, call, lock, closed, exec, closing, inbound, left>>

\* The gateway shuts down: close_mcp, while a /stop may still run.
Shutdown ==
    /\ closing = None
    /\ closing' = [at |-> "cancel", back |-> {}, round |-> 1, asked |-> TRUE]
    /\ UNCHANGED <<taskVars, call, lock, closed, exec, stop, inbound, left>>

CloseAt(place) == closing # None /\ closing.at = place

CloseTurns ==
    /\ CloseAt("cancel")
    /\ closing' = [closing EXCEPT !.at = "cancelsubs"]
    /\ Cancel({k \in Keys : alive[k] # None})
    /\ UNCHANGED <<closed, exec, stop, inbound, left>>

\* Fault: only the processes of sub-agents are ended.
CloseSubsRunning ==
    /\ CloseAt("cancelsubs")
    /\ closing' = [closing EXCEPT !.at = "subs"]
    /\ UNCHANGED <<taskVars, call, lock, closed, exec, stop, inbound, left>>

CloseSubs ==
    /\ CloseAt("cancelsubs")
    /\ closing' = [closing EXCEPT !.at = "subs"]
    /\ Cancel(Running)
    /\ UNCHANGED <<closed, exec, stop, inbound, left>>

\* close_all
CloseTerminates(m) ==
    /\ CloseAt(m) /\ closing.back = {}
    /\ closed' = [closed EXCEPT ![m] = TRUE]
    /\ \E F \in Refused(Pooled(m)) :
          /\ Terminate(m, Pooled(m), F)
          /\ closing' = [closing EXCEPT !.back = F, !.at = IF F = {} THEN AfterManager(m) ELSE m]
    /\ UNCHANGED <<taskVars, call, lock, stop, inbound>>

\* Survivors go back; the next resource is closed all the same.
CloseRaises(m) ==
    /\ CloseAt(m) /\ closing.back # {} /\ lock[m] = None
    /\ exec' = WithPool(exec, closing.back, TRUE)
    /\ closing' = [closing EXCEPT !.back = {}, !.at = AfterManager(m)]
    /\ UNCHANGED <<taskVars, call, lock, closed, stop, inbound, left>>

\* The loop's own close is followed by the gateway's.
CloseAgain ==
    /\ CloseAt("done") /\ closing.round = 1
    /\ closing' = [closing EXCEPT !.at = "cancel", !.round = 2, !.asked = TRUE]
    /\ UNCHANGED <<taskVars, call, lock, closed, exec, stop, inbound, left>>
-----------------------------------------------------------------------------
Working ==
    \/ \E k \in Keys : Begin(k) \/ End(k)
    \/ \E k \in Keys, b \in Subs, wait \in BOOLEAN : Spawn(k, b, wait)
    \/ \E b \in Subs : SubEnds(b)
Processing == \E e \in Execs : Writes(e) \/ Exits(e) \/ Reads(e) \/ GrowsIdle(e) \/ GrowsOverdue(e)
Calling == \E t \in Tasks :
    \/ Call(t, "start", 0) \/ Call(t, "list", 0)
    \/ \E e \in Execs : Call(t, "write", e)
    \/ AfterLock(t) \/ Fed(t) \/ Poll(t) \/ Popped(t)
Stopping == StopSubs \/ StopDone \/ \E m \in Managers : StopTerminates(m) \/ StopRaises(m)
Closing == CloseTurns \/ CloseSubs \/ CloseAgain \/ \E m \in Managers : CloseTerminates(m) \/ CloseRaises(m)

Next == Working \/ Processing \/ Calling \/ (\E k \in Keys : Stop(k)) \/ Stopping \/ Shutdown \/ Closing

Spec == Init /\ [][Next]_vars

\* Tasks run on; the lock is given in the order it is asked for; the pipe is
\* read.  Nobody promises that a process takes its input or exits.
Fairness ==
    /\ \A t \in Tasks : SF_vars(AfterLock(t) \/ Poll(t) \/ Popped(t))
    /\ SF_vars(Stopping) /\ SF_vars(Closing)

FairSpec == Spec /\ Fairness
-----------------------------------------------------------------------------
(* Properties *)

Execution == [owner : Keys, manager : Managers, pooled : BOOLEAN, runs : BOOLEAN, idle : BOOLEAN,
              overdue : BOOLEAN, failed : BOOLEAN, pipe : Nat, buffer : Nat,
              done : BOOLEAN, late : BOOLEAN]

\* Every variable keeps its type, and no manager holds more sessions than
\* max_sessions beside those it could not kill.
TypeOK ==
    /\ \A t \in Tasks : alive[t] \in {None} \cup (IF t \in Keys THEN {t} ELSE Keys)
    /\ inline \subseteq Subs \ left.subs
    /\ \A e \in Execs : exec[e] \in Execution
    /\ \A m \in Managers : lock[m] \in {None} \cup {t \in Tasks : ManagerOf(t) = m}
    /\ \A m \in Managers : Cardinality({e \in Pooled(m) : ~exec[e].failed}) <= MaxSessions

\* A process that runs is in the pool of its manager, where a poll, the idle
\* timeout, /stop or the shutdown finds it, unless killing it was refused.
NoOrphans == \A e \in Execs : exec[e].runs => exec[e].pooled \/ exec[e].failed

\* At most max_concurrent_subagents run, whoever spawned them, and a result is
\* announced on the bus only for those nobody waits for.
SubsBounded == Cardinality(Running) <= MaxSubs /\ inbound \cap (inline \cup Running) = {}

\* The poll that reports that the process has exited has returned everything it
\* wrote, unless its readers were given up after two seconds or it exited in
\* the grace time of that poll.
OutputKept == \A e \in Execs : exec[e].done /\ ~exec[e].late => exec[e].pipe + exec[e].buffer = 0

\* When /stop of a session succeeds, none of its turns, sub-agents and processes
\* runs, except a process whose kill was refused.
StopLeavesNothing == [][StopDone =>
    /\ \A t \in Tasks : alive'[t] # stop.key
    /\ \A e \in DOMAIN exec' : exec'[e].owner = stop.key /\ exec'[e].runs => exec'[e].failed]_vars

\* When the shutdown ends, nothing runs, except a process whose kill was
\* refused: that one is in its pool again, or about to be (a /stop at work).
ShutdownLeavesNothing == CloseAt("done") =>
    /\ \A t \in Tasks : alive[t] = None
    /\ \A e \in Execs : exec[e].runs => /\ exec[e].failed
                                        /\ exec[e].pooled \/ (stop # None /\ e \in stop.back)

Busy(t) == call[t] # None /\ call[t].at \notin {"inline", "feeding"}

\* An exec call returns, whatever its process does and whoever is stopped.
CallsReturn == \A t \in Tasks : []<>~Busy(t)

\* /stop and the shutdown end, whoever holds the lock of a manager.
StoppingEnds == []<>(stop = None /\ (closing = None \/ CloseAt("done")))

\* The pools: of their types and bounds, and every running process is in one.
PoolsSound == TypeOK /\ NoOrphans /\ SubsBounded

\* Whatever is stopped, nothing is left running: by /stop of a session (a step
\* from here on) and by the shutdown.
NothingLeft == StopLeavesNothing /\ []ShutdownLeavesNothing

\* No await is for ever: exec calls return, /stop and the shutdown end.
AwaitsEnd == CallsReturn /\ StoppingEnds
=============================================================================
