--------------------------- MODULE TurnTranscript ---------------------------
(***************************************************************************)
(* What one session remembers of its turns.  A turn writes the session     *)
(* file before it calls the model, after every model answer and tool call  *)
(* (the runtime checkpoint) and at its end; a turn may be stopped, fail,   *)
(* or die with the process, and the next one repairs what it left.  Beside *)
(* the messages the session keeps the provider's own conversation state,   *)
(* which replaces the messages in the next request and so must not know    *)
(* less than they say.                                                     *)
(* Code: agent/loop.py (_restore_turn, _build_turn, _persist_turn),        *)
(* agent/runner.py (_run_core), providers/conversation_state.py.           *)
(* The turns of a session follow each other: see Dispatch for the lock.    *)
(***************************************************************************)
EXTENDS Integers, Sequences, FiniteSetsExt

CONSTANTS
    Inputs,        \* the messages of the user and the sub-agent results
    SubResults,    \* those that are sub-agent results
    MaxCalls,      \* max_iterations
    MaxCycles,     \* _MAX_INJECTION_CYCLES
    MaxStops,      \* bound: cancellations and exceptions
    MaxCrashes,    \* bound: deaths of the process
    None

Roles == {"user", "hidden", "assistant", "call", "tool", "command", "notice"}
Entries == [role : Roles, id : Nat, has : SUBSET Inputs, cut : BOOLEAN]
Checkpoints == [phase : {"awaiting_tools", "tools_completed", "final_response"}, id : Nat]

\* What a message may tell the model, and what a provider's state may know.
Facts == ({"input"} \X Inputs) \cup ({"assistant", "call", "tool"} \X Nat)
States == {None} \cup SUBSET Facts
Sessions == [messages : Seq(Entries), pending : BOOLEAN,
             checkpoint : {None} \cup Checkpoints, provider : States]

ASSUME ConstantsAssumption ==
    /\ SubResults \subseteq Inputs
    /\ MaxCalls \in Nat \ {0}
    /\ MaxCycles \in Nat /\ MaxStops \in Nat /\ MaxCrashes \in Nat
    /\ None \notin Inputs \cup Checkpoints \cup Sessions

VARIABLES
    file,       \* the session file
    session,    \* the Session object in memory, None before it is loaded
    stage,      \* of the running turn
    input,      \* the message the turn answers
    run,        \* the runner's messages and counters
    followups,  \* the turn's pending queue
    waiting,    \* messages that are to start a turn
    made,       \* model answers so far
    stops, crashes,
    shown,      \* history: answers of this turn that reached a checkpoint
    taken,      \* history: follow-ups this turn took from its queue
    joined,     \* history: those joined to a message the model was sent
    kept,       \* history: inputs the session must hold
    excused     \* history: steps an aborted save may leave twice

turnVars == <<stage, input, run>>
faults == <<stops, crashes>>
history == <<shown, taken, joined, kept, excused>>
vars == <<file, session, stage, input, run, followups, waiting, made,
          stops, crashes, shown, taken, joined, kept, excused>>
-----------------------------------------------------------------------------
(* Messages *)

User(S) == [role |-> "user", id |-> 0, has |-> S, cut |-> FALSE]
Hidden(S) == [role |-> "hidden", id |-> 0, has |-> S, cut |-> FALSE]
Reply(n) == [role |-> "assistant", id |-> n, has |-> {}, cut |-> FALSE]
Call(n) == [role |-> "call", id |-> n, has |-> {}, cut |-> FALSE]
Result(n, c) == [role |-> "tool", id |-> n, has |-> {}, cut |-> c]
\* A slash command and its answer; get_history leaves them out of a prompt.
Slash(i) == <<[role |-> "command", id |-> 0, has |-> {i}, cut |-> FALSE],
              [role |-> "command", id |-> 0, has |-> {}, cut |-> FALSE]>>
\* A canned assistant text: an error or a fallback.
Notice == [role |-> "notice", id |-> 0, has |-> {}, cut |-> FALSE]

\* What a message tells the model.
Items(e) == IF e.role \in {"user", "hidden"}
            THEN {<<"input", i>> : i \in e.has}
            ELSE IF e.role \in {"notice", "command"} THEN {} ELSE {<<e.role, e.id>>}
AllItems(s) == UNION {Items(s[k]) : k \in DOMAIN s}

Last(s) == s[Len(s)]
From(s, k) == SubSeq(s, k + 1, Len(s))

NoRun == [messages |-> <<>>, calls |-> 0, cycles |-> 0, state |-> None,
          boundary |-> 0]
EmptySession == [messages |-> <<>>, pending |-> FALSE, checkpoint |-> None,
                 provider |-> None]
Stages == {"idle", "restored", "calling", "tools", "errored", "exhausted",
           "ended"}

Init ==
    /\ file = EmptySession
    /\ session = None
    /\ stage = "idle"
    /\ input = None
    /\ run = NoRun
    /\ followups = {}
    /\ waiting = Inputs
    /\ made = 0
    /\ stops = 0 /\ crashes = 0
    /\ shown = <<>>
    /\ taken = {}
    /\ joined = {}
    /\ kept = {}
    /\ excused = {}

\* SessionManager.save: the object replaces the file.
Save(s) == session' = s /\ file' = s
-----------------------------------------------------------------------------
(* Repairing what the last turn left *)

\* The messages a checkpoint stands for: the answer, and a result for its
\* call, an error text when the call had not finished.
CheckpointMessages(c) ==
    IF c.phase = "final_response" THEN <<Reply(c.id)>>
    ELSE <<Call(c.id), Result(c.id, c.phase = "awaiting_tools")>>

\* Fault: the overlap is not looked for.
NoOverlap(s, r) == 0

\* The longest end of the session that is a beginning of the checkpoint.
Overlap(s, r) ==
    Max({0} \cup {k \in 1 .. Len(r) :
                     k <= Len(s) /\ From(s, Len(s) - k) = SubSeq(r, 1, k)})

\* Fault: the provider's state is kept whatever the checkpoint was.
ExactAlways(c) == TRUE

Exact(c) == c.phase # "awaiting_tools"

\* _restore_runtime_checkpoint
Materialize(s) ==
    IF s.checkpoint = None THEN s
    ELSE LET r == CheckpointMessages(s.checkpoint)
         IN [messages |-> s.messages \o From(r, Overlap(s.messages, r)),
             pending |-> FALSE,
             checkpoint |-> None,
             provider |-> IF Exact(s.checkpoint) THEN s.provider ELSE None]

\* Fault: the flag is cleared, the turn is left open.
ClosePendingFlagOnly(s) == [s EXCEPT !.pending = FALSE]

\* _restore_pending_user_turn
ClosePending(s) ==
    IF s.pending /\ s.messages # <<>> /\ Last(s.messages).role = "user"
    THEN [s EXCEPT !.messages = Append(@, Notice), !.pending = FALSE,
                   !.provider = None]
    ELSE [s EXCEPT !.pending = FALSE]

\* _restore_turn: the session is loaded, or the cached object is used.
Restore(i) ==
    /\ stage = "idle"
    /\ i \in waiting
    /\ LET s == IF session = None THEN file ELSE session
           r == ClosePending(Materialize(s))
       IN /\ session' = r
          /\ file' = IF r = s THEN file ELSE r
    /\ stage' = "restored"
    /\ input' = i
    /\ waiting' = waiting \ {i}
    /\ UNCHANGED <<run, followups, made, faults, history>>
-----------------------------------------------------------------------------
(* One turn *)

\* A slash command is answered without the model; both messages are saved.
Command ==
    /\ stage = "restored"
    /\ input \notin SubResults
    /\ Save([session EXCEPT !.messages = @ \o Slash(input)])
    /\ stage' = "idle" /\ input' = None
    /\ waiting' = waiting \cup followups
    /\ followups' = {}
    /\ kept' = kept \cup {input}
    /\ shown' = <<>> /\ taken' = {}
    /\ UNCHANGED <<run, made, faults, joined, excused>>

\* Fault: the input is written at the end of the turn, not before it.
BuildUnsaved(s) == session' = s /\ UNCHANGED file

BuildSaved(s) == Save(s)

\* _build_turn: the input is written before the model is called, and joins
\* the messages that the provider state does not know yet.
Build ==
    /\ stage = "restored"
    /\ LET own == IF input \in SubResults THEN Hidden({input})
                                          ELSE User({input})
           staged == IF session.provider = None THEN None
                     ELSE session.provider \cup Items(own)
       IN /\ BuildSaved([session EXCEPT
                  !.messages = Append(@, own),
                  !.pending = @ \/ input \notin SubResults,
                  !.provider = staged])
          /\ run' = [NoRun EXCEPT !.state = staged]
    /\ stage' = "calling"
    /\ kept' = kept \cup {input}
    /\ shown' = <<>> /\ taken' = {}
    /\ UNCHANGED <<input, followups, waiting, made, faults, joined, excused>>

\* A channel delivers a message while the turn runs.
FollowUp(i) ==
    /\ stage # "idle"
    /\ i \in waiting
    /\ waiting' = waiting \ {i}
    /\ followups' = followups \cup {i}
    /\ UNCHANGED <<file, session, turnVars, made, faults, history>>
-----------------------------------------------------------------------------
(* The runner *)

\* What the model knows when it answers: with a state, the state and what
\* followed it; without, every message it is sent.
Sent ==
    IF run.state = None THEN AllItems(session.messages) \cup AllItems(run.messages)
    ELSE run.state \cup AllItems(From(run.messages, run.boundary))

\* ProviderConversationStateController.checkpoint, of the messages r.
StateAfter(r) ==
    IF r.state = None THEN None
    ELSE r.state \cup AllItems(From(r.messages, r.boundary))

\* observe_response: a returned state covers the request and the answer.
Adopted(n, resumable) == IF resumable THEN Sent \cup {n} ELSE None

Answered(e, resumable) ==
    [run EXCEPT !.messages = Append(@, e),
                !.state = Adopted(<<e.role, e.id>>, resumable),
                !.boundary = IF resumable THEN Len(run.messages) + 1
                                          ELSE Len(run.messages),
                !.calls = @ + 1]

\* Follow-ups of the user become one message, joined to a user message that
\* is already last: when nothing follows the prompt, to the prompt itself.
Mergeable(msgs) == msgs = <<>> \/ Last(msgs).role = "user"

AppendInjected(msgs, S) ==
    LET said == S \ SubResults
        results == S \cap SubResults
        tail == IF results = {} THEN <<>> ELSE <<Hidden(results)>>
    IN IF said = {} THEN msgs \o tail
       ELSE IF msgs = <<>> THEN tail
       ELSE IF Last(msgs).role = "user"
            THEN [msgs EXCEPT ![Len(msgs)].has = @ \cup said] \o tail
       ELSE Append(msgs, User(said)) \o tail

\* The runner's messages after a drain of the queue.
Drained(r) ==
    IF followups = {} THEN r
    ELSE [r EXCEPT !.messages = AppendInjected(@, followups),
                   !.cycles = @ + 1]

CanDrain(r) == followups # {} /\ r.cycles < MaxCycles
Takes(msgs) ==
    /\ followups' = {}
    /\ taken' = taken \cup followups
    /\ joined' = IF Mergeable(msgs) THEN joined \cup (followups \ SubResults)
                 ELSE joined
NextStage(r) == IF r.calls < MaxCalls THEN "calling" ELSE "exhausted"

\* Fault: the checkpoint stays in memory.
CheckpointUnsaved(phase, n, r) ==
    /\ session' = [session EXCEPT !.checkpoint = [phase |-> phase, id |-> n]]
    /\ UNCHANGED file

\* _emit_checkpoint and _set_runtime_checkpoint: the last answer and its
\* results replace the earlier checkpoint; the provider's state is saved with
\* it except while a tool runs.
Checkpoint(phase, n, r) ==
    Save([session EXCEPT !.checkpoint = [phase |-> phase, id |-> n],
                         !.provider = IF phase = "awaiting_tools" THEN @
                                      ELSE StateAfter(r)])

\* The model asks for tools.
CallTools(resumable) ==
    /\ stage = "calling"
    /\ made' = made + 1
    /\ run' = Answered(Call(made'), resumable)
    /\ Checkpoint("awaiting_tools", made', run')
    /\ shown' = Append(shown, made')
    /\ stage' = "tools"
    /\ UNCHANGED <<input, followups, waiting, faults, taken, joined, kept,
                   excused>>

\* They ran: checkpoint, then a first look at the queue.
ToolsDone ==
    /\ stage = "tools"
    /\ LET r == [run EXCEPT !.messages = Append(@, Result(made, FALSE))]
       IN /\ Checkpoint("tools_completed", made, r)
          /\ IF CanDrain(r) THEN run' = Drained(r) /\ Takes(r.messages)
             ELSE run' = r /\ UNCHANGED <<followups, taken, joined>>
          /\ stage' = NextStage(r)
    /\ UNCHANGED <<input, waiting, made, faults, shown, kept, excused>>

\* A tool failed fatally: its result and a notice, no checkpoint.
ToolsFail ==
    /\ stage = "tools"
    /\ run' = [run EXCEPT !.messages = @ \o <<Result(made, FALSE), Notice>>]
    /\ stage' = "errored"
    /\ UNCHANGED <<file, session, input, followups, waiting, made, faults,
                   history>>

\* The final answer.  Follow-ups that arrived meanwhile keep the turn going.
FinalAnswer(resumable) ==
    /\ stage = "calling"
    /\ made' = made + 1
    /\ LET r == Answered(Reply(made'), resumable)
       IN /\ Checkpoint("final_response", made', r)
          /\ IF CanDrain(r)
             THEN run' = Drained(r) /\ Takes(r.messages) /\ stage' = NextStage(r)
             ELSE run' = r /\ stage' = "ended" /\ UNCHANGED <<followups, taken, joined>>
    /\ shown' = Append(shown, made')
    /\ UNCHANGED <<input, waiting, faults, kept, excused>>

\* An error after all retries (a transient one keeps the provider's state),
\* or nothing but blanks.  Follow-ups are taken first, else a notice ends it.
NoAnswer(transient) ==
    /\ stage = "calling"
    /\ LET r == [run EXCEPT !.state = IF transient THEN StateAfter(run) ELSE None,
                            !.boundary = Len(run.messages),
                            !.calls = @ + 1]
       IN IF CanDrain(r)
          THEN /\ run' = Drained(r) /\ Takes(r.messages)
               /\ stage' = NextStage(r)
          ELSE /\ run' = [r EXCEPT !.messages =
                             IF @ # <<>> /\ Last(@).role \in {"assistant", "notice"}
                             THEN @ ELSE Append(@, Notice)]
               /\ stage' = "errored"
               /\ UNCHANGED <<followups, taken, joined>>
    /\ UNCHANGED <<file, session, input, waiting, made, faults, shown, kept,
                   excused>>

\* After an error the queue is looked at once more.
AfterError ==
    /\ stage = "errored"
    /\ IF CanDrain(run)
       THEN run' = Drained(run) /\ Takes(run.messages) /\ stage' = NextStage(run)
       ELSE stage' = "ended" /\ UNCHANGED <<run, followups, taken, joined>>
    /\ UNCHANGED <<file, session, input, waiting, made, faults, shown, kept,
                   excused>>

\* max_iterations: a last look, and a last text.
Exhausted ==
    /\ stage = "exhausted"
    /\ LET r == IF CanDrain(run) THEN Drained(run) ELSE run
       IN run' = [r EXCEPT !.messages = Append(@, Notice)]
    /\ IF CanDrain(run) THEN Takes(run.messages)
       ELSE UNCHANGED <<followups, taken, joined>>
    /\ stage' = "ended"
    /\ UNCHANGED <<file, session, input, waiting, made, faults, shown, kept,
                   excused>>
-----------------------------------------------------------------------------
(* The end of a turn *)

\* What is left in the queue is published again.
Leave ==
    /\ stage' = "idle" /\ input' = None /\ run' = NoRun
    /\ waiting' = waiting \cup followups
    /\ followups' = {}

Finished == [messages |-> session.messages \o run.messages,
             pending |-> FALSE, checkpoint |-> None,
             provider |-> StateAfter(run)]

\* _persist_turn
Persist ==
    /\ stage = "ended"
    /\ Save(Finished)
    /\ kept' = kept \cup taken
    /\ Leave
    /\ UNCHANGED <<made, faults, shown, taken, joined, excused>>

\* The write fails: the object has the turn, the file has not.
PersistFails ==
    /\ stage = "ended"
    /\ stops < MaxStops
    /\ stops' = stops + 1
    /\ session' = Finished
    /\ Leave
    /\ UNCHANGED <<file, made, crashes, history>>

\* The archive raises while the file cap trims the session: the turn is
\* appended, but neither its checkpoint nor its flag is cleared.
PersistAborts ==
    /\ stage = "ended"
    /\ stops < MaxStops
    /\ stops' = stops + 1
    /\ session' = [Finished EXCEPT !.pending = session.pending,
                                   !.checkpoint = session.checkpoint]
    /\ excused' = IF session.checkpoint # None /\ run.messages # <<>>
                     /\ Last(run.messages).role = "notice"
                  THEN excused \cup {session.checkpoint.id} ELSE excused
    /\ Leave
    /\ UNCHANGED <<file, made, crashes, shown, taken, joined, kept>>

\* /stop: the CancelledError handler restores the checkpoint.
Stop ==
    /\ stage # "idle"
    /\ stops < MaxStops
    /\ stops' = stops + 1
    /\ IF session.checkpoint = None THEN UNCHANGED <<file, session>>
       ELSE Save(Materialize(session))
    /\ Leave
    /\ UNCHANGED <<made, crashes, history>>

\* Any other exception leaves the session as it is.
Fail ==
    /\ stage # "idle"
    /\ stops < MaxStops
    /\ stops' = stops + 1
    /\ Leave
    /\ UNCHANGED <<file, session, made, crashes, history>>

\* The process dies; what waited in its queues is gone.
Crash ==
    /\ crashes < MaxCrashes
    /\ session # None
    /\ crashes' = crashes + 1
    /\ session' = None
    /\ stage' = "idle" /\ input' = None /\ run' = NoRun
    /\ followups' = {}
    /\ UNCHANGED <<file, waiting, made, stops, history>>

Quiescent ==
    /\ stage = "idle" /\ waiting = {}
    /\ UNCHANGED vars
-----------------------------------------------------------------------------
Next ==
    \/ \E i \in Inputs : Restore(i) \/ FollowUp(i)
    \/ Command \/ Build
    \/ \E b \in BOOLEAN : CallTools(b) \/ FinalAnswer(b) \/ NoAnswer(b)
    \/ ToolsDone \/ ToolsFail \/ AfterError \/ Exhausted
    \/ Persist \/ PersistFails \/ PersistAborts \/ Stop \/ Fail \/ Crash
    \/ Quiescent

Spec == Init /\ [][Next]_vars
-----------------------------------------------------------------------------
(* Properties *)

Holding(s, i) == {k \in DOMAIN s : i \in s[k].has}
Steps(s) == {k \in DOMAIN s : s[k].id # 0}

\* Every variable has its type.
TypeOK ==
    /\ stage \in Stages
    /\ input \in Inputs \cup {None}
    /\ (stage = "idle") = (input = None)
    /\ stage # "idle" => session # None
    /\ followups \cup waiting \cup taken \cup joined \cup kept \subseteq Inputs
    /\ made \in Nat
    /\ stops \in 0 .. MaxStops /\ crashes \in 0 .. MaxCrashes
    /\ run.calls \in 0 .. MaxCalls /\ run.cycles \in 0 .. MaxCycles

\* An input written before its turn, and a follow-up a turn took before it was
\* saved, is in the file once, whatever stops, failures and crashes follow and
\* however often the repair of a turn runs.  (A follow-up that was joined to
\* the prompt may be lost.)
InputsKept ==
    \A i \in kept \ joined : Cardinality(Holding(file.messages, i)) = 1

\* What a provider would refuse never gets into a session: every call is
\* followed by its result, every result has its call, and no answer and no
\* result is there twice, though checkpoint, repair and the save at the end of
\* the turn all write them.  (Except the last step before an error text when
\* the save was aborted between the two: the repair looks for it at the end.)
TranscriptLegal ==
    session # None =>
        LET s == session.messages
        IN \A k \in DOMAIN s :
               /\ s[k].role = "call" =>
                      k < Len(s) /\ s[k + 1].role = "tool" /\ s[k + 1].id = s[k].id
               /\ s[k].role = "tool" =>
                      k > 1 /\ s[k - 1].role = "call" /\ s[k - 1].id = s[k].id
               /\ \A j \in Steps(s) :
                      /\ k \in Steps(s) /\ s[k].id \notin excused
                      /\ s[j].id = s[k].id /\ s[j].role = s[k].role
                      => j = k

\* A turn starts on a closed transcript: no question without an answer, no
\* checkpoint and no open turn is left when the next prompt is built.
TurnClosed ==
    stage = "restored" =>
        /\ session.checkpoint = None /\ ~session.pending
        /\ session.messages # <<>> => Last(session.messages).role # "user"

\* The provider's state replaces the messages in the next request, so it must
\* know whatever they say: after a stop, a failure or a crash between two
\* checkpoints it does, or it was dropped.
StateCoversTranscript ==
    stage = "restored" /\ session.provider # None =>
        AllItems(session.messages) \ {<<"input", i>> : i \in joined}
            \subseteq session.provider

\* The last model answer that reached a checkpoint is in the session when the
\* next turn starts, though its turn was stopped, failed or died.
LastStepKept ==
    stage = "restored" /\ shown # <<>> =>
        \E k \in DOMAIN session.messages : session.messages[k].id = Last(shown)

\* The session a turn is built on: of its types, legal and closed.
SessionSound == TypeOK /\ TranscriptLegal /\ TurnClosed
=============================================================================
