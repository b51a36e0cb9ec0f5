---------------------------- MODULE SessionMemory ----------------------------
(***************************************************************************)
(* The memory of one session: its file, the Session objects that are loaded*)
(* from it, the cache that is to keep one of them live, and the history    *)
(* file, into which old messages are summarized.  Turns append; three kinds*)
(* of work archive behind them under one lock (a turn's own consolidation, *)
(* a background one after it, the compaction of an idle session) and await *)
(* the model while they hold an object; /new empties the session and the   *)
(* file cap trims it meanwhile.                                            *)
(* Code: session/manager.py, agent/memory.py (Consolidator),               *)
(* agent/autocompact.py, command/builtin.py (cmd_new).                     *)
(* A message is its number: the n-th that was said in the session.         *)
(***************************************************************************)
EXTENDS Integers, Sequences, FiniteSets, Functions

CONSTANTS
    MaxSaid,      \* bound: messages said
    MaxNew,       \* bound: uses of /new
    MaxFaults,    \* bound: crashes and writes of the history that fail
    FileCap,      \* FILE_MAX_MESSAGES
    Objects,      \* names of Session objects
    None

ASSUME ConstantsAssumption ==
    /\ MaxSaid \in Nat /\ MaxNew \in Nat /\ MaxFaults \in Nat
    /\ FileCap \in Nat \ {0}
    /\ None \notin Objects
    /\ IsFiniteSet(Objects) /\ Cardinality(Objects) >= 4

VARIABLES
    file,       \* messages and cursor (last_consolidated) on disk
    heap,       \* the same of each object
    cached,     \* the object the cache holds
    turn,       \* the running turn and its object
    job,        \* the archiving that holds the lock: object, captured batch
    background, \* a consolidation waits for the lock
    archiving,  \* a compaction was scheduled or runs
    snapshots,  \* what /new left to a task that archives it
    archived,   \* messages in the history file
    said, new, faults,
    since,      \* history: the messages said before the last /new
    twice,      \* history: messages archived again
    excused,    \* history: messages a crash may lose or archive twice
    raced       \* history: an object was overtaken, see below

turnVars == <<turn, background, archiving>>
history == <<since, excused, raced>>
counts == <<said, new, faults>>
vars == <<file, heap, cached, turn, job, background, archiving, snapshots,
          archived, said, new, faults, since, twice, excused, raced>>
-----------------------------------------------------------------------------
(* Sessions *)

Empty == [messages |-> <<>>, cursor |-> 0]

Unarchived(s) == Range(SubSeq(s.messages, s.cursor + 1, Len(s.messages)))

\* retain_recent_legal_suffix: k messages go, the cursor moves with them.
Trimmed(s, k) ==
    [messages |-> SubSeq(s.messages, k + 1, Len(s.messages)),
     cursor |-> IF s.cursor > k THEN s.cursor - k ELSE 0]

Excess(s) == IF Len(s.messages) > FileCap THEN Len(s.messages) - FileCap ELSE 0

\* What the cap drops that was not archived yet.
Dropped(s) == Unarchived(s) \cap Range(SubSeq(s.messages, 1, Excess(s)))

Archive(S) ==
    /\ archived' = archived \cup S
    /\ twice' = twice \cup (S \cap archived)

\* An object nothing refers to.
FreeObject ==
    CHOOSE o \in Objects : o # cached /\ (turn # None => o # turn.object)
                                      /\ (job # None => o # job.object)

\* get_or_create: the live object, else a new one with what the file says.
Current == IF cached # None THEN cached ELSE FreeObject
Loaded == IF cached # None THEN heap ELSE [heap EXCEPT ![Current] = file]

\* SessionManager.save of object o with content s: the cap is enforced, the
\* file replaced, the object cached.  S is archived on the way.
SaveWith(o, s, S) ==
    LET t == Trimmed(s, Excess(s))
    IN /\ heap' = [heap EXCEPT ![o] = t]
       /\ file' = t
       /\ cached' = o
       /\ Archive(S \cup Dropped(s))

\* An object is overtaken when it is trimmed under the job that uses it,
\* emptied by /new, or loaded a second time while a turn holds it.
Overtaken(o, s) == job # None /\ job.object = o /\ Excess(s) > 0

Init ==
    /\ file = Empty
    /\ heap = [o \in Objects |-> Empty]
    /\ cached = None
    /\ turn = None /\ job = None
    /\ background = FALSE /\ archiving = FALSE
    /\ snapshots = {}
    /\ archived = {} /\ twice = {}
    /\ said = 0 /\ new = 0 /\ faults = 0
    /\ since = 0
    /\ excused = {}
    /\ raced = FALSE
-----------------------------------------------------------------------------
(* Turns *)

\* A turn gets its object; a direct one (API, SDK) is not known to the sweep.
Begin(direct) ==
    /\ turn = None
    /\ said + 2 <= MaxSaid
    /\ heap' = Loaded /\ cached' = Current
    /\ turn' = [object |-> Current, stage |-> "begun", direct |-> direct]
    /\ UNCHANGED <<file, job, background, archiving, snapshots, archived,
                   counts, twice, history>>

\* The turn took the lock, and has nothing to consolidate.
Check ==
    /\ turn # None /\ turn.stage = "begun" /\ job = None
    /\ heap' = Loaded /\ cached' = Current
    /\ turn' = [turn EXCEPT !.stage = "checked"]
    /\ UNCHANGED <<file, job, background, archiving, snapshots, archived,
                   counts, twice, history>>

\* A message is appended to the turn's object, whatever the cache holds.
Say(stage) ==
    LET s == [heap[turn.object] EXCEPT !.messages = Append(@, said + 1)]
    IN /\ turn # None /\ turn.stage = stage
       /\ said' = said + 1
       /\ SaveWith(turn.object, s, {})
       /\ raced' = (raced \/ Overtaken(turn.object, s))
       /\ UNCHANGED <<job, archiving, snapshots, new, faults, since, excused>>

\* _persist_user_message_early
Ask == Say("checked") /\ turn' = [turn EXCEPT !.stage = "asked"]
                      /\ UNCHANGED background

\* _persist_turn; a consolidation follows in the background.
Answer == Say("asked") /\ turn' = None /\ background' = TRUE
-----------------------------------------------------------------------------
(* Archiving *)

\* The batch a job captures, and where the cursor goes when it is archived.
Job(kind, o, s, e) ==
    [kind |-> kind, object |-> o, end |-> e,
     batch |-> {s.messages[k] : k \in s.cursor + 1 .. e}]

Boundaries(s) == s.cursor + 1 .. Len(s.messages)

\* maybe_consolidate_by_tokens holds the lock and asks for a summary of a
\* prefix of what is not archived yet.
Consolidate(kind) ==
    /\ job = None
    /\ heap' = Loaded /\ cached' = Current
    /\ \E e \in Boundaries(heap'[Current]) :
           job' = Job(kind, Current, heap'[Current], e)
    /\ UNCHANGED <<file, snapshots, archived, counts, twice, history>>

ConsolidateInTurn ==
    /\ turn # None /\ turn.stage = "begun"
    /\ Consolidate("turn")
    /\ UNCHANGED turnVars

ConsolidateInBackground ==
    /\ background
    /\ Consolidate("background")
    /\ background' = FALSE
    /\ UNCHANGED <<turn, archiving>>

\* check_expired leaves alone the sessions with a turn from the bus.
Idle == turn # None => turn.direct

Expire ==
    /\ ~archiving
    /\ Idle
    /\ heap' = Loaded /\ cached' = Current
    /\ Unarchived(heap'[Current]) # {}
    /\ archiving' = TRUE
    /\ UNCHANGED <<file, turn, job, background, snapshots, archived, counts,
                   twice, history>>

\* compact_idle_session: the cached object is dropped, another is loaded, and
\* all of its tail captured.
Compact ==
    /\ archiving /\ job = None
    /\ LET o == FreeObject
       IN /\ heap' = [heap EXCEPT ![o] = file]
          /\ cached' = o
          /\ IF Unarchived(file) = {}
             THEN archiving' = FALSE /\ UNCHANGED job
             ELSE /\ job' = Job("idle", o, file, Len(file.messages))
                  /\ UNCHANGED archiving
    /\ raced' = (raced \/ turn # None)
    /\ UNCHANGED <<file, turn, background, snapshots, archived, counts, since,
                   twice, excused>>

\* Fault: a turn may have appended; all of it is taken for archived.
AdvancedAll(s) == [s EXCEPT !.cursor = Len(s.messages)]

\* Fault: the cursor moves only when there is a summary.
AdvancedNot(s) == s

\* The cursor moves through the captured batch only.
Advanced(s) == [s EXCEPT !.cursor = job.end]

\* The turn's own consolidation is over.
JobDone ==
    /\ turn' = IF job.kind = "turn" THEN [turn EXCEPT !.stage = "checked"]
               ELSE turn
    /\ archiving' = (archiving /\ job.kind # "idle")

\* The summary, or after an error the raw text, is in the history; then the
\* cursor is saved.  Token consolidation may go on with another batch.
Archived ==
    /\ job # None
    /\ SaveWith(job.object, Advanced(heap[job.object]), job.batch)
    /\ \/ job' = None /\ JobDone
       \/ /\ job.kind # "idle"
          /\ \E e \in Boundaries(file') :
                 job' = Job(job.kind, job.object, file', e)
          /\ UNCHANGED <<turn, archiving>>
    /\ UNCHANGED <<background, snapshots, counts, history>>

\* The history cannot be written: the job ends, and with it its turn.
ArchiveFails ==
    /\ job # None /\ faults < MaxFaults
    /\ faults' = faults + 1
    /\ job' = None
    /\ turn' = IF job.kind = "turn" THEN None ELSE turn
    /\ archiving' = (archiving /\ job.kind # "idle")
    /\ UNCHANGED <<file, heap, cached, background, snapshots, archived, said,
                   new, twice, history>>
-----------------------------------------------------------------------------
(* /new *)

SnapshotOf(s) == Unarchived(s)

\* Fault: the object is emptied, the file is not.
EmptiedUnsaved == UNCHANGED file

EmptiedSaved == file' = Empty

\* cmd_new: the turn is cancelled, background work is not; the session is
\* emptied, saved and dropped from the cache, its tail archived later.
New ==
    /\ new < MaxNew
    /\ (turn # None => ~turn.direct)
    /\ LET S == SnapshotOf(Loaded[Current])
       IN /\ heap' = [Loaded EXCEPT ![Current] = Empty]
          /\ snapshots' = IF S = {} THEN snapshots ELSE snapshots \cup {S}
    /\ new' = new + 1
    /\ since' = said
    /\ EmptiedSaved /\ cached' = None
    /\ turn' = None
    /\ job' = IF job # None /\ job.kind = "turn" THEN None ELSE job
    /\ raced' = (raced \/ job' # None)
    /\ UNCHANGED <<background, archiving, archived, said, faults, twice, excused>>

SnapshotArchived ==
    \E S \in snapshots :
        /\ snapshots' = snapshots \ {S}
        /\ Archive(S)
        /\ UNCHANGED <<file, heap, cached, turnVars, job, counts, history>>

\* Fault: the cache forgets an object that is in use.
EvictableAlways == cached # None

\* An object that falls out of the cache stays the live one while it is used.
Evictable == cached # None /\ turn = None /\ job = None

Evict ==
    /\ Evictable
    /\ cached' = None
    /\ UNCHANGED <<file, heap, turnVars, job, snapshots, archived, counts,
                   twice, history>>

\* The process dies, perhaps between the history and the cursor; what /new
\* left to its task is gone.
Crash ==
    /\ faults < MaxFaults
    /\ faults' = faults + 1
    /\ heap' = [o \in Objects |-> Empty]
    /\ cached' = None /\ turn' = None /\ job' = None
    /\ background' = FALSE /\ archiving' = FALSE /\ snapshots' = {}
    /\ \/ UNCHANGED <<archived, twice>> /\ excused' = excused \cup UNION snapshots
       \/ /\ job # None /\ Archive(job.batch)
          /\ excused' = excused \cup job.batch \cup UNION snapshots
    /\ UNCHANGED <<file, said, new, since, raced>>
Quiescent ==
    /\ turn = None /\ job = None /\ snapshots = {}
    /\ UNCHANGED vars
-----------------------------------------------------------------------------
Next ==
    \/ \E d \in BOOLEAN : Begin(d)
    \/ Check \/ Ask \/ Answer
    \/ ConsolidateInTurn \/ ConsolidateInBackground \/ Expire \/ Compact
    \/ Archived \/ ArchiveFails
    \/ New \/ SnapshotArchived \/ Evict \/ Crash \/ Quiescent

Spec == Init /\ [][Next]_vars
-----------------------------------------------------------------------------
(* Properties *)

\* Every variable has its type.
TypeOK ==
    /\ cached \in Objects \cup {None}
    /\ turn # None => turn.object \in Objects /\ turn.stage \in {"begun", "checked", "asked"}
    /\ job # None => job.object \in Objects /\ job.kind \in {"turn", "background", "idle"}
    /\ Len(file.messages) <= FileCap /\ file.cursor \in Nat
    /\ said \in 0 .. MaxSaid /\ new \in 0 .. MaxNew /\ faults \in 0 .. MaxFaults

\* Every message is in the session, where the next archiving finds it, or in
\* the history, or with the task /new started: however turns, archiving, the
\* cap and crashes interleave.
NothingLost ==
    ~raced => 1 .. said \subseteq Unarchived(file) \cup archived
                                  \cup (UNION snapshots) \cup excused

\* None is archived twice, save where a crash hit between history and cursor.
ArchivedOnce == ~raced => twice \subseteq excused

\* While an object is in use it is the one the cache hands out, and it says
\* what the file says: no two live copies of a session drift apart.
OneLiveObject ==
    ~raced => /\ turn # None => turn.object = cached
              /\ job # None => job.object = cached
              /\ cached # None => heap[cached] = file

\* After /new the session holds nothing that was said before it.
FreshUnlessRaced == ~raced => \A k \in DOMAIN file.messages : file.messages[k] > since

\* Nothing is missing from session and history, and nothing is there twice.
ArchivedExactly == NothingLost /\ ArchivedOnce

\* The cache and the objects it handed out: of their types, and no two live.
CacheSound == TypeOK /\ OneLiveObject
=============================================================================
