------------------------ MODULE BackgroundWorkProofs ------------------------
(***************************************************************************)
(* Exec sessions, sub-agents, /stop and the shutdown for every set of      *)
(* sessions and sub-agents and every bound: the pools are sound, output is *)
(* kept, and a /stop and a shutdown leave nothing running but what could   *)
(* not be killed.  A step is split into what it does to the sessions       *)
(* (Later, Steady, Held), to the calls (Stepped, Moves) and to the tasks   *)
(* (Calm); each part of the invariant has a lemma that says which of these *)
(* keeps it (StopFrame, CloseFrame, PoolFrame, CallFrame), and the actions *)
(* are proved from those.                                                  *)
(***************************************************************************)
EXTENDS BackgroundWork, FiniteSetTheorems, TLAPS

Places == {"locked", "spawning", "reaping", "cleaning", "feeding", "waiting", "grace", "eof", "popping"}

ExecCalls == [op : {"start", "write", "list"}, at : Places, exec : Nat, reaped : Nat, idle : SUBSET Nat]
InlineCalls == [at : {"inline"}, sub : Subs]

Allowance == [turns : [Keys -> Nat], subs : SUBSET Subs, starts : Nat, writes : Nat, faults : Nat,
              idle : Nat, overdue : Nat]

\* The sessions that count towards max_sessions.
Counted(m) == {e \in Pooled(m) : ~exec[e].failed}

\* The tasks: each of its type, bounded and announced once.
TaskInv ==
    /\ alive \in [Tasks -> Keys \cup {None}]
    /\ \A k \in Keys : alive[k] \in {None, k}
    /\ left \in Allowance
    /\ inline \subseteq Subs \ left.subs
    /\ inbound \subseteq Subs \ left.subs
    /\ Running \cap left.subs = {}
    /\ inbound \cap (inline \cup Running) = {}
    /\ IsFiniteSet(Running) /\ Cardinality(Running) <= MaxSubs

\* What a call knows: its place, the lock it holds and the sessions it names.
CallSound(t) ==
    /\ alive[t] # None
    /\ call[t].at # "inline" =>
          /\ call[t] \in ExecCalls
          /\ call[t].op = "write" \/ call[t].at \in {"feeding", "waiting", "grace", "eof", "popping"}
                => call[t].exec \in Execs
          /\ call[t].idle \subseteq Execs
          /\ call[t].at \in {"spawning", "reaping", "cleaning"} => lock[ManagerOf(t)] = t
          /\ call[t].at = "spawning" => Cardinality(Counted(ManagerOf(t))) < MaxSessions
          /\ call[t].at = "popping" => ~exec[call[t].exec].runs
          /\ call[t].at = "reaping" =>
                call[t].reaped \in Execs /\ ~exec[call[t].reaped].runs

CallInv ==
    /\ call \in [Tasks -> InlineCalls \cup ExecCalls \cup {None}]
    /\ lock \in [Managers -> Tasks \cup {None}]
    /\ \A m \in Managers : lock[m] # None => ManagerOf(lock[m]) = m
    /\ \A t \in Tasks : call[t] # None => CallSound(t)

\* Nothing is written after the exit, and the answer that reports the exit
\* leaves nothing behind.
Drained(x) == x.done => ~x.runs /\ (~x.late => x.pipe + x.buffer = 0)

BackOf(r) == IF r = None THEN {} ELSE r.back

\* Every session is drained, and one that runs outside its pool is about to
\* be put back into it.
PoolInv ==
    /\ exec \in Seq(Execution)
    /\ \A m \in Managers : Cardinality(Counted(m)) <= MaxSessions
    /\ \A e \in Execs : Drained(exec[e])
    /\ \A e \in Execs : exec[e].runs /\ ~exec[e].pooled =>
          exec[e].failed /\ e \in BackOf(stop) \cup BackOf(closing)

Survivors == {e \in Execs : exec[e].failed}

\* The processes of manager m, all of them or those of k, have been ended.
AllEnded(m) == \A e \in Execs : exec[e].manager = m /\ exec[e].runs => exec[e].failed
EndedOf(m, k) == \A e \in Execs :
    exec[e].manager = m /\ exec[e].owner = k /\ exec[e].runs => exec[e].failed

StopInv == stop # None =>
    /\ stop \in [key : Keys, at : {"cancel", "subs", "turns", "done"}, back : SUBSET Survivors]
    /\ stop.at \in {"cancel", "done"} => stop.back = {}
    /\ alive[stop.key] = None
    /\ stop.at # "cancel" => \A t \in Tasks : alive[t] # stop.key
    /\ stop.at \in {"turns", "done"} => EndedOf("subs", stop.key)
    /\ stop.at = "done" => EndedOf("turns", stop.key)

CloseInv == closing # None =>
    /\ closing \in [at : {"cancel", "cancelsubs", "subs", "turns", "done"}, back : SUBSET Survivors,
                    round : {1, 2}, asked : BOOLEAN]
    /\ closing.at \in {"cancel", "cancelsubs", "done"} => closing.back = {}
    /\ closing.at # "cancel" => \A k \in Keys : alive[k] = None
    /\ closing.at \in {"subs", "turns", "done"} => \A t \in Tasks : alive[t] = None
    /\ closing.at \in {"turns", "done"} \/ closing.back # {} => AllEnded("subs")
    /\ closing.at = "done" \/ (closing.at = "turns" /\ closing.back # {}) => AllEnded("turns")

IInv == TaskInv /\ CallInv /\ PoolInv /\ StopInv /\ CloseInv
-----------------------------------------------------------------------------
(* Steps of the exec sessions *)

\* What a step may make of a session.
Later(x, y) ==
    /\ y \in Execution /\ y.owner = x.owner /\ y.manager = x.manager
    /\ x.failed => y.failed
    /\ y.runs => x.runs
    /\ Drained(x) => Drained(y)
    /\ y.pooled => x.pooled \/ x.failed

\* No session is started, and one that runs is not dropped.
Steady == exec' \in Seq(Execution) /\ Len(exec') = Len(exec)
          /\ \A e \in Execs : Later(exec[e], exec'[e])
Held == \A e \in Execs : exec[e].pooled /\ exec'[e].runs => exec'[e].pooled

\* Nothing but a start makes the sequence longer.
Onward ==
    /\ exec' \in Seq(Execution) /\ Len(exec) <= Len(exec')
    /\ \A e \in Execs : Later(exec[e], exec'[e])
    /\ \A e \in 1 .. Len(exec') : e \in Execs \/ \E t \in Tasks : alive[t] # None /\ exec'[e].owner = alive[t]

LEMMA ExecFacts ==
    ASSUME exec \in Seq(Execution)
    PROVE  /\ Len(exec) \in Nat /\ Execs = 1 .. Len(exec) /\ DOMAIN exec = Execs
           /\ \A e \in Execs : exec[e] \in Execution /\ e \in Nat
           /\ IsFiniteSet(Execs)
           /\ \A m : IsFiniteSet(Pooled(m)) /\ IsFiniteSet(Counted(m))
  <1>1. Len(exec) \in Nat /\ Execs = 1 .. Len(exec) /\ DOMAIN exec = Execs
        /\ \A e \in Execs : exec[e] \in Execution /\ e \in Nat
    BY DEF Execs
  <1>2. IsFiniteSet(Execs)
    BY <1>1, FS_Interval
  <1>3. ASSUME NEW m PROVE IsFiniteSet(Pooled(m)) /\ IsFiniteSet(Counted(m))
    <2>1. Pooled(m) \subseteq Execs /\ Counted(m) \subseteq Execs
      BY DEF Pooled, Counted
    <2>. QED BY <1>2, <2>1, FS_Subset
  <1>. QED BY <1>1, <1>2, <1>3

\* A step that changes the sessions one by one.
LEMMA SteadyBy ==
    ASSUME exec \in Seq(Execution), exec' = [e \in Execs |-> exec'[e]],
           \A e \in Execs : Later(exec[e], exec'[e])
    PROVE  Steady
  <1>1. \A e \in Execs : exec'[e] \in Execution
    BY DEF Later
  <1>2. exec' \in [1 .. Len(exec) -> Execution]
    BY <1>1 DEF Execs
  <1>3. exec' \in Seq(Execution) /\ Len(exec') = Len(exec)
    BY <1>2
  <1>. QED BY <1>3 DEF Steady

\* No more sessions are counted than before.
LEMMA CountedShrinks ==
    ASSUME exec \in Seq(Execution), Steady, NEW m
    PROVE  Cardinality(Counted(m)') <= Cardinality(Counted(m))
           /\ Cardinality(Counted(m)) \in Nat /\ Cardinality(Counted(m)') \in Nat
  <1>1. IsFiniteSet(Counted(m))
    BY ExecFacts
  <1>2. Counted(m)' \subseteq Counted(m)
    <2>. SUFFICES ASSUME NEW e \in Execs, exec'[e].manager = m, exec'[e].pooled, ~exec'[e].failed
                  PROVE  e \in Counted(m)
      BY DEF Counted, Pooled, Steady, Execs
    <2>. QED BY DEF Steady, Later, Counted, Pooled
  <1>. QED BY <1>1, <1>2, FS_Subset, FS_CardinalityType

LEMMA LaterSame ==
    ASSUME NEW x \in Execution
    PROVE  Later(x, x)
  BY DEF Later

\* What the actions make of a session.
LEMMA LaterKilled ==
    ASSUME NEW x \in Execution
    PROVE  Later(x, [x EXCEPT !.failed = TRUE]) /\ Later(x, [x EXCEPT !.runs = FALSE])
  <1>1. Later(x, [x EXCEPT !.failed = TRUE])
    <2>. DEFINE y == [x EXCEPT !.failed = TRUE]
    <2>1. /\ y \in Execution /\ y.owner = x.owner /\ y.manager = x.manager /\ y.pooled = x.pooled
          /\ y.failed = TRUE /\ y.runs = x.runs /\ y.done = x.done /\ y.late = x.late
          /\ y.pipe = x.pipe /\ y.buffer = x.buffer
      BY DEF Execution
    <2>. HIDE DEF y
    <2>2. Later(x, y)
      BY <2>1 DEF Later, Drained
    <2>. QED BY <2>2 DEF y
  <1>2. Later(x, [x EXCEPT !.runs = FALSE])
    <2>. DEFINE y == [x EXCEPT !.runs = FALSE]
    <2>1. /\ y \in Execution /\ y.owner = x.owner /\ y.manager = x.manager /\ y.pooled = x.pooled
          /\ y.failed = x.failed /\ y.runs = FALSE /\ y.done = x.done /\ y.late = x.late
          /\ y.pipe = x.pipe /\ y.buffer = x.buffer
      BY DEF Execution
    <2>. HIDE DEF y
    <2>2. Later(x, y)
      BY <2>1 DEF Later, Drained
    <2>. QED BY <2>2 DEF y
  <1>. QED BY <1>1, <1>2

LEMMA LaterMarked ==
    ASSUME NEW x \in Execution, NEW b \in BOOLEAN
    PROVE  Later(x, [x EXCEPT !.idle = b]) /\ Later(x, [x EXCEPT !.overdue = b])
  <1>1. Later(x, [x EXCEPT !.idle = b])
    <2>. DEFINE y == [x EXCEPT !.idle = b]
    <2>1. /\ y \in Execution /\ y.owner = x.owner /\ y.manager = x.manager /\ y.pooled = x.pooled
          /\ y.failed = x.failed /\ y.runs = x.runs /\ y.done = x.done /\ y.late = x.late
          /\ y.pipe = x.pipe /\ y.buffer = x.buffer
      BY DEF Execution
    <2>. HIDE DEF y
    <2>2. Later(x, y)
      BY <2>1 DEF Later, Drained
    <2>. QED BY <2>2 DEF y
  <1>2. Later(x, [x EXCEPT !.overdue = b])
    <2>. DEFINE y == [x EXCEPT !.overdue = b]
    <2>1. /\ y \in Execution /\ y.owner = x.owner /\ y.manager = x.manager /\ y.pooled = x.pooled
          /\ y.failed = x.failed /\ y.runs = x.runs /\ y.done = x.done /\ y.late = x.late
          /\ y.pipe = x.pipe /\ y.buffer = x.buffer
      BY DEF Execution
    <2>. HIDE DEF y
    <2>2. Later(x, y)
      BY <2>1 DEF Later, Drained
    <2>. QED BY <2>2 DEF y
  <1>. QED BY <1>1, <1>2

LEMMA LaterPooled ==
    ASSUME NEW x \in Execution, NEW in \in BOOLEAN, in => x.failed
    PROVE  Later(x, [x EXCEPT !.pooled = in])
  <1>. DEFINE y == [x EXCEPT !.pooled = in]
  <1>1. /\ y \in Execution /\ y.owner = x.owner /\ y.manager = x.manager /\ y.pooled = in
        /\ y.failed = x.failed /\ y.runs = x.runs /\ y.done = x.done /\ y.late = x.late
        /\ y.pipe = x.pipe /\ y.buffer = x.buffer
    BY DEF Execution
  <1>. HIDE DEF y
  <1>2. Later(x, y)
    BY <1>1 DEF Later, Drained
  <1>. QED BY <1>2 DEF y

LEMMA LaterWritten ==
    ASSUME NEW x \in Execution, x.runs
    PROVE  Later(x, [x EXCEPT !.pipe = @ + 1])
  <1>. DEFINE n == x.pipe + 1
              y == [x EXCEPT !.pipe = n]
  <1>0. n \in Nat
    BY DEF Execution
  <1>. HIDE DEF n
  <1>1. /\ y \in Execution /\ y.owner = x.owner /\ y.manager = x.manager /\ y.pooled = x.pooled
        /\ y.failed = x.failed /\ y.runs = x.runs /\ y.done = x.done /\ y.late = x.late
    BY <1>0 DEF Execution
  <1>. HIDE DEF y
  <1>2. Later(x, y)
    BY <1>1 DEF Later, Drained
  <1>. QED BY <1>2 DEF y, n

LEMMA LaterRead ==
    ASSUME NEW x \in Execution
    PROVE  Later(x, [x EXCEPT !.buffer = @ + x.pipe, !.pipe = 0])
  <1>. DEFINE y == [x EXCEPT !.buffer = @ + x.pipe, !.pipe = 0]
  <1>1. x.pipe \in Nat /\ x.buffer \in Nat /\ x.buffer + x.pipe \in Nat
    BY DEF Execution
  <1>2. /\ y \in Execution /\ y.owner = x.owner /\ y.manager = x.manager /\ y.pooled = x.pooled
        /\ y.failed = x.failed /\ y.runs = x.runs /\ y.done = x.done /\ y.late = x.late
        /\ y.buffer = x.buffer + x.pipe /\ y.pipe = 0
    BY <1>1 DEF Execution
  <1>. HIDE DEF y
  <1>3. y.pipe + y.buffer = x.pipe + x.buffer
    BY <1>1, <1>2
  <1>4. Drained(x) => Drained(y)
    BY <1>2, <1>3 DEF Drained
  <1>5. Later(x, y)
    BY <1>2, <1>4 DEF Later
  <1>. QED BY <1>5 DEF y

\* The answer of a poll.
LEMMA LaterAnswered ==
    ASSUME NEW x \in Execution, NEW late \in BOOLEAN,
           ~x.runs => late \/ x.pipe = 0
    PROVE  Later(x, [x EXCEPT !.buffer = 0, !.done = ~x.runs, !.late = @ \/ late])
  <1>. DEFINE d == ~x.runs
              l == x.late \/ late
              y == [x EXCEPT !.buffer = 0, !.done = d, !.late = l]
  <1>1. d \in BOOLEAN /\ l \in BOOLEAN
    OBVIOUS
  <1>2. (d => ~x.runs) /\ (d /\ ~l => x.pipe = 0)
    OBVIOUS
  <1>. HIDE DEF d, l
  <1>3. /\ y \in Execution /\ y.owner = x.owner /\ y.manager = x.manager /\ y.pooled = x.pooled
        /\ y.failed = x.failed /\ y.runs = x.runs /\ y.done = d /\ y.late = l
        /\ y.buffer = 0 /\ y.pipe = x.pipe
    BY <1>1 DEF Execution
  <1>. HIDE DEF y
  <1>4. Drained(y)
    BY <1>2, <1>3 DEF Drained
  <1>5. Later(x, y)
    BY <1>3, <1>4 DEF Later
  <1>. QED BY <1>5 DEF y, d, l

\* Two changes in a row.
LEMMA LaterTwice ==
    ASSUME NEW x, NEW y, NEW z, Later(x, y), Later(y, z), z.pooled => y.pooled
    PROVE  Later(x, z)
  BY DEF Later

\* What killing the sessions E makes of them, F being refused.
LEMMA KilledFacts ==
    ASSUME exec \in Seq(Execution), NEW E \in SUBSET Execs, NEW F \in Refused(E)
    PROVE  /\ Killed(E, F) = [e \in Execs |-> Killed(E, F)[e]]
           /\ \A e \in Execs : /\ Later(exec[e], Killed(E, F)[e])
                               /\ Killed(E, F)[e].pooled = exec[e].pooled
           /\ \A e \in E : Killed(E, F)[e].runs => e \in F
           /\ \A e \in F : Killed(E, F)[e].failed
           /\ F \subseteq E
  <1>. DEFINE K == Killed(E, F)
  <1>1. K = [e \in Execs |-> K[e]]
    BY DEF Killed
  <1>2. F \subseteq E
    BY DEF Refused
  <1>3. ASSUME NEW e \in Execs
        PROVE  /\ Later(exec[e], K[e]) /\ K[e].pooled = exec[e].pooled
               /\ e \in F => K[e].failed
               /\ e \in E /\ e \notin F => ~K[e].runs
    <2>0. exec[e] \in Execution
      BY ExecFacts
    <2>1. CASE e \in F
      <3>1. K[e] = [exec[e] EXCEPT !.failed = TRUE]
        BY <2>1 DEF Killed
      <3>2. K[e].pooled = exec[e].pooled /\ K[e].failed = TRUE
        BY <2>0, <3>1 DEF Execution
      <3>3. Later(exec[e], K[e])
        BY <2>0, <3>1, LaterKilled
      <3>. QED BY <2>1, <3>2, <3>3
    <2>2. CASE e \in E /\ e \notin F
      <3>1. K[e] = [exec[e] EXCEPT !.runs = FALSE]
        BY <2>2 DEF Killed
      <3>2. K[e].pooled = exec[e].pooled /\ K[e].runs = FALSE
        BY <2>0, <3>1 DEF Execution
      <3>3. Later(exec[e], K[e])
        BY <2>0, <3>1, LaterKilled
      <3>. QED BY <2>2, <3>2, <3>3
    <2>3. CASE e \notin E /\ e \notin F
      <3>1. K[e] = exec[e]
        BY <2>3 DEF Killed
      <3>. QED BY <2>0, <2>3, <3>1, LaterSame
    <2>. QED BY <2>1, <2>2, <2>3
  <1>. HIDE DEF K
  <1>. QED BY <1>1, <1>2, <1>3 DEF K

\* What the refusals leave of the bound on them.
LEMMA FaultsLeft ==
    ASSUME exec \in Seq(Execution), left \in Allowance, NEW E \in SUBSET Execs, NEW F \in Refused(E)
    PROVE  LET l == [left EXCEPT !.faults = @ - Cardinality(F)]
           IN l \in Allowance /\ l.subs = left.subs
  <1>1. F \subseteq Execs /\ Cardinality(F) <= left.faults
    BY DEF Refused
  <1>2. Cardinality(F) \in Nat
    BY <1>1, ExecFacts, FS_Subset, FS_CardinalityType
  <1>3. left.faults \in Nat
    BY DEF Allowance
  <1>. DEFINE n == left.faults - Cardinality(F)
  <1>4. n \in Nat
    BY <1>1, <1>2, <1>3
  <1>. HIDE DEF n
  <1>5. [left EXCEPT !.faults = n] \in Allowance /\ [left EXCEPT !.faults = n].subs = left.subs
    BY <1>4 DEF Allowance
  <1>. QED BY <1>5 DEF n

\* Killing keeps every session in its pool.
LEMMA KillSteady ==
    ASSUME exec \in Seq(Execution), NEW E \in SUBSET Execs, NEW F \in Refused(E),
           exec' = Killed(E, F)
    PROVE  Steady /\ Held /\ \A e \in E : exec'[e].runs => e \in F
  <1>1. Steady
    BY KilledFacts, SteadyBy
  <1>. QED BY <1>1, KilledFacts DEF Held, Later

\* One session changes.
LEMMA OneSteady ==
    ASSUME exec \in Seq(Execution), NEW e \in Execs, NEW next,
           exec' = [exec EXCEPT ![e] = next],
           Later(exec[e], next), exec[e].pooled /\ next.runs => next.pooled
    PROVE  Steady /\ Held /\ exec'[e] = next /\ \A d \in Execs \ {e} : exec'[d] = exec[d]
  <1>1. DOMAIN exec = Execs /\ \A d \in Execs : exec[d] \in Execution
    BY ExecFacts
  <1>2. exec'[e] = next /\ \A d \in Execs \ {e} : exec'[d] = exec[d]
    BY <1>1
  <1>3. exec' = [d \in Execs |-> exec'[d]]
    BY <1>1
  <1>4. \A d \in Execs : Later(exec[d], exec'[d])
    BY <1>1, <1>2, LaterSame
  <1>5. Steady
    BY <1>3, <1>4, SteadyBy
  <1>. QED BY <1>2, <1>5 DEF Held

\* Sessions that have exited leave the pool.
LEMMA PopSteady ==
    ASSUME exec \in Seq(Execution), NEW E \in SUBSET Execs, \A e \in E : ~exec[e].runs,
           exec' = WithPool(exec, E, FALSE)
    PROVE  Steady /\ Held
  <1>1. DOMAIN exec = Execs /\ \A d \in Execs : exec[d] \in Execution
    BY ExecFacts
  <1>2. exec' = [d \in Execs |-> exec'[d]]
    BY <1>1 DEF WithPool
  <1>3. ASSUME NEW d \in Execs
        PROVE  Later(exec[d], exec'[d]) /\ (exec[d].pooled /\ exec'[d].runs => exec'[d].pooled)
    <2>1. CASE d \in E
      <3>1. exec'[d] = [exec[d] EXCEPT !.pooled = FALSE]
        BY <1>1, <2>1 DEF WithPool
      <3>2. exec'[d].runs = exec[d].runs
        BY <1>1, <3>1 DEF Execution
      <3>. QED BY <1>1, <2>1, <3>1, <3>2, LaterPooled
    <2>2. CASE d \notin E
      <3>1. exec'[d] = exec[d]
        BY <1>1, <2>2 DEF WithPool
      <3>. QED BY <1>1, <3>1, LaterSame
    <2>. QED BY <2>1, <2>2
  <1>4. Steady
    BY <1>2, <1>3, SteadyBy
  <1>. QED BY <1>3, <1>4 DEF Held

\* Survivors go back to the pool.
LEMMA BackSteady ==
    ASSUME exec \in Seq(Execution), NEW E \in SUBSET Survivors,
           exec' = WithPool(exec, E, TRUE)
    PROVE  Steady /\ Held /\ \A e \in E : exec'[e].pooled
  <1>1. DOMAIN exec = Execs /\ \A d \in Execs : exec[d] \in Execution
    BY ExecFacts
  <1>2. exec' = [d \in Execs |-> exec'[d]]
    BY <1>1 DEF WithPool
  <1>3. ASSUME NEW d \in Execs
        PROVE  /\ Later(exec[d], exec'[d]) /\ (exec[d].pooled /\ exec'[d].runs => exec'[d].pooled)
               /\ d \in E => exec'[d].pooled
    <2>1. CASE d \in E
      <3>1. exec'[d] = [exec[d] EXCEPT !.pooled = TRUE] /\ exec[d].failed
        BY <1>1, <2>1 DEF WithPool, Survivors
      <3>2. exec'[d].pooled = TRUE
        BY <1>1, <3>1 DEF Execution
      <3>. QED BY <1>1, <2>1, <3>1, <3>2, LaterPooled
    <2>2. CASE d \notin E
      <3>1. exec'[d] = exec[d]
        BY <1>1, <2>2 DEF WithPool
      <3>. QED BY <1>1, <2>2, <3>1, LaterSame
    <2>. QED BY <2>1, <2>2
  <1>4. Steady
    BY <1>2, <1>3, SteadyBy
  <1>5. E \subseteq Execs
    BY DEF Survivors
  <1>. QED BY <1>3, <1>4, <1>5 DEF Held

\* The sessions E leave the pool and are killed.
LEMMA TerminateSteady ==
    ASSUME exec \in Seq(Execution), NEW E \in SUBSET Execs, NEW F \in Refused(E),
           exec' = WithPool(Killed(E, F), E, FALSE)
    PROVE  /\ Steady
           /\ \A e \in F : exec'[e].failed
           /\ \A e \in E : exec'[e].runs => e \in F
           /\ \A e \in Execs \ E : exec[e].pooled => exec'[e].pooled
  <1>. DEFINE K == Killed(E, F)
  <1>0. /\ K = [e \in Execs |-> K[e]]
        /\ \A e \in Execs : Later(exec[e], K[e]) /\ K[e].pooled = exec[e].pooled
        /\ \A e \in E : K[e].runs => e \in F
        /\ \A e \in F : K[e].failed
        /\ F \subseteq E
    BY KilledFacts
  <1>. HIDE DEF K
  <1>1. exec' = [e \in Execs |-> IF e \in E THEN [K[e] EXCEPT !.pooled = FALSE] ELSE K[e]]
    BY <1>0 DEF WithPool, K
  <1>2. exec' = [d \in Execs |-> exec'[d]]
    BY <1>1
  <1>3. ASSUME NEW e \in E
        PROVE  /\ Later(exec[e], exec'[e])
               /\ exec'[e].runs = K[e].runs /\ exec'[e].failed = K[e].failed
    <2>1. exec'[e] = [K[e] EXCEPT !.pooled = FALSE]
      BY <1>1
    <2>2. K[e] \in Execution /\ Later(exec[e], K[e])
      BY <1>0 DEF Later
    <2>3. Later(K[e], exec'[e])
      BY <2>1, <2>2, LaterPooled
    <2>4. exec'[e].pooled = FALSE /\ exec'[e].runs = K[e].runs /\ exec'[e].failed = K[e].failed
      BY <2>1, <2>2 DEF Execution
    <2>. QED BY <2>2, <2>3, <2>4, LaterTwice
  <1>4. ASSUME NEW e \in Execs \ E PROVE exec'[e] = K[e]
    BY <1>1
  <1>5. Steady
    BY <1>0, <1>2, <1>3, <1>4, SteadyBy
  <1>. QED BY <1>0, <1>3, <1>4, <1>5
-----------------------------------------------------------------------------
(* What a step leaves alone *)

\* Nothing runs for a session for which nothing ran.
Calm ==
    /\ \A t \in Tasks : alive'[t] # None => \E u \in Tasks : alive'[t] = alive[u]
    /\ \A k \in Keys : alive'[k] \in {None, alive[k]}

LEMMA SteadyOnward ==
    ASSUME exec \in Seq(Execution), Steady
    PROVE  Onward /\ Execs' = Execs
  BY ExecFacts DEF Steady, Onward, Execs

LEMMA SurvivorsGrow ==
    ASSUME exec \in Seq(Execution), Onward
    PROVE  Survivors \subseteq Survivors' /\ Execs \subseteq Execs'
  BY ExecFacts DEF Onward, Survivors, Execs, Later

\* What has been ended stays so while nothing runs for its owner.
LEMMA EndedStays ==
    ASSUME exec \in Seq(Execution), Onward
    PROVE  /\ \A m \in Managers, k \in Keys :
                 EndedOf(m, k) /\ (\A t \in Tasks : alive[t] # k) => EndedOf(m, k)'
           /\ \A m \in Managers :
                 AllEnded(m) /\ (\A t \in Tasks : alive[t] = None) => AllEnded(m)'
  <1>1. \A e \in Execs' : e \in Execs \/ \E t \in Tasks : alive[t] # None /\ exec'[e].owner = alive[t]
    BY DEF Onward, Execs
  <1>2. \A e \in Execs : Later(exec[e], exec'[e])
    BY DEF Onward
  <1>3. ASSUME NEW m \in Managers, NEW k \in Keys, EndedOf(m, k),
               \A t \in Tasks : alive[t] # k
        PROVE  EndedOf(m, k)'
    BY <1>1, <1>2, <1>3 DEF EndedOf, Later
  <1>4. ASSUME NEW m \in Managers, AllEnded(m), \A t \in Tasks : alive[t] = None
        PROVE  AllEnded(m)'
    BY <1>1, <1>2, <1>4 DEF AllEnded, Later
  <1>. QED BY <1>3, <1>4

LEMMA StopFrame ==
    ASSUME PoolInv, StopInv, Onward, Calm, UNCHANGED stop
    PROVE  StopInv'
  <1>. SUFFICES ASSUME stop # None PROVE StopInv'
    BY DEF StopInv
  <1>0. exec \in Seq(Execution)
    BY DEF PoolInv
  <1>1. stop' \in [key : Keys, at : {"cancel", "subs", "turns", "done"}, back : SUBSET Survivors']
        /\ (stop'.at \in {"cancel", "done"} => stop'.back = {})
    BY <1>0, SurvivorsGrow DEF StopInv
  <1>2. stop.key \in Keys /\ stop.key # None
    BY ConstantsAssumption DEF StopInv, ConstantsAssumption
  <1>3. alive'[stop.key] = None
    BY <1>2 DEF StopInv, Calm
  <1>4. stop.at # "cancel" => \A t \in Tasks : alive'[t] # stop.key
    BY <1>2 DEF StopInv, Calm
  <1>5. /\ stop.at \in {"turns", "done"} => EndedOf("subs", stop.key)'
        /\ stop.at = "done" => EndedOf("turns", stop.key)'
    <2>1. stop.at # "cancel" => \A t \in Tasks : alive[t] # stop.key
      BY DEF StopInv
    <2>. QED BY <1>0, <1>2, <2>1, EndedStays DEF StopInv, Managers
  <1>. QED BY <1>1, <1>3, <1>4, <1>5 DEF StopInv

LEMMA CloseFrame ==
    ASSUME PoolInv, CloseInv, Onward, Calm, UNCHANGED closing
    PROVE  CloseInv'
  <1>. SUFFICES ASSUME closing # None PROVE CloseInv'
    BY DEF CloseInv
  <1>0. exec \in Seq(Execution)
    BY DEF PoolInv
  <1>1. /\ closing' \in [at : {"cancel", "cancelsubs", "subs", "turns", "done"},
                         back : SUBSET Survivors', round : {1, 2}, asked : BOOLEAN]
        /\ closing'.at \in {"cancel", "cancelsubs", "done"} => closing'.back = {}
    BY <1>0, SurvivorsGrow DEF CloseInv
  <1>2. closing.at # "cancel" => \A k \in Keys : alive'[k] = None
    BY DEF CloseInv, Calm
  <1>3. closing.at \in {"subs", "turns", "done"} =>
           /\ \A t \in Tasks : alive[t] = None
           /\ \A t \in Tasks : alive'[t] = None
    BY DEF CloseInv, Calm
  <1>4. /\ closing.at \in {"turns", "done"} \/ closing.back # {} => AllEnded("subs")'
        /\ closing.at = "done" \/ (closing.at = "turns" /\ closing.back # {}) => AllEnded("turns")'
    <2>1. closing.back # {} => closing.at \in {"subs", "turns"}
      BY DEF CloseInv
    <2>. QED BY <1>0, <1>3, <2>1, EndedStays DEF CloseInv, Managers
  <1>. QED BY <1>1, <1>2, <1>3, <1>4 DEF CloseInv

\* The pools after a step that starts no session, in which those that leave
\* their pool alive are in the hands of /stop or the shutdown.
LEMMA PoolFrame ==
    ASSUME PoolInv, Steady,
           \A e \in Execs : exec[e].pooled /\ exec'[e].runs /\ ~exec'[e].pooled =>
              exec'[e].failed /\ e \in BackOf(stop)' \cup BackOf(closing)',
           \A e \in BackOf(stop) \cup BackOf(closing) :
              e \in BackOf(stop)' \cup BackOf(closing)' \/ (e \in Execs /\ exec'[e].pooled)
    PROVE  PoolInv'
  <1>0. exec \in Seq(Execution) /\ Execs' = Execs
    BY SteadyOnward DEF PoolInv
  <1>1. exec' \in Seq(Execution)
    BY DEF Steady
  <1>2. ASSUME NEW m \in Managers PROVE Cardinality(Counted(m)') <= MaxSessions
    <2>1. Cardinality(Counted(m)) <= MaxSessions /\ MaxSessions \in Nat
      BY ConstantsAssumption DEF PoolInv, ConstantsAssumption
    <2>2. Cardinality(Counted(m)') <= Cardinality(Counted(m))
          /\ Cardinality(Counted(m)) \in Nat /\ Cardinality(Counted(m)') \in Nat
      BY <1>0, CountedShrinks
    <2>. QED BY <2>1, <2>2
  <1>3. \A e \in Execs : Drained(exec'[e])
    BY DEF PoolInv, Steady, Later
  <1>4. ASSUME NEW e \in Execs, exec'[e].runs, ~exec'[e].pooled
        PROVE  exec'[e].failed /\ e \in BackOf(stop)' \cup BackOf(closing)'
    <2>1. Later(exec[e], exec'[e])
      BY DEF Steady
    <2>2. CASE exec[e].pooled
      BY <1>4, <2>2
    <2>3. CASE ~exec[e].pooled
      <3>1. exec[e].failed /\ e \in BackOf(stop) \cup BackOf(closing)
        BY <1>4, <2>1, <2>3 DEF PoolInv, Later
      <3>. QED BY <1>4, <2>1, <3>1 DEF Later
    <2>. QED BY <2>2, <2>3
  <1>. QED BY <1>0, <1>1, <1>2, <1>3, <1>4 DEF PoolInv

\* A call that keeps its task, its place and its lock.
LEMMA CallFrame ==
    ASSUME exec \in Seq(Execution), Onward, NEW u \in Tasks, CallSound(u),
           call'[u] = call[u], alive'[u] # None,
           lock[ManagerOf(u)] = u => lock'[ManagerOf(u)] = u,
           call[u].at = "spawning" =>
              Cardinality(Counted(ManagerOf(u))') < MaxSessions
    PROVE  CallSound(u)'
  <1>1. Execs \subseteq Execs' /\ \A e \in Execs : exec'[e].runs => exec[e].runs
    BY SurvivorsGrow DEF Onward, Later
  <1>2. ManagerOf(u)' = ManagerOf(u)
    BY DEF ManagerOf
  <1>. QED BY <1>1, <1>2 DEF CallSound

\* What a step of the calls of T may do to the calls and their locks.
Stepped(T) ==
    /\ call' \in [Tasks -> InlineCalls \cup ExecCalls \cup {None}]
    /\ \A u \in Tasks \ T : call'[u] = call[u]
    /\ \A t \in T : call'[t] # None => CallSound(t)'
    /\ lock' \in [Managers -> Tasks \cup {None}]
    /\ \A m \in Managers :
          \/ lock'[m] = lock[m]
          \/ /\ lock[m] = None \/ lock[m] \in T
             /\ lock'[m] = None \/ (lock'[m] \in T /\ ManagerOf(lock'[m]) = m)

\* A step of calls: the tasks and what stops them are left alone.
LEMMA StepKeepsIInv ==
    ASSUME IInv, NEW T \in SUBSET Tasks, Steady, Held, Stepped(T), UNCHANGED callRest,
           left' \in Allowance, left'.subs = left.subs
    PROVE  IInv'
  <1>. USE DEF callRest, taskVars
  <1>0. exec \in Seq(Execution) /\ Onward
    BY SteadyOnward DEF IInv, PoolInv
  <1>1. TaskInv'
    BY DEF IInv, TaskInv, Running
  <1>2. CallInv'
    <2>1. ASSUME NEW u \in Tasks \ T, call'[u] # None PROVE CallSound(u)'
      <3>1. call'[u] = call[u] /\ CallSound(u)
        BY <2>1 DEF Stepped, IInv, CallInv
      <3>2. alive'[u] # None
        BY <3>1 DEF CallSound
      <3>3. ManagerOf(u) \in Managers
        BY DEF ManagerOf, Managers
      <3>4. lock[ManagerOf(u)] = u => lock'[ManagerOf(u)] = u
        <4>1. u # None
          BY ConstantsAssumption DEF ConstantsAssumption, Tasks
        <4>. QED BY <3>3, <4>1 DEF Stepped
      <3>5. call[u].at = "spawning" => Cardinality(Counted(ManagerOf(u))') < MaxSessions
        <4>. SUFFICES ASSUME call[u].at = "spawning"
                      PROVE  Cardinality(Counted(ManagerOf(u))') < MaxSessions
          OBVIOUS
        <4>1. Cardinality(Counted(ManagerOf(u))) < MaxSessions /\ MaxSessions \in Nat
          BY <3>1, ConstantsAssumption DEF CallSound, ConstantsAssumption
        <4>2. /\ Cardinality(Counted(ManagerOf(u))') <= Cardinality(Counted(ManagerOf(u)))
              /\ Cardinality(Counted(ManagerOf(u))) \in Nat
              /\ Cardinality(Counted(ManagerOf(u))') \in Nat
          BY <1>0, CountedShrinks
        <4>. QED BY <4>1, <4>2
      <3>. QED BY <1>0, <3>1, <3>2, <3>4, <3>5, CallFrame
    <2>2. \A u \in Tasks : call'[u] # None => CallSound(u)'
      BY <2>1 DEF Stepped
    <2>3. \A m \in Managers : lock'[m] # None => ManagerOf(lock'[m]) = m
      BY DEF Stepped, IInv, CallInv
    <2>. QED BY <2>2, <2>3 DEF Stepped, CallInv, ManagerOf
  <1>3. PoolInv'
    BY PoolFrame DEF IInv, Held
  <1>4. Calm
    BY DEF Calm, IInv, TaskInv
  <1>5. StopInv' /\ CloseInv'
    BY <1>0, <1>4, StopFrame, CloseFrame DEF IInv
  <1>. QED BY <1>1, <1>2, <1>3, <1>5 DEF IInv
-----------------------------------------------------------------------------
(* The processes *)

\* A step of a process is no step of a call.
LEMMA ProcessKeepsIInv ==
    ASSUME IInv, Steady, Held, UNCHANGED <<call, lock, callRest>>,
           left' \in Allowance, left'.subs = left.subs
    PROVE  IInv'
  <1>1. Stepped({})
    BY DEF Stepped, IInv, CallInv
  <1>. QED BY <1>1, StepKeepsIInv

LEMMA OneLessLeft ==
    ASSUME left \in Allowance
    PROVE  /\ left.writes > 0 => /\ [left EXCEPT !.writes = @ - 1] \in Allowance
                                /\ [left EXCEPT !.writes = @ - 1].subs = left.subs
           /\ left.idle > 0 => /\ [left EXCEPT !.idle = @ - 1] \in Allowance
                              /\ [left EXCEPT !.idle = @ - 1].subs = left.subs
           /\ left.overdue > 0 => /\ [left EXCEPT !.overdue = @ - 1] \in Allowance
                                 /\ [left EXCEPT !.overdue = @ - 1].subs = left.subs
  <1>1. \A n \in Nat : n > 0 => n - 1 \in Nat
    OBVIOUS
  <1>2. \A n \in Nat : /\ [left EXCEPT !.writes = n] \in Allowance
                       /\ [left EXCEPT !.writes = n].subs = left.subs
    BY DEF Allowance
  <1>3. \A n \in Nat : /\ [left EXCEPT !.idle = n] \in Allowance
                       /\ [left EXCEPT !.idle = n].subs = left.subs
    BY DEF Allowance
  <1>4. \A n \in Nat : /\ [left EXCEPT !.overdue = n] \in Allowance
                       /\ [left EXCEPT !.overdue = n].subs = left.subs
    BY DEF Allowance
  <1>5. left.writes \in Nat /\ left.idle \in Nat /\ left.overdue \in Nat
    BY DEF Allowance
  <1>. QED BY <1>1, <1>2, <1>3, <1>4, <1>5

LEMMA ProcessingKeepsIInv == IInv /\ Processing => IInv'
  <1>. SUFFICES ASSUME IInv, NEW e \in Execs,
                       Writes(e) \/ Exits(e) \/ Reads(e) \/ GrowsIdle(e) \/ GrowsOverdue(e)
                PROVE  IInv'
    BY DEF Processing
  <1>. DEFINE x == exec[e]
  <1>0. exec \in Seq(Execution) /\ x \in Execution /\ left \in Allowance
    BY ExecFacts DEF IInv, PoolInv, TaskInv
  <1>1. ASSUME NEW next, NEW rest, Process(e, next, rest), Later(x, next), next.pooled = x.pooled,
               rest \in Allowance, rest.subs = left.subs
        PROVE  IInv'
    <2>1. Steady /\ Held
      BY <1>0, <1>1, OneSteady DEF Process
    <2>. QED BY <1>1, <2>1, ProcessKeepsIInv DEF Process, callRest
  <1>2. /\ left.writes > 0 => /\ [left EXCEPT !.writes = @ - 1] \in Allowance
                             /\ [left EXCEPT !.writes = @ - 1].subs = left.subs
        /\ left.idle > 0 => /\ [left EXCEPT !.idle = @ - 1] \in Allowance
                           /\ [left EXCEPT !.idle = @ - 1].subs = left.subs
        /\ left.overdue > 0 => /\ [left EXCEPT !.overdue = @ - 1] \in Allowance
                              /\ [left EXCEPT !.overdue = @ - 1].subs = left.subs
    BY <1>0, OneLessLeft
  <1>. HIDE DEF x
  <1>3. CASE Writes(e)
    <2>1. Process(e, [x EXCEPT !.pipe = @ + 1], [left EXCEPT !.writes = @ - 1]) /\ x.runs /\ left.writes > 0
      BY <1>3 DEF Writes, x
    <2>2. Later(x, [x EXCEPT !.pipe = @ + 1]) /\ [x EXCEPT !.pipe = @ + 1].pooled = x.pooled
      BY <1>0, <2>1, LaterWritten DEF Execution
    <2>. QED BY <1>1, <1>2, <2>1, <2>2
  <1>4. CASE Exits(e)
    <2>1. Process(e, [x EXCEPT !.runs = FALSE], left)
      BY <1>4 DEF Exits, x
    <2>2. Later(x, [x EXCEPT !.runs = FALSE]) /\ [x EXCEPT !.runs = FALSE].pooled = x.pooled
      BY <1>0, LaterKilled DEF Execution
    <2>. QED BY <1>0, <1>1, <2>1, <2>2
  <1>5. CASE Reads(e)
    <2>1. Process(e, [x EXCEPT !.buffer = @ + x.pipe, !.pipe = 0], left)
      BY <1>5 DEF Reads, x
    <2>2. /\ Later(x, [x EXCEPT !.buffer = @ + x.pipe, !.pipe = 0])
          /\ [x EXCEPT !.buffer = @ + x.pipe, !.pipe = 0].pooled = x.pooled
      BY <1>0, LaterRead DEF Execution
    <2>. QED BY <1>0, <1>1, <2>1, <2>2
  <1>6. CASE GrowsIdle(e)
    <2>1. Process(e, [x EXCEPT !.idle = TRUE], [left EXCEPT !.idle = @ - 1]) /\ left.idle > 0
      BY <1>6 DEF GrowsIdle, x
    <2>2. Later(x, [x EXCEPT !.idle = TRUE]) /\ [x EXCEPT !.idle = TRUE].pooled = x.pooled
      BY <1>0, LaterMarked DEF Execution
    <2>. QED BY <1>1, <1>2, <2>1, <2>2
  <1>7. CASE GrowsOverdue(e)
    <2>1. Process(e, [x EXCEPT !.overdue = TRUE], [left EXCEPT !.overdue = @ - 1]) /\ left.overdue > 0
      BY <1>7 DEF GrowsOverdue, x
    <2>2. Later(x, [x EXCEPT !.overdue = TRUE]) /\ [x EXCEPT !.overdue = TRUE].pooled = x.pooled
      BY <1>0, LaterMarked DEF Execution
    <2>. QED BY <1>1, <1>2, <2>1, <2>2
  <1>. QED BY <1>3, <1>4, <1>5, <1>6, <1>7
-----------------------------------------------------------------------------
(* The exec calls *)

\* A call of t that still works on its sessions.
Busied(t, c) ==
    /\ c \in ExecCalls /\ c.idle \subseteq Execs
    /\ c.op = "write" \/ c.at \in {"feeding", "waiting", "grace", "eof", "popping"} => c.exec \in Execs
    /\ alive[t] # None

LEMMA SetFacts ==
    ASSUME CallInv, NEW t \in Tasks, NEW c \in ExecCalls \cup {None}, Set(t, c)
    PROVE  /\ call' \in [Tasks -> InlineCalls \cup ExecCalls \cup {None}]
           /\ call'[t] = c /\ \A u \in Tasks \ {t} : call'[u] = call[u]
  BY DEF CallInv, Set

\* Locks change for t, if at all.
LockKept(t) ==
    /\ lock' \in [Managers -> Tasks \cup {None}]
    /\ \A m \in Managers :
          \/ lock'[m] = lock[m]
          \/ /\ lock[m] = None \/ lock[m] = t
             /\ lock'[m] = None \/ (lock'[m] = t /\ ManagerOf(t) = m)

\* t takes, keeps or gives back its manager's lock, which nobody else holds.
LEMMA LockFacts ==
    ASSUME CallInv, NEW t \in Tasks, lock[ManagerOf(t)] \in {None, t},
           Hold(t) \/ Release(ManagerOf(t))
    PROVE  /\ LockKept(t)
           /\ Hold(t) => lock'[ManagerOf(t)] = t
  <1>1. ManagerOf(t) \in Managers
    BY DEF ManagerOf, Managers
  <1>. QED BY <1>1 DEF Hold, Release, CallInv, LockKept

LEMMA LockSame ==
    ASSUME CallInv, UNCHANGED lock, NEW t
    PROVE  LockKept(t)
  BY DEF CallInv, LockKept

\* A call of t that has ended.
LEMMA ReturnKeepsIInv ==
    ASSUME IInv, NEW t \in Tasks, Return(t), Steady, Held, UNCHANGED callRest,
           left' \in Allowance, left'.subs = left.subs,
           UNCHANGED lock \/ (lock[ManagerOf(t)] \in {None, t} /\ Release(ManagerOf(t)))
    PROVE  IInv'
  <1>1. CallInv
    BY DEF IInv
  <1>2. /\ call'[t] = None
        /\ \A u \in Tasks \ {t} : call'[u] = call[u]
        /\ call' \in [Tasks -> InlineCalls \cup ExecCalls \cup {None}]
    BY <1>1, SetFacts DEF Return
  <1>3. LockKept(t)
    BY <1>1, LockFacts, LockSame
  <1>4. Stepped({t})
    BY <1>2, <1>3 DEF Stepped, LockKept
  <1>. QED BY <1>4, StepKeepsIInv

\* The call c of t goes on at a place, with session e, r being reaped and i idle.
Moves(t, c, place, r, i, e) ==
    /\ Busied(t, c) /\ place \in Places /\ r \in Nat /\ i \in SUBSET Execs /\ e \in Nat
    /\ Set(t, [c EXCEPT !.at = place, !.reaped = r, !.idle = i, !.exec = e])
    /\ Steady /\ Held /\ UNCHANGED callRest
    /\ left' \in Allowance /\ left'.subs = left.subs
    /\ \/ UNCHANGED lock
       \/ lock[ManagerOf(t)] \in {None, t} /\ (Hold(t) \/ Release(ManagerOf(t)))
    /\ c.op = "write" \/ place \in {"feeding", "waiting", "grace", "eof", "popping"} => e \in Execs
    /\ place \in {"spawning", "reaping", "cleaning"} => lock'[ManagerOf(t)] = t
    /\ place = "spawning" => Room(ManagerOf(t)) /\ UNCHANGED exec
    /\ place = "popping" => ~exec'[e].runs
    /\ place = "reaping" => r \in Execs /\ ~exec'[r].runs

LEMMA MoveKeepsIInv ==
    ASSUME IInv, NEW t \in Tasks, NEW c, NEW place, NEW r, NEW i, NEW e,
           Moves(t, c, place, r, i, e)
    PROVE  IInv'
  <1>. USE DEF Moves
  <1>. DEFINE n == [c EXCEPT !.at = place, !.reaped = r, !.idle = i, !.exec = e]
  <1>1. CallInv /\ PoolInv /\ exec \in Seq(Execution) /\ Execs \subseteq Nat
    BY ExecFacts DEF IInv, PoolInv
  <1>2. n \in ExecCalls /\ n.at = place /\ n.reaped = r /\ n.idle = i /\ n.exec = e /\ n.op = c.op
    <2>1. i \in SUBSET Nat
      BY <1>1
    <2>. QED BY <2>1 DEF Busied, ExecCalls
  <1>3. Set(t, n)
    OBVIOUS
  <1>. HIDE DEF n
  <1>4. call'[t] = n /\ (\A u \in Tasks \ {t} : call'[u] = call[u])
        /\ call' \in [Tasks -> InlineCalls \cup ExecCalls \cup {None}]
    BY <1>1, <1>2, <1>3, SetFacts
  <1>5. place = "spawning" => Cardinality(Counted(ManagerOf(t))') < MaxSessions
    <2>. SUFFICES ASSUME place = "spawning" PROVE Cardinality(Counted(ManagerOf(t))') < MaxSessions
      OBVIOUS
    <2>. DEFINE m == ManagerOf(t)
    <2>1. Counted(m)' = Counted(m)
      BY DEF Counted, Pooled, Execs
    <2>2. Counted(m) \subseteq Pooled(m)
      BY DEF Counted
    <2>3. /\ Cardinality(Counted(m)) <= Cardinality(Pooled(m))
          /\ Cardinality(Counted(m)) \in Nat /\ Cardinality(Pooled(m)) \in Nat
      BY <1>1, <2>2, ExecFacts, FS_Subset, FS_CardinalityType
    <2>4. Cardinality(Pooled(m)) < MaxSessions /\ MaxSessions \in Nat
      BY ConstantsAssumption DEF Room, ConstantsAssumption
    <2>5. Cardinality(Counted(m)) < MaxSessions
      BY <2>3, <2>4
    <2>6. Counted(ManagerOf(t))' = Counted(m)
      BY <2>1 DEF ManagerOf
    <2>. QED BY <2>5, <2>6
  <1>6. CallSound(t)'
    <2>1. alive'[t] # None /\ Execs' = Execs
      BY <1>1, SteadyOnward DEF Busied, callRest, taskVars
    <2>2. ManagerOf(t)' = ManagerOf(t)
      BY DEF ManagerOf
    <2>. QED BY <1>2, <1>4, <1>5, <2>1, <2>2 DEF CallSound
  <1>7. LockKept(t)
    BY <1>1, LockFacts, LockSame
  <1>8. Stepped({t})
    BY <1>4, <1>6, <1>7 DEF Stepped, LockKept
  <1>. QED BY <1>8, StepKeepsIInv

\* A call of t that goes on with the same sessions.
LEMMA PlaceKeepsIInv ==
    ASSUME IInv, NEW t \in Tasks, NEW c, Busied(t, c), NEW place \in Places \ {"reaping"},
           Set(t, [c EXCEPT !.at = place]),
           Steady, Held, UNCHANGED callRest,
           left' \in Allowance, left'.subs = left.subs,
           \/ UNCHANGED lock
           \/ lock[ManagerOf(t)] \in {None, t} /\ (Hold(t) \/ Release(ManagerOf(t))),
           place \in {"feeding", "waiting", "grace", "eof", "popping"} => c.exec \in Execs,
           place \in {"spawning", "cleaning"} => lock'[ManagerOf(t)] = t,
           place = "spawning" => Room(ManagerOf(t)) /\ UNCHANGED exec,
           place = "popping" => ~exec'[c.exec].runs
    PROVE  IInv'
  <1>1. /\ c.reaped \in Nat /\ c.exec \in Nat
        /\ [c EXCEPT !.at = place]
              = [c EXCEPT !.at = place, !.reaped = c.reaped, !.idle = c.idle, !.exec = c.exec]
    BY DEF Busied, ExecCalls
  <1>2. c.idle \in SUBSET Execs /\ (c.op = "write" => c.exec \in Execs)
    BY DEF Busied
  <1>. DEFINE n == [c EXCEPT !.at = place, !.reaped = c.reaped, !.idle = c.idle, !.exec = c.exec]
  <1>3. Set(t, n) /\ place \in Places /\ place # "reaping"
    BY <1>1
  <1>4. Moves(t, c, place, c.reaped, c.idle, c.exec)
    BY <1>1, <1>2, <1>3 DEF Moves
  <1>. QED BY <1>4, MoveKeepsIInv

\* Killing one session and looking at it.
LEMMA KillIdleSteady ==
    ASSUME exec \in Seq(Execution), NEW e \in Execs, NEW E \in SUBSET Execs, E = {e}, NEW F \in Refused(E),
           exec' = [Killed(E, F) EXCEPT ![e].idle = FALSE]
    PROVE  Steady /\ Held
  <1>0. /\ Killed(E, F) = [d \in Execs |-> Killed(E, F)[d]]
        /\ \A d \in Execs : /\ Later(exec[d], Killed(E, F)[d])
                            /\ Killed(E, F)[d].pooled = exec[d].pooled
        /\ \A d \in E : Killed(E, F)[d].runs => d \in F
        /\ \A d \in F : Killed(E, F)[d].failed
        /\ F \subseteq E
    BY KilledFacts
  <1>. DEFINE K == Killed(E, F)
  <1>1. /\ K = [d \in Execs |-> K[d]]
        /\ \A d \in Execs : Later(exec[d], K[d]) /\ K[d].pooled = exec[d].pooled
    BY <1>0
  <1>. HIDE DEF K
  <1>2. exec' = [K EXCEPT ![e] = [K[e] EXCEPT !.idle = FALSE]]
    BY DEF K
  <1>3. DOMAIN K = Execs /\ K[e] \in Execution
    BY <1>1 DEF Later
  <1>4. exec'[e] = [K[e] EXCEPT !.idle = FALSE] /\ \A d \in Execs \ {e} : exec'[d] = K[d]
    BY <1>2, <1>3
  <1>. DEFINE x == K[e]
              y == [x EXCEPT !.idle = FALSE]
  <1>5. Later(x, exec'[e]) /\ exec'[e].pooled = x.pooled
    <2>1. exec'[e] = y /\ x \in Execution
      BY <1>3, <1>4
    <2>. HIDE DEF x
    <2>2. Later(x, y) /\ y.pooled = x.pooled
      BY <2>1, LaterMarked DEF Execution
    <2>. QED BY <2>1, <2>2
  <1>6. Later(exec[e], exec'[e]) /\ exec'[e].pooled = exec[e].pooled
    BY <1>1, <1>5, LaterTwice
  <1>7. exec' = [d \in Execs |-> exec'[d]]
    BY <1>2, <1>3
  <1>8. Steady
    BY <1>1, <1>4, <1>6, <1>7, SteadyBy
  <1>. QED BY <1>1, <1>4, <1>6, <1>8 DEF Held

LEMMA KillKeepsIInv ==
    ASSUME IInv, NEW t \in Tasks, NEW c, Busied(t, c), c.exec \in Execs, Kill(t, c),
           UNCHANGED callRest,
           UNCHANGED lock \/ (lock[ManagerOf(t)] \in {None, t} /\ Release(ManagerOf(t)))
    PROVE  IInv'
  <1>0. exec \in Seq(Execution) /\ left \in Allowance
    BY DEF IInv, PoolInv, TaskInv
  <1>1. PICK F \in Refused({c.exec}) :
           /\ exec' = [Killed({c.exec}, F) EXCEPT ![c.exec].idle = FALSE]
           /\ left' = [left EXCEPT !.faults = @ - Cardinality(F)]
           /\ IF F = {} THEN Set(t, [c EXCEPT !.at = "eof"]) ELSE Return(t)
    BY DEF Kill
  <1>2. Steady /\ Held
    <2>1. PICK E \in SUBSET Execs : E = {c.exec}
      OBVIOUS
    <2>2. F \in Refused(E) /\ exec' = [Killed(E, F) EXCEPT ![c.exec].idle = FALSE]
      BY <1>1, <2>1
    <2>. QED BY <1>0, <2>1, <2>2, KillIdleSteady
  <1>3. left' \in Allowance /\ left'.subs = left.subs
    <2>1. {c.exec} \in SUBSET Execs
      OBVIOUS
    <2>. QED BY <1>0, <1>1, <2>1, FaultsLeft
  <1>4. CASE F = {}
    <2>1. Set(t, [c EXCEPT !.at = "eof"]) /\ "eof" \in Places \ {"reaping"}
      BY <1>1, <1>4 DEF Places
    <2>. QED BY <1>2, <1>3, <2>1, PlaceKeepsIInv
  <1>5. CASE F # {}
    <2>1. Return(t)
      BY <1>1, <1>5
    <2>. QED BY <1>2, <1>3, <2>1, ReturnKeepsIInv
  <1>. QED BY <1>4, <1>5

LEMMA SameSteady ==
    ASSUME exec \in Seq(Execution), UNCHANGED exec
    PROVE  Steady /\ Held
  BY ExecFacts, LaterSame DEF Steady, Held

\* A session that is looked at is no longer idle.
LEMMA LookedAtSteady ==
    ASSUME exec \in Seq(Execution), NEW e \in Execs, exec' = [exec EXCEPT ![e].idle = FALSE]
    PROVE  Steady /\ Held
  <1>1. exec[e] \in Execution
    BY ExecFacts
  <1>. DEFINE y == [exec[e] EXCEPT !.idle = FALSE]
  <1>2. Later(exec[e], y) /\ y.pooled = exec[e].pooled
    BY <1>1, LaterMarked DEF Execution
  <1>3. exec' = [exec EXCEPT ![e] = y]
    OBVIOUS
  <1>. HIDE DEF y
  <1>. QED BY <1>2, <1>3, OneSteady

\* The idle sessions are gone.
LEMMA ProceedKeepsIInv ==
    ASSUME IInv, NEW t \in Tasks, NEW c, Busied(t, c), lock[ManagerOf(t)] \in {None, t},
           Proceed(t, c), UNCHANGED callRest
    PROVE  IInv'
  <1>. DEFINE m == ManagerOf(t)
  <1>0. exec \in Seq(Execution) /\ left \in Allowance /\ CallInv
    BY DEF IInv, PoolInv, TaskInv
  <1>1. CASE /\ c.op = "start" /\ Room(m)
             /\ Hold(t) /\ Set(t, [c EXCEPT !.at = "spawning"])
             /\ UNCHANGED <<exec, left>>
    <2>1. Steady /\ Held
      BY <1>0, <1>1, SameSteady
    <2>2. lock'[m] = t /\ "spawning" \in Places \ {"reaping"}
      BY <1>0, <1>1, LockFacts DEF Places
    <2>3. left' \in Allowance /\ left'.subs = left.subs
      BY <1>0, <1>1
    <2>. QED BY <1>1, <2>1, <2>2, <2>3, PlaceKeepsIInv
  <1>2. CASE Release(m) /\ Return(t) /\ UNCHANGED <<exec, left>>
    <2>1. Steady /\ Held
      BY <1>0, <1>2, SameSteady
    <2>2. left' \in Allowance /\ left'.subs = left.subs
      BY <1>0, <1>2
    <2>. QED BY <1>2, <2>1, <2>2, ReturnKeepsIInv
  <1>3. CASE c.op = "write" /\ Release(m) /\ Set(t, [c EXCEPT !.at = "feeding"]) /\ UNCHANGED <<exec, left>>
    <2>1. Steady /\ Held
      BY <1>0, <1>3, SameSteady
    <2>2. c.exec \in Execs /\ "feeding" \in Places \ {"reaping"}
      BY <1>3 DEF Busied, Places
    <2>3. left' \in Allowance /\ left'.subs = left.subs
      BY <1>0, <1>3
    <2>. QED BY <1>3, <2>1, <2>2, <2>3, PlaceKeepsIInv
  <1>4. CASE c.op = "write" /\ Release(m) /\ Set(t, [c EXCEPT !.at = "waiting"])
             /\ exec' = [exec EXCEPT ![c.exec].idle = FALSE] /\ UNCHANGED left
    <2>2. c.exec \in Execs /\ "waiting" \in Places \ {"reaping"}
      BY <1>4 DEF Busied, Places
    <2>1. Steady /\ Held
      BY <1>0, <1>4, <2>2, LookedAtSteady
    <2>3. left' \in Allowance /\ left'.subs = left.subs
      BY <1>0, <1>4
    <2>. QED BY <1>4, <2>1, <2>2, <2>3, PlaceKeepsIInv
  <1>5. CASE c.op = "write" /\ Release(m) /\ Kill(t, c)
    <2>1. c.exec \in Execs
      BY <1>5 DEF Busied
    <2>. QED BY <1>5, <2>1, KillKeepsIInv
  <1>. QED BY <1>1, <1>2, <1>3, <1>4, <1>5 DEF Proceed

\* One idle session of E is killed.
LEMMA ReapKeepsIInv ==
    ASSUME IInv, NEW t \in Tasks, NEW c, Busied(t, c), lock[ManagerOf(t)] \in {None, t},
           NEW E \in SUBSET Execs, Reap(t, c, E), UNCHANGED callRest
    PROVE  IInv'
  <1>0. exec \in Seq(Execution) /\ left \in Allowance /\ CallInv /\ Execs \subseteq Nat
    BY ExecFacts DEF IInv, PoolInv, TaskInv
  <1>1. PICK e \in E, F \in SUBSET E :
           /\ F \in Refused({e})
           /\ exec' = Killed({e}, F)
           /\ left' = [left EXCEPT !.faults = @ - Cardinality(F)]
           /\ IF F = {} THEN Hold(t) /\ Set(t, [c EXCEPT !.at = "reaping", !.reaped = e, !.idle = E \ {e}])
                        ELSE Release(ManagerOf(t)) /\ Return(t)
    BY DEF Reap
  <1>2. {e} \in SUBSET Execs /\ e \in Nat /\ e \in Execs
    BY <1>0
  <1>3. Steady /\ Held /\ (exec'[e].runs => e \in F)
    BY <1>0, <1>1, <1>2, KillSteady
  <1>4. left' \in Allowance /\ left'.subs = left.subs
    BY <1>0, <1>1, <1>2, FaultsLeft
  <1>5. CASE F # {}
    <2>1. Release(ManagerOf(t)) /\ Return(t)
      BY <1>1, <1>5
    <2>. QED BY <1>3, <1>4, <2>1, ReturnKeepsIInv
  <1>6. CASE F = {}
    <2>1. Hold(t) /\ lock'[ManagerOf(t)] = t
      BY <1>0, <1>1, <1>6, LockFacts
    <2>. DEFINE i == E \ {e}
                n == [c EXCEPT !.at = "reaping", !.reaped = e, !.idle = i, !.exec = c.exec]
    <2>2. n = [c EXCEPT !.at = "reaping", !.reaped = e, !.idle = i] /\ c.exec \in Nat
      BY DEF Busied, ExecCalls
    <2>3. Set(t, n)
      BY <1>1, <1>6, <2>2
    <2>4. i \in SUBSET Execs /\ "reaping" \in Places /\ ~exec'[e].runs
      BY <1>3, <1>6 DEF Places
    <2>5. c.op = "write" \/ "reaping" \in {"feeding", "waiting", "grace", "eof", "popping"}
             => c.exec \in Execs
      BY DEF Busied
    <2>. HIDE DEF i
    <2>6. Moves(t, c, "reaping", e, i, c.exec)
      BY <1>2, <1>3, <1>4, <2>1, <2>2, <2>3, <2>4, <2>5 DEF Moves
    <2>. QED BY <2>6, MoveKeepsIInv
  <1>. QED BY <1>5, <1>6

\* The call of a task, where it is.
LEMMA CallFacts ==
    ASSUME IInv, NEW t \in Tasks, call[t] # None, call[t].at # "inline"
    PROVE  /\ Busied(t, call[t]) /\ call[t].at \in Places
           /\ call[t].at \in {"spawning", "reaping", "cleaning"} => lock[ManagerOf(t)] = t
           /\ call[t].at \in {"feeding", "waiting", "grace", "eof", "popping"} => call[t].exec \in Execs
           /\ call[t].at = "popping" => ~exec[call[t].exec].runs
           /\ call[t].at = "reaping" => call[t].reaped \in Execs /\ ~exec[call[t].reaped].runs
           /\ call[t].at = "spawning" => Cardinality(Counted(ManagerOf(t))) < MaxSessions
           /\ exec \in Seq(Execution) /\ left \in Allowance /\ CallInv
  <1>1. CallSound(t)
    BY DEF IInv, CallInv
  <1>2. call[t] \in ExecCalls /\ call[t].at \in Places
    BY <1>1 DEF CallSound, ExecCalls
  <1>. QED BY <1>1, <1>2 DEF CallSound, Busied, IInv, PoolInv, TaskInv

\* The call of t goes on at a place, nothing else being changed but the sessions.
LEMMA OnKeepsIInv ==
    ASSUME IInv, NEW t \in Tasks, call[t] # None, call[t].at # "inline",
           NEW place \in {"cleaning", "waiting", "grace", "eof", "popping"}, Move(t, place),
           Steady, Held, UNCHANGED <<lock, left, callRest>>,
           place # "cleaning" => call[t].exec \in Execs,
           place = "cleaning" => call[t].at = "reaping",
           place = "popping" => ~exec'[call[t].exec].runs
    PROVE  IInv'
  <1>. DEFINE c == call[t]
  <1>1. Busied(t, c) /\ left \in Allowance
    BY CallFacts
  <1>2. place = "cleaning" => lock'[ManagerOf(t)] = t
    BY CallFacts
  <1>3. place \in Places \ {"reaping"} /\ Set(t, [c EXCEPT !.at = place])
    BY DEF Places, Move
  <1>4. UNCHANGED callRest /\ left' \in Allowance /\ left'.subs = left.subs /\ UNCHANGED lock
    BY <1>1
  <1>5. place # "spawning" /\ place # "feeding"
    OBVIOUS
  <1>. HIDE DEF c
  <1>. QED BY <1>1, <1>2, <1>3, <1>4, <1>5, PlaceKeepsIInv DEF c

LEMMA CallKeepsIInv ==
    ASSUME IInv, NEW t \in Tasks, NEW op \in {"start", "write", "list"}, NEW e \in Nat,
           op = "write" => e \in Execs, Call(t, op, e)
    PROVE  IInv'
  <1>. DEFINE c == [op |-> op, at |-> "locked", exec |-> e, reaped |-> 0, idle |-> {}]
              m == ManagerOf(t)
  <1>1. /\ Free(t) /\ lock[m] = None
        /\ IF Idle(m) = {} THEN Proceed(t, c) ELSE Reap(t, c, Idle(m))
        /\ UNCHANGED callRest
    BY DEF Call
  <1>2. Busied(t, c)
    <2>1. c \in ExecCalls
      BY DEF ExecCalls, Places
    <2>. QED BY <1>1, <2>1 DEF Busied, Free
  <1>3. Idle(m) \in SUBSET Execs
    BY DEF Idle, Pooled
  <1>. HIDE DEF c
  <1>. QED BY <1>1, <1>2, <1>3, ProceedKeepsIInv, ReapKeepsIInv

LEMMA ReapedKeepsIInv ==
    ASSUME IInv, NEW t \in Tasks, Reaped(t)
    PROVE  IInv'
  <1>1. At(t, "reaping") /\ call[t] # None /\ call[t].at = "reaping"
    BY DEF Reaped, At
  <1>2. call[t].reaped \in Execs /\ ~exec[call[t].reaped].runs /\ exec \in Seq(Execution)
    BY <1>1, CallFacts
  <1>3. PICK E : E = {call[t].reaped}
    OBVIOUS
  <1>4. exec' = WithPool(exec, E, FALSE) /\ Move(t, "cleaning") /\ UNCHANGED <<lock, left, callRest>>
    BY <1>3 DEF Reaped
  <1>5. Steady /\ Held
    <2>1. E \in SUBSET Execs /\ \A e \in E : ~exec[e].runs
      BY <1>2, <1>3
    <2>. QED BY <1>2, <1>4, <2>1, PopSteady
  <1>. QED BY <1>1, <1>4, <1>5, OnKeepsIInv

LEMMA CleanedKeepsIInv ==
    ASSUME IInv, NEW t \in Tasks, Cleaned(t)
    PROVE  IInv'
  <1>1. /\ call[t] # None /\ call[t].at = "cleaning"
        /\ IF call[t].idle = {} THEN Proceed(t, call[t]) ELSE Reap(t, call[t], call[t].idle)
        /\ UNCHANGED callRest
    BY DEF Cleaned, At
  <1>2. Busied(t, call[t]) /\ lock[ManagerOf(t)] = t
    BY <1>1, CallFacts
  <1>3. call[t].idle \in SUBSET Execs
    BY <1>2 DEF Busied
  <1>. QED BY <1>1, <1>2, <1>3, ProceedKeepsIInv, ReapKeepsIInv

LEMMA FedKeepsIInv ==
    ASSUME IInv, NEW t \in Tasks, Fed(t)
    PROVE  IInv'
  <1>1. call[t] # None /\ call[t].at = "feeding" /\ UNCHANGED <<lock, left, callRest>>
    BY DEF Fed, At
  <1>2. call[t].exec \in Execs /\ exec \in Seq(Execution) /\ left \in Allowance
    BY <1>1, CallFacts
  <1>3. CASE exec[call[t].exec].runs
    <2>1. Move(t, "waiting") /\ exec' = [exec EXCEPT ![call[t].exec].idle = FALSE]
      BY <1>3 DEF Fed
    <2>2. Steady /\ Held
      BY <1>2, <2>1, LookedAtSteady
    <2>. QED BY <1>1, <1>2, <2>1, <2>2, OnKeepsIInv
  <1>4. CASE ~exec[call[t].exec].runs
    <2>1. Return(t) /\ UNCHANGED exec
      BY <1>4 DEF Fed
    <2>2. Steady /\ Held
      BY <1>2, <2>1, SameSteady
    <2>3. left' \in Allowance /\ left'.subs = left.subs /\ UNCHANGED callRest /\ UNCHANGED lock
      BY <1>1, <1>2
    <2>. QED BY <2>1, <2>2, <2>3, ReturnKeepsIInv
  <1>. QED BY <1>3, <1>4

LEMMA WaitOverKeepsIInv ==
    ASSUME IInv, NEW t \in Tasks, WaitOver(t)
    PROVE  IInv'
  <1>. DEFINE e == exec[call[t].exec]
  <1>1. call[t] # None /\ call[t].at = "waiting" /\ UNCHANGED <<lock, callRest>>
    BY DEF WaitOver, At
  <1>2. Busied(t, call[t]) /\ call[t].exec \in Execs /\ exec \in Seq(Execution)
    BY <1>1, CallFacts
  <1>3. CASE Kill(t, call[t])
    <2>1. UNCHANGED callRest /\ UNCHANGED lock
      BY <1>1
    <2>. QED BY <1>2, <1>3, <2>1, KillKeepsIInv
  <1>4. CASE Move(t, IF e.runs THEN "grace" ELSE "eof") /\ UNCHANGED <<exec, left>>
    <2>1. Steady /\ Held
      BY <1>2, <1>4, SameSteady
    <2>2. PICK place \in {"grace", "eof"} : Move(t, place)
      BY <1>4
    <2>3. place \in {"cleaning", "waiting", "grace", "eof", "popping"} /\ place # "cleaning" /\ place # "popping"
      OBVIOUS
    <2>4. UNCHANGED <<lock, left, callRest>>
      BY <1>1, <1>4
    <2>. QED BY <1>1, <1>2, <2>1, <2>2, <2>3, <2>4, OnKeepsIInv
  <1>. QED BY <1>3, <1>4 DEF WaitOver

LEMMA AnswerKeepsIInv ==
    ASSUME IInv, NEW t \in Tasks, call[t] # None, call[t].at \in {"eof", "grace"},
           NEW late \in BOOLEAN, Answer(t, late),
           ~exec[call[t].exec].runs => late \/ exec[call[t].exec].pipe = 0
    PROVE  IInv'
  <1>. DEFINE e == call[t].exec
              x == exec[e]
              y == [x EXCEPT !.buffer = 0, !.done = ~x.runs, !.late = @ \/ late]
  <1>1. e \in Execs /\ exec \in Seq(Execution) /\ left \in Allowance
    BY CallFacts
  <1>2. x \in Execution
    BY <1>1, ExecFacts
  <1>3. exec' = [exec EXCEPT ![e] = y] /\ UNCHANGED <<lock, left, callRest>>
    BY DEF Answer
  <1>4. Later(x, y)
    <2>. HIDE DEF x
    <2>. QED BY <1>2, LaterAnswered DEF x
  <1>5. y.pooled = x.pooled /\ y.runs = x.runs
    BY <1>2 DEF Execution
  <1>. HIDE DEF y
  <1>6. Steady /\ Held /\ exec'[e] = y
    <2>1. exec[e].pooled /\ y.runs => y.pooled
      BY <1>5
    <2>. QED BY <1>1, <1>3, <1>4, <2>1, OneSteady
  <1>7. CASE x.runs
    <2>1. Return(t)
      BY <1>7 DEF Answer
    <2>2. left' \in Allowance /\ left'.subs = left.subs /\ UNCHANGED callRest /\ UNCHANGED lock
      BY <1>1, <1>3
    <2>. QED BY <1>6, <2>1, <2>2, ReturnKeepsIInv
  <1>8. CASE ~x.runs
    <2>1. Move(t, "popping")
      BY <1>8 DEF Answer
    <2>2. ~exec'[call[t].exec].runs
      BY <1>5, <1>6, <1>8
    <2>. QED BY <1>1, <1>3, <1>6, <2>1, <2>2, OnKeepsIInv
  <1>. QED BY <1>7, <1>8

LEMMA PollKeepsIInv ==
    ASSUME IInv, NEW t \in Tasks, Poll(t)
    PROVE  IInv'
  <1>1. CASE WaitOver(t)
    BY <1>1, WaitOverKeepsIInv
  <1>2. CASE AnswerAtEof(t)
    <2>1. call[t] # None /\ call[t].at = "eof" /\ Answer(t, FALSE) /\ exec[call[t].exec].pipe = 0
      BY <1>2 DEF AnswerAtEof, At
    <2>. QED BY <2>1, AnswerKeepsIInv
  <1>3. CASE AnswerLate(t)
    <2>1. call[t] # None /\ call[t].at = "eof" /\ Answer(t, TRUE)
      BY <1>3 DEF AnswerLate, At
    <2>. QED BY <2>1, AnswerKeepsIInv
  <1>4. CASE AnswerInGrace(t)
    <2>. DEFINE x == exec[call[t].exec]
                l == ~x.runs /\ x.pipe > 0
    <2>1. call[t] # None /\ call[t].at = "grace" /\ Answer(t, l)
      BY <1>4 DEF AnswerInGrace, At
    <2>2. x.pipe \in Nat
      BY <2>1, CallFacts, ExecFacts DEF Execution
    <2>3. l \in BOOLEAN /\ (~x.runs => l \/ x.pipe = 0)
      BY <2>2
    <2>. HIDE DEF l
    <2>. QED BY <2>1, <2>3, AnswerKeepsIInv
  <1>. QED BY <1>1, <1>2, <1>3, <1>4 DEF Poll

LEMMA PoppedKeepsIInv ==
    ASSUME IInv, NEW t \in Tasks, Popped(t)
    PROVE  IInv'
  <1>1. call[t] # None /\ call[t].at = "popping" /\ Return(t) /\ UNCHANGED <<lock, left, callRest>>
    BY DEF Popped, At
  <1>2. call[t].exec \in Execs /\ ~exec[call[t].exec].runs /\ exec \in Seq(Execution) /\ left \in Allowance
    BY <1>1, CallFacts
  <1>3. PICK E : E = {call[t].exec}
    OBVIOUS
  <1>4. exec' = WithPool(exec, E, FALSE)
    BY <1>3 DEF Popped
  <1>5. Steady /\ Held
    <2>1. E \in SUBSET Execs /\ \A e \in E : ~exec[e].runs
      BY <1>2, <1>3
    <2>. QED BY <1>2, <1>4, <2>1, PopSteady
  <1>6. left' \in Allowance /\ left'.subs = left.subs /\ UNCHANGED callRest /\ UNCHANGED lock
    BY <1>1, <1>2
  <1>. QED BY <1>1, <1>5, <1>6, ReturnKeepsIInv
-----------------------------------------------------------------------------
(* A start registers its process *)

LEMMA AppendFacts ==
    ASSUME exec \in Seq(Execution), NEW x \in Execution, exec' = Append(exec, x)
    PROVE  /\ exec' \in Seq(Execution) /\ Len(exec') = Len(exec) + 1
           /\ \A e \in Execs : exec'[e] = exec[e]
           /\ exec'[Len(exec) + 1] = x
           /\ Execs' = Execs \cup {Len(exec) + 1} /\ Len(exec) + 1 \in Nat
           /\ Len(exec) + 1 \notin Execs
  <1>1. Len(exec) \in Nat /\ Len(exec') = Len(exec) + 1 /\ exec' \in Seq(Execution)
    OBVIOUS
  <1>2. \A e \in 1 .. Len(exec) : exec'[e] = exec[e]
    OBVIOUS
  <1>3. exec'[Len(exec) + 1] = x
    OBVIOUS
  <1>. QED BY <1>1, <1>2, <1>3 DEF Execs

\* The manager of the new session counts one more, the other none.
LEMMA AppendCounts ==
    ASSUME exec \in Seq(Execution), NEW x \in Execution, exec' = Append(exec, x),
           x.pooled, ~x.failed
    PROVE  /\ \A m \in Managers \ {x.manager} : Counted(m)' = Counted(m)
           /\ Cardinality(Counted(x.manager)) \in Nat
           /\ Cardinality(Counted(x.manager)') = Cardinality(Counted(x.manager)) + 1
  <1>. DEFINE n == Len(exec) + 1
              w == x.manager
  <1>0. /\ \A e \in Execs : exec'[e] = exec[e]
        /\ exec'[n] = x /\ Execs' = Execs \cup {n} /\ n \notin Execs
    BY AppendFacts
  <1>. HIDE DEF n
  <1>1. \A m \in Managers \ {w} : Counted(m)' = Counted(m)
    BY <1>0 DEF Counted, Pooled
  <1>2. Counted(w)' = Counted(w) \cup {n} /\ n \notin Counted(w)
    BY <1>0 DEF Counted, Pooled
  <1>3. IsFiniteSet(Counted(w)) /\ Cardinality(Counted(w)) \in Nat
    BY ExecFacts, FS_CardinalityType
  <1>4. Cardinality(Counted(w)') = Cardinality(Counted(w)) + 1
    BY <1>2, <1>3, FS_AddElement
  <1>. QED BY <1>1, <1>3, <1>4

LEMMA StartedKeepsIInv ==
    ASSUME IInv, NEW t \in Tasks, call[t] # None, call[t].at = "spawning", NEW x \in Execution,
           x.owner = alive[t], x.manager = ManagerOf(t), x.pooled, ~x.failed, ~x.done,
           exec' = Append(exec, x), Release(ManagerOf(t)),
           Set(t, [call[t] EXCEPT !.at = "waiting", !.exec = Len(exec) + 1]),
           UNCHANGED <<left, callRest>>
    PROVE  IInv'
  <1>. USE DEF callRest, taskVars
  <1>. DEFINE n == Len(exec) + 1
              m == ManagerOf(t)
              c == [call[t] EXCEPT !.at = "waiting", !.exec = n]
  <1>0. /\ exec \in Seq(Execution) /\ CallInv /\ Busied(t, call[t]) /\ lock[m] = t
        /\ Cardinality(Counted(m)) < MaxSessions
    BY CallFacts
  <1>1. /\ exec' \in Seq(Execution) /\ Len(exec') = n
        /\ \A e \in Execs : exec'[e] = exec[e]
        /\ exec'[n] = x /\ Execs' = Execs \cup {n} /\ n \in Nat /\ n \notin Execs
    BY <1>0, AppendFacts
  <1>2. Len(exec) <= Len(exec') /\ Len(exec) \in Nat /\ (\A e \in Execs : exec[e] \in Execution)
        /\ Execs' = 1 .. Len(exec')
    BY <1>0, ExecFacts DEF Execs
  <1>. HIDE DEF n
  <1>3. Onward
    <2>1. \A e \in Execs : Later(exec[e], exec'[e])
      BY <1>1, <1>2, LaterSame
    <2>2. alive[t] # None
      BY <1>0 DEF Busied
    <2>3. \A e \in 1 .. Len(exec') : e \in Execs \/ \E u \in Tasks : alive[u] # None /\ exec'[e].owner = alive[u]
      BY <1>1, <1>2, <2>2
    <2>. QED BY <1>1, <1>2, <2>1, <2>3 DEF Onward
  <1>4. /\ \A w \in Managers \ {m} : Counted(w)' = Counted(w)
        /\ Cardinality(Counted(m)) \in Nat
        /\ Cardinality(Counted(m)') = Cardinality(Counted(m)) + 1
    BY <1>0, AppendCounts
  <1>5. c \in ExecCalls /\ c.at = "waiting" /\ c.exec = n /\ c.idle = call[t].idle /\ c.op = call[t].op
    BY <1>0, <1>1 DEF Busied, ExecCalls, Places
  <1>6. call'[t] = c /\ (\A u \in Tasks \ {t} : call'[u] = call[u])
        /\ call' \in [Tasks -> InlineCalls \cup ExecCalls \cup {None}]
    <2>1. Set(t, c)
      BY DEF n
    <2>. HIDE DEF c
    <2>. QED BY <1>0, <1>5, <2>1, SetFacts
  <1>. HIDE DEF c
  <1>7. TaskInv'
    BY DEF IInv, TaskInv, Running
  <1>8. LockKept(t)
    BY <1>0, LockFacts
  <1>9. CallInv'
    <2>1. CallSound(t)'
      <3>1. alive'[t] # None
        BY <1>0 DEF Busied
      <3>2. c.idle \subseteq Execs' /\ c.exec \in Execs'
        BY <1>0, <1>1, <1>5 DEF Busied
      <3>. QED BY <1>5, <1>6, <3>1, <3>2 DEF CallSound
    <2>2. ASSUME NEW u \in Tasks \ {t}, call'[u] # None PROVE CallSound(u)'
      <3>1. call'[u] = call[u] /\ CallSound(u)
        BY <1>0, <1>6, <2>2 DEF CallInv
      <3>2. alive'[u] # None
        BY <3>1 DEF CallSound
      <3>3. ManagerOf(u) \in Managers
        BY DEF ManagerOf, Managers
      <3>4. lock[ManagerOf(u)] = u => lock'[ManagerOf(u)] = u
        <4>1. u # None
          BY ConstantsAssumption DEF ConstantsAssumption, Tasks
        <4>. QED BY <1>8, <3>3, <4>1 DEF LockKept
      <3>5. call[u].at = "spawning" => Cardinality(Counted(ManagerOf(u))') < MaxSessions
        <4>. SUFFICES ASSUME call[u].at = "spawning"
                      PROVE  Cardinality(Counted(ManagerOf(u))') < MaxSessions
          OBVIOUS
        <4>1. lock[ManagerOf(u)] = u /\ Cardinality(Counted(ManagerOf(u))) < MaxSessions
          BY <3>1 DEF CallSound
        <4>2. ManagerOf(u) # m
          BY <1>0, <4>1
        <4>3. Counted(ManagerOf(u))' = Counted(ManagerOf(u))
          <5>1. PICK w \in Managers : w = ManagerOf(u)
            BY <3>3
          <5>2. Counted(w)' = Counted(w)
            BY <1>4, <4>2, <5>1
          <5>. QED BY <5>1, <5>2 DEF ManagerOf
        <4>. QED BY <4>1, <4>3
      <3>. QED BY <1>0, <1>3, <3>1, <3>2, <3>4, <3>5, CallFrame
    <2>3. \A w \in Managers : lock'[w] # None => ManagerOf(lock'[w]) = w
      BY <1>0, <1>8 DEF LockKept, CallInv
    <2>. QED BY <1>6, <1>8, <2>1, <2>2, <2>3 DEF CallInv, LockKept, ManagerOf
  <1>10. PoolInv'
    <2>1. ASSUME NEW w \in Managers PROVE Cardinality(Counted(w)') <= MaxSessions
      <3>1. MaxSessions \in Nat
        BY ConstantsAssumption DEF ConstantsAssumption
      <3>2. CASE w = m
        BY <1>0, <1>4, <3>1, <3>2
      <3>3. CASE w # m
        BY <1>4, <3>3 DEF IInv, PoolInv
      <3>. QED BY <3>2, <3>3
    <2>2. \A e \in Execs' : Drained(exec'[e])
      BY <1>1 DEF IInv, PoolInv, Drained
    <2>3. \A e \in Execs' : exec'[e].runs /\ ~exec'[e].pooled =>
             exec'[e].failed /\ e \in BackOf(stop)' \cup BackOf(closing)'
      BY <1>1 DEF IInv, PoolInv
    <2>. QED BY <1>1, <2>1, <2>2, <2>3 DEF PoolInv
  <1>11. Calm
    BY DEF Calm, IInv, TaskInv
  <1>12. StopInv' /\ CloseInv'
    BY <1>3, <1>11, StopFrame, CloseFrame DEF IInv
  <1>. QED BY <1>7, <1>9, <1>10, <1>12 DEF IInv

LEMMA SpawnedKeepsIInv ==
    ASSUME IInv, NEW t \in Tasks, NEW ok \in BOOLEAN, Spawned(t, ok)
    PROVE  IInv'
  <1>1. call[t] # None /\ call[t].at = "spawning" /\ Release(ManagerOf(t)) /\ UNCHANGED <<left, callRest>>
    BY DEF Spawned, At
  <1>2. /\ Busied(t, call[t]) /\ exec \in Seq(Execution) /\ left \in Allowance
        /\ lock[ManagerOf(t)] = t
    BY <1>1, CallFacts
  <1>3. CASE ok
    <2>. DEFINE x == [owner |-> alive[t], manager |-> ManagerOf(t), pooled |-> TRUE,
                      runs |-> TRUE, idle |-> FALSE, overdue |-> FALSE, failed |-> FALSE,
                      pipe |-> 0, buffer |-> 0, done |-> FALSE, late |-> FALSE]
    <2>1. alive[t] \in Keys /\ ManagerOf(t) \in Managers
      BY <1>2 DEF Busied, IInv, TaskInv, ManagerOf, Managers
    <2>2. /\ x \in Execution /\ x.owner = alive[t] /\ x.manager = ManagerOf(t)
          /\ x.pooled /\ ~x.failed /\ ~x.done
      BY <2>1 DEF Execution
    <2>3. /\ exec' = Append(exec, x)
          /\ Set(t, [call[t] EXCEPT !.at = "waiting", !.exec = Len(exec) + 1])
      BY <1>3 DEF Spawned
    <2>. HIDE DEF x
    <2>. QED BY <1>1, <2>2, <2>3, StartedKeepsIInv
  <1>4. CASE ~ok
    <2>1. Return(t) /\ UNCHANGED exec
      BY <1>4 DEF Spawned
    <2>2. Steady /\ Held
      BY <1>2, <2>1, SameSteady
    <2>3. left' \in Allowance /\ left'.subs = left.subs /\ UNCHANGED callRest
      BY <1>1, <1>2
    <2>. QED BY <1>1, <1>2, <2>1, <2>2, <2>3, ReturnKeepsIInv
  <1>. QED BY <1>3, <1>4

LEMMA CallingKeepsIInv == IInv /\ Calling => IInv'
  <1>. SUFFICES ASSUME IInv, NEW t \in Tasks,
                       \/ Call(t, "start", 0) \/ Call(t, "list", 0)
                       \/ \E e \in Execs : Call(t, "write", e)
                       \/ AfterLock(t) \/ Fed(t) \/ Poll(t) \/ Popped(t)
                PROVE  IInv'
    BY DEF Calling
  <1>1. CASE Call(t, "start", 0) \/ Call(t, "list", 0)
    <2>1. PICK op \in {"start", "list"} : Call(t, op, 0)
      BY <1>1
    <2>2. op \in {"start", "write", "list"} /\ op # "write" /\ 0 \in Nat
      OBVIOUS
    <2>. QED BY <2>1, <2>2, CallKeepsIInv
  <1>2. ASSUME NEW e \in Execs, Call(t, "write", e) PROVE IInv'
    <2>1. e \in Nat
      BY ExecFacts DEF IInv, PoolInv
    <2>. QED BY <1>2, <2>1, CallKeepsIInv
  <1>3. CASE AfterLock(t)
    <2>1. Reaped(t) \/ Cleaned(t) \/ \E ok \in BOOLEAN : Spawned(t, ok)
      BY <1>3 DEF AfterLock
    <2>. QED BY <2>1, ReapedKeepsIInv, CleanedKeepsIInv, SpawnedKeepsIInv
  <1>. QED BY <1>1, <1>2, <1>3, FedKeepsIInv, PollKeepsIInv, PoppedKeepsIInv
-----------------------------------------------------------------------------
(* Turns and sub-agents *)

\* A step of turns and sub-agents: calls are left alone, end or wait inline.
LEMMA TaskStepKeeps ==
    ASSUME IInv, UNCHANGED <<lock, exec, stop, closing>>,
           call' \in [Tasks -> InlineCalls \cup ExecCalls \cup {None}],
           \A u \in Tasks : call'[u] # None =>
              alive'[u] # None /\ (call'[u].at = "inline" \/ call'[u] = call[u])
    PROVE  CallInv' /\ PoolInv' /\ (Calm => StopInv' /\ CloseInv')
  <1>0. exec \in Seq(Execution) /\ CallInv
    BY DEF IInv, PoolInv
  <1>1. Steady /\ Held /\ Onward
    BY <1>0, SameSteady, SteadyOnward
  <1>2. PoolInv'
    BY <1>1, PoolFrame DEF IInv, Held
  <1>3. ASSUME NEW u \in Tasks, call'[u] # None PROVE CallSound(u)'
    <2>1. alive'[u] # None
      BY <1>3
    <2>2. CASE call'[u].at = "inline"
      BY <2>1, <2>2 DEF CallSound
    <2>3. CASE call'[u] = call[u]
      <3>1. CallSound(u)
        BY <1>0, <1>3, <2>3 DEF CallInv
      <3>2. \A m : Counted(m)' = Counted(m)
        BY DEF Counted, Pooled, Execs
      <3>3. call[u].at = "spawning" => Cardinality(Counted(ManagerOf(u))') < MaxSessions
        BY <3>1, <3>2 DEF CallSound
      <3>. QED BY <1>0, <1>1, <2>1, <2>3, <3>1, <3>3, CallFrame
    <2>. QED BY <1>3, <2>2, <2>3
  <1>4. CallInv'
    BY <1>0, <1>3 DEF CallInv, ManagerOf
  <1>. QED BY <1>1, <1>2, <1>4, StopFrame, CloseFrame DEF IInv

LEMMA KeysApart == \A k \in Keys : k # None /\ k \in Tasks /\ k \notin Subs
  BY ConstantsAssumption DEF ConstantsAssumption, Tasks

LEMMA BeginKeepsIInv ==
    ASSUME IInv, NEW k \in Keys, Begin(k)
    PROVE  IInv'
  <1>. USE DEF Begin
  <1>0. TaskInv /\ k # None /\ k \in Tasks /\ k \notin Subs
    BY KeysApart DEF IInv
  <1>1. /\ alive' \in [Tasks -> Keys \cup {None}] /\ alive'[k] = k
        /\ \A u \in Tasks \ {k} : alive'[u] = alive[u]
    BY <1>0 DEF TaskInv
  <1>2. left' \in Allowance /\ left'.subs = left.subs
    <2>. DEFINE n == left.turns[k] - 1
                g == [left.turns EXCEPT ![k] = n]
    <2>1. left.turns \in [Keys -> Nat] /\ left.turns[k] > 0
      BY <1>0 DEF TaskInv, Allowance
    <2>2. n \in Nat
      BY <2>1
    <2>3. left' = [left EXCEPT !.turns = g]
      BY <1>0 DEF TaskInv, Allowance
    <2>. HIDE DEF n
    <2>4. g \in [Keys -> Nat]
      BY <2>1, <2>2
    <2>. HIDE DEF g
    <2>. QED BY <1>0, <2>3, <2>4 DEF TaskInv, Allowance
  <1>3. Running' = Running
    BY <1>0, <1>1 DEF Running, Tasks
  <1>4. TaskInv'
    BY <1>0, <1>1, <1>2, <1>3 DEF TaskInv, Tasks
  <1>5. call' \in [Tasks -> InlineCalls \cup ExecCalls \cup {None}]
        /\ \A u \in Tasks : call'[u] # None => alive'[u] # None /\ call'[u] = call[u]
    BY <1>0, <1>1 DEF IInv, CallInv, CallSound
  <1>6. CallInv' /\ PoolInv'
    BY <1>5, TaskStepKeeps
  <1>7. StopInv' /\ CloseInv'
    BY DEF StopInv, CloseInv
  <1>. QED BY <1>4, <1>6, <1>7 DEF IInv

LEMMA EndKeepsIInv ==
    ASSUME IInv, NEW k \in Keys, End(k)
    PROVE  IInv'
  <1>. USE DEF End, Free
  <1>0. TaskInv /\ k # None /\ k \in Tasks /\ k \notin Subs
    BY KeysApart DEF IInv
  <1>1. /\ alive' \in [Tasks -> Keys \cup {None}] /\ alive'[k] = None
        /\ \A u \in Tasks \ {k} : alive'[u] = alive[u]
    BY <1>0 DEF TaskInv
  <1>3. Running' = Running
    BY <1>0, <1>1 DEF Running, Tasks
  <1>4. TaskInv'
    BY <1>0, <1>1, <1>3 DEF TaskInv, Tasks
  <1>5. call' \in [Tasks -> InlineCalls \cup ExecCalls \cup {None}]
        /\ \A u \in Tasks : call'[u] # None => alive'[u] # None /\ call'[u] = call[u]
    BY <1>0, <1>1 DEF IInv, CallInv, CallSound
  <1>6. Calm
    BY <1>1 DEF Calm, Tasks
  <1>7. CallInv' /\ PoolInv' /\ StopInv' /\ CloseInv'
    BY <1>5, <1>6, TaskStepKeeps
  <1>. QED BY <1>4, <1>7 DEF IInv

LEMMA SpawnKeepsIInv ==
    ASSUME IInv, NEW k \in Keys, NEW b \in Subs, NEW wait \in BOOLEAN, Spawn(k, b, wait)
    PROVE  IInv'
  <1>. USE DEF Spawn, Free
  <1>0. /\ TaskInv /\ k # None /\ k \in Tasks /\ k \notin Subs /\ b \in Tasks /\ b # k
        /\ b \in left.subs
    BY KeysApart DEF IInv, Tasks
  <1>1. /\ alive' \in [Tasks -> Keys \cup {None}] /\ alive'[b] = k /\ alive[k] = k
        /\ \A u \in Tasks \ {b} : alive'[u] = alive[u]
    BY <1>0 DEF TaskInv
  <1>2. left' \in Allowance /\ left'.subs = left.subs \ {b}
    <2>. DEFINE s == left.subs \ {b}
    <2>1. s \in SUBSET Subs
      BY <1>0 DEF TaskInv, Allowance
    <2>2. left' = [left EXCEPT !.subs = s]
      BY <1>0 DEF TaskInv, Allowance
    <2>. HIDE DEF s
    <2>3. left' \in Allowance /\ left'.subs = s
      BY <1>0, <2>1, <2>2 DEF TaskInv, Allowance
    <2>. QED BY <2>3 DEF s
  <1>3. Running' = Running \cup {b} /\ b \notin Running
    BY <1>0, <1>1 DEF Running, Tasks, TaskInv
  <1>4. IsFiniteSet(Running') /\ Cardinality(Running') <= MaxSubs
    <2>1. IsFiniteSet(Running) /\ Cardinality(Running) < MaxSubs /\ MaxSubs \in Nat
      BY <1>0, ConstantsAssumption DEF TaskInv, ConstantsAssumption
    <2>2. Cardinality(Running) \in Nat
      BY <2>1, FS_CardinalityType
    <2>3. IsFiniteSet(Running \cup {b}) /\ Cardinality(Running \cup {b}) = Cardinality(Running) + 1
      BY <1>3, <2>1, FS_AddElement
    <2>. QED BY <1>3, <2>1, <2>2, <2>3
  <1>5. TaskInv'
    <2>1. inline' \subseteq inline \cup {b} /\ inbound' = inbound
      OBVIOUS
    <2>2. \A j \in Keys : alive'[j] = alive[j]
      BY <1>1, KeysApart
    <2>. QED BY <1>0, <1>1, <1>2, <1>3, <1>4, <2>1, <2>2 DEF TaskInv
  <1>6. call' \in [Tasks -> InlineCalls \cup ExecCalls \cup {None}]
        /\ \A u \in Tasks : call'[u] # None =>
              alive'[u] # None /\ (call'[u].at = "inline" \/ call'[u] = call[u])
    <2>1. CallInv
      BY DEF IInv
    <2>2. \A u \in Tasks : call[u] # None => alive'[u] # None
      BY <1>0, <1>1, <2>1 DEF CallInv, CallSound
    <2>. DEFINE n == [at |-> "inline", sub |-> b]
    <2>3. n \in InlineCalls /\ n.at = "inline"
      BY DEF InlineCalls
    <2>4. call' = IF wait THEN [call EXCEPT ![k] = n] ELSE call
      OBVIOUS
    <2>. HIDE DEF n
    <2>5. call' \in [Tasks -> InlineCalls \cup ExecCalls \cup {None}]
      BY <1>0, <2>1, <2>3, <2>4 DEF CallInv
    <2>6. \A u \in Tasks : call'[u] = call[u] \/ (u = k /\ call'[u] = n)
      BY <1>0, <2>1, <2>4 DEF CallInv
    <2>7. alive'[k] # None
      BY <1>0, <1>1
    <2>. QED BY <2>2, <2>3, <2>5, <2>6, <2>7
  <1>7. Calm
    BY <1>0, <1>1, KeysApart DEF Calm
  <1>8. CallInv' /\ PoolInv' /\ StopInv' /\ CloseInv'
    BY <1>6, <1>7, TaskStepKeeps
  <1>. QED BY <1>5, <1>8 DEF IInv

LEMMA SubEndsKeepsIInv ==
    ASSUME IInv, NEW b \in Subs, SubEnds(b)
    PROVE  IInv'
  <1>. USE DEF SubEnds
  <1>0. TaskInv /\ b \in Tasks /\ b \in Running /\ \A k \in Keys : k # b
    BY KeysApart DEF IInv, Tasks
  <1>1. /\ alive' \in [Tasks -> Keys \cup {None}] /\ alive'[b] = None
        /\ \A u \in Tasks \ {b} : alive'[u] = alive[u]
    BY <1>0 DEF TaskInv
  <1>2. Running' = Running \ {b}
    BY <1>0, <1>1 DEF Running, Tasks
  <1>3. IsFiniteSet(Running') /\ Cardinality(Running') <= MaxSubs
    <2>1. Running' \subseteq Running /\ IsFiniteSet(Running) /\ Cardinality(Running) <= MaxSubs
          /\ MaxSubs \in Nat
      BY <1>0, <1>2, ConstantsAssumption DEF TaskInv, ConstantsAssumption
    <2>2. IsFiniteSet(Running') /\ Cardinality(Running') <= Cardinality(Running)
          /\ Cardinality(Running) \in Nat /\ Cardinality(Running') \in Nat
      BY <2>1, FS_Subset, FS_CardinalityType
    <2>. QED BY <2>1, <2>2
  <1>4. TaskInv'
    <2>1. inbound' \subseteq inbound \cup {b} /\ (b \in inline => inbound' = inbound) /\ inline' = inline
      OBVIOUS
    <2>2. \A j \in Keys : alive'[j] = alive[j]
      BY <1>0, <1>1, KeysApart
    <2>. QED BY <1>0, <1>1, <1>2, <1>3, <2>1, <2>2 DEF TaskInv
  <1>5. call' \in [Tasks -> InlineCalls \cup ExecCalls \cup {None}]
        /\ \A u \in Tasks : call'[u] # None => alive'[u] # None /\ call'[u] = call[u]
    <2>1. call' = [t \in Tasks |-> IF WaitsFor(t, b) THEN None ELSE call[t]]
      OBVIOUS
    <2>2. CallInv
      BY DEF IInv
    <2>3. call' \in [Tasks -> InlineCalls \cup ExecCalls \cup {None}]
      BY <2>1, <2>2 DEF CallInv
    <2>4. \A u \in Tasks : call'[u] # None => call'[u] = call[u]
      BY <2>1
    <2>5. \A u \in Tasks : call[u] # None => u # b /\ alive[u] # None
      BY <2>2 DEF CallInv, CallSound
    <2>. QED BY <1>1, <2>3, <2>4, <2>5
  <1>6. Calm
    BY <1>0, <1>1, KeysApart DEF Calm
  <1>7. CallInv' /\ PoolInv' /\ StopInv' /\ CloseInv'
    BY <1>5, <1>6, TaskStepKeeps
  <1>. QED BY <1>4, <1>7 DEF IInv
-----------------------------------------------------------------------------
(* /stop and the shutdown cancel tasks *)

LEMMA CancelKeeps ==
    ASSUME IInv, NEW T \in SUBSET Tasks, Cancel(T), UNCHANGED <<exec, left, inbound>>
    PROVE  /\ TaskInv' /\ CallInv' /\ Calm /\ Steady /\ Held /\ Onward
           /\ \A t \in T : alive'[t] = None
           /\ \A t \in Tasks : alive'[t] \in {None, alive[t]}
  <1>0. TaskInv /\ CallInv /\ exec \in Seq(Execution)
    BY DEF IInv, PoolInv
  <1>1. Steady /\ Held /\ Onward
    BY <1>0, SameSteady, SteadyOnward
  <1>. DEFINE gone == T \cup {b \in Subs : \E t \in T : WaitsFor(t, b)}
  <1>2. /\ alive' = [t \in Tasks |-> IF t \in gone THEN None ELSE alive[t]]
        /\ call' = [t \in Tasks |-> IF t \in gone \/ \E b \in gone : WaitsFor(t, b)
                                    THEN None ELSE call[t]]
        /\ lock' = [m \in Managers |-> IF lock[m] \in gone THEN None ELSE lock[m]]
        /\ UNCHANGED inline
    BY DEF Cancel
  <1>3. T \subseteq gone
    OBVIOUS
  <1>. HIDE DEF gone
  <1>4. /\ \A t \in T : alive'[t] = None
        /\ \A t \in Tasks : alive'[t] \in {None, alive[t]}
        /\ alive' \in [Tasks -> Keys \cup {None}]
    BY <1>0, <1>2, <1>3 DEF TaskInv
  <1>5. Calm
    BY <1>4, KeysApart DEF Calm
  <1>6. Running' \subseteq Running
    BY <1>4 DEF Running, Tasks
  <1>7. IsFiniteSet(Running') /\ Cardinality(Running') <= MaxSubs
    <2>1. IsFiniteSet(Running) /\ Cardinality(Running) <= MaxSubs /\ MaxSubs \in Nat
      BY <1>0, ConstantsAssumption DEF TaskInv, ConstantsAssumption
    <2>2. IsFiniteSet(Running') /\ Cardinality(Running') <= Cardinality(Running)
          /\ Cardinality(Running) \in Nat /\ Cardinality(Running') \in Nat
      BY <1>6, <2>1, FS_Subset, FS_CardinalityType
    <2>. QED BY <2>1, <2>2
  <1>8. TaskInv'
    <2>1. \A k \in Keys : alive'[k] \in {None, k}
      BY <1>0, <1>4, KeysApart DEF TaskInv
    <2>. QED BY <1>0, <1>2, <1>4, <1>6, <1>7, <2>1 DEF TaskInv
  <1>9. CallInv'
    <2>1. call' \in [Tasks -> InlineCalls \cup ExecCalls \cup {None}]
          /\ lock' \in [Managers -> Tasks \cup {None}]
          /\ \A m \in Managers : lock'[m] # None => lock'[m] = lock[m]
      BY <1>0, <1>2 DEF CallInv
    <2>2. ASSUME NEW u \in Tasks, call'[u] # None PROVE CallSound(u)'
      <3>1. u \notin gone /\ call'[u] = call[u] /\ CallSound(u)
        BY <1>0, <1>2, <2>2 DEF CallInv
      <3>2. alive'[u] # None
        BY <1>2, <3>1 DEF CallSound
      <3>3. lock[ManagerOf(u)] = u => lock'[ManagerOf(u)] = u
        BY <1>2, <3>1 DEF ManagerOf, Managers
      <3>4. \A m : Counted(m)' = Counted(m)
        BY DEF Counted, Pooled, Execs
      <3>5. call[u].at = "spawning" => Cardinality(Counted(ManagerOf(u))') < MaxSessions
        BY <3>1, <3>4 DEF CallSound
      <3>. QED BY <1>0, <1>1, <3>1, <3>2, <3>3, <3>5, CallFrame
    <2>3. \A m \in Managers : lock'[m] # None => ManagerOf(lock'[m]) = m
      BY <1>0, <2>1 DEF CallInv
    <2>. QED BY <2>1, <2>2, <2>3 DEF CallInv, ManagerOf
  <1>. QED BY <1>1, <1>4, <1>5, <1>8, <1>9

LEMMA StopKeepsIInv ==
    ASSUME IInv, NEW k \in Keys, Stop(k)
    PROVE  IInv'
  <1>. USE DEF Stop
  <1>. DEFINE T == {k} \cap {t \in Tasks : alive[t] # None}
  <1>0. T \in SUBSET Tasks /\ Cancel(T) /\ UNCHANGED <<exec, left, inbound>>
    OBVIOUS
  <1>1. /\ TaskInv' /\ CallInv' /\ Steady /\ Held
        /\ \A t \in T : alive'[t] = None
        /\ \A t \in Tasks : alive'[t] \in {None, alive[t]}
    <2>. HIDE DEF T
    <2>. QED BY <1>0, CancelKeeps
  <1>2. PoolInv'
    BY <1>1, PoolFrame DEF IInv, Held, BackOf
  <1>3. StopInv'
    <2>1. alive'[k] = None
      BY <1>1, KeysApart
    <2>2. stop' \in [key : Keys, at : {"cancel", "subs", "turns", "done"}, back : SUBSET Survivors']
          /\ stop'.at = "cancel" /\ stop'.back = {} /\ stop'.key = k
      OBVIOUS
    <2>. QED BY <2>1, <2>2 DEF StopInv
  <1>4. CloseInv'
    BY DEF CloseInv
  <1>. QED BY <1>1, <1>2, <1>3, <1>4 DEF IInv

LEMMA StopSubsKeepsIInv == IInv /\ StopSubs => IInv'
  <1>. SUFFICES ASSUME IInv, StopSubs PROVE IInv'
    OBVIOUS
  <1>. USE DEF StopSubs
  <1>. DEFINE T == {b \in Running : alive[b] = stop.key}
  <1>0. /\ T \in SUBSET Tasks /\ Cancel(T) /\ UNCHANGED <<exec, left, inbound, closing>>
        /\ \A t \in Tasks : t \notin Keys /\ alive[t] = stop.key /\ alive[t] # None => t \in T
    BY DEF Running, Tasks
  <1>1. /\ TaskInv' /\ CallInv' /\ Calm /\ Steady /\ Held /\ Onward
        /\ \A t \in T : alive'[t] = None
        /\ \A t \in Tasks : alive'[t] \in {None, alive[t]}
    <2>. HIDE DEF T
    <2>. QED BY <1>0, CancelKeeps
  <1>2. /\ stop \in [key : Keys, at : {"cancel", "subs", "turns", "done"}, back : SUBSET Survivors]
        /\ stop.back = {} /\ alive[stop.key] = None
    BY DEF IInv, StopInv
  <1>3. stop' = [stop EXCEPT !.at = "subs"] /\ stop'.key = stop.key /\ stop'.back = {} /\ stop'.at = "subs"
    BY <1>2
  <1>4. PoolInv'
    BY <1>1, <1>2, <1>3, PoolFrame DEF IInv, Held, BackOf
  <1>5. \A t \in Tasks : alive'[t] # stop.key
    <2>1. stop.key \in Keys /\ stop.key # None
      BY <1>2, KeysApart
    <2>2. \A k \in Keys : alive[k] \in {None, k}
      BY DEF IInv, TaskInv
    <2>. HIDE DEF T
    <2>. QED BY <1>0, <1>1, <1>2, <2>1, <2>2
  <1>6. StopInv'
    <2>1. stop' \in [key : Keys, at : {"cancel", "subs", "turns", "done"}, back : SUBSET Survivors']
      BY <1>2, <1>3
    <2>2. alive'[stop.key] = None
      BY <1>1, <1>2, KeysApart
    <2>. QED BY <1>3, <1>5, <2>1, <2>2 DEF StopInv
  <1>7. CloseInv'
    BY <1>0, <1>1, CloseFrame DEF IInv
  <1>. QED BY <1>1, <1>4, <1>6, <1>7 DEF IInv

LEMMA CloseTurnsKeepsIInv == IInv /\ CloseTurns => IInv'
  <1>. SUFFICES ASSUME IInv, CloseTurns PROVE IInv'
    OBVIOUS
  <1>. USE DEF CloseTurns, CloseAt
  <1>. DEFINE T == {k \in Keys : alive[k] # None}
  <1>0. T \in SUBSET Tasks /\ Cancel(T) /\ UNCHANGED <<exec, left, inbound, stop>>
    BY DEF Tasks
  <1>1. /\ TaskInv' /\ CallInv' /\ Calm /\ Steady /\ Held /\ Onward
        /\ \A t \in T : alive'[t] = None
        /\ \A t \in Tasks : alive'[t] \in {None, alive[t]}
    <2>. HIDE DEF T
    <2>. QED BY <1>0, CancelKeeps
  <1>2. /\ closing \in [at : {"cancel", "cancelsubs", "subs", "turns", "done"}, back : SUBSET Survivors,
                        round : {1, 2}, asked : BOOLEAN]
        /\ closing.back = {}
    BY DEF IInv, CloseInv
  <1>3. /\ closing' = [closing EXCEPT !.at = "cancelsubs"]
        /\ closing' \in [at : {"cancel", "cancelsubs", "subs", "turns", "done"}, back : SUBSET Survivors,
                         round : {1, 2}, asked : BOOLEAN]
        /\ closing'.back = {} /\ closing'.at = "cancelsubs"
    BY <1>2
  <1>4. PoolInv'
    BY <1>0, <1>1, <1>2, <1>3, PoolFrame DEF IInv, Held, BackOf
  <1>5. StopInv'
    BY <1>0, <1>1, StopFrame DEF IInv
  <1>6. \A k \in Keys : alive'[k] = None
    BY <1>1, KeysApart
  <1>7. CloseInv'
    <2>1. Survivors' = Survivors
      BY <1>0 DEF Survivors, Execs
    <2>. QED BY <1>3, <1>6, <2>1 DEF CloseInv
  <1>. QED BY <1>1, <1>4, <1>5, <1>7 DEF IInv

LEMMA CloseSubsKeepsIInv == IInv /\ CloseSubs => IInv'
  <1>. SUFFICES ASSUME IInv, CloseSubs PROVE IInv'
    OBVIOUS
  <1>. USE DEF CloseSubs, CloseAt
  <1>0. Running \in SUBSET Tasks /\ Cancel(Running) /\ UNCHANGED <<exec, left, inbound, stop>>
    BY DEF Tasks, Running
  <1>1. /\ TaskInv' /\ CallInv' /\ Calm /\ Steady /\ Held /\ Onward
        /\ \A t \in Running : alive'[t] = None
        /\ \A t \in Tasks : alive'[t] \in {None, alive[t]}
    BY <1>0, CancelKeeps
  <1>2. /\ closing \in [at : {"cancel", "cancelsubs", "subs", "turns", "done"}, back : SUBSET Survivors,
                        round : {1, 2}, asked : BOOLEAN]
        /\ closing.back = {} /\ \A k \in Keys : alive[k] = None
    BY DEF IInv, CloseInv
  <1>3. /\ closing' = [closing EXCEPT !.at = "subs"]
        /\ closing' \in [at : {"cancel", "cancelsubs", "subs", "turns", "done"}, back : SUBSET Survivors,
                         round : {1, 2}, asked : BOOLEAN]
        /\ closing'.back = {} /\ closing'.at = "subs"
    BY <1>2
  <1>4. PoolInv'
    BY <1>0, <1>1, <1>2, <1>3, PoolFrame DEF IInv, Held, BackOf
  <1>5. StopInv'
    BY <1>0, <1>1, StopFrame DEF IInv
  <1>6. \A t \in Tasks : alive'[t] = None
    BY <1>1, <1>2 DEF Running, Tasks
  <1>7. CloseInv'
    <2>1. Survivors' = Survivors
      BY <1>0 DEF Survivors, Execs
    <2>2. \A k \in Keys : alive'[k] = None
      BY <1>6, KeysApart
    <2>. QED BY <1>3, <1>6, <2>1, <2>2 DEF CloseInv
  <1>. QED BY <1>1, <1>4, <1>5, <1>7 DEF IInv
-----------------------------------------------------------------------------
(* /stop and the shutdown end processes *)

\* A step of /stop or the shutdown that leaves the tasks and their calls alone.
LEMMA EndStepKeeps ==
    ASSUME IInv, Steady, UNCHANGED <<taskVars, call, lock, inbound>>,
           left' \in Allowance, left'.subs = left.subs
    PROVE  TaskInv' /\ CallInv' /\ Calm /\ Onward
  <1>. USE DEF taskVars
  <1>0. exec \in Seq(Execution) /\ Onward /\ CallInv
    BY SteadyOnward DEF IInv, PoolInv
  <1>1. TaskInv'
    BY DEF IInv, TaskInv, Running
  <1>2. Calm
    BY DEF Calm, IInv, TaskInv
  <1>3. ASSUME NEW u \in Tasks, call'[u] # None PROVE CallSound(u)'
    <2>1. CallSound(u)
      BY <1>0, <1>3 DEF CallInv
    <2>2. alive'[u] # None
      BY <2>1 DEF CallSound
    <2>3. call[u].at = "spawning" => Cardinality(Counted(ManagerOf(u))') < MaxSessions
      <3>. SUFFICES ASSUME call[u].at = "spawning"
                    PROVE  Cardinality(Counted(ManagerOf(u))') < MaxSessions
        OBVIOUS
      <3>1. Cardinality(Counted(ManagerOf(u))) < MaxSessions /\ MaxSessions \in Nat
        BY <2>1, ConstantsAssumption DEF CallSound, ConstantsAssumption
      <3>2. /\ Cardinality(Counted(ManagerOf(u))') <= Cardinality(Counted(ManagerOf(u)))
            /\ Cardinality(Counted(ManagerOf(u))) \in Nat
            /\ Cardinality(Counted(ManagerOf(u))') \in Nat
        BY <1>0, CountedShrinks
      <3>. QED BY <3>1, <3>2
    <2>. QED BY <1>0, <2>1, <2>2, <2>3, CallFrame
  <1>4. CallInv'
    BY <1>0, <1>3 DEF CallInv, ManagerOf
  <1>. QED BY <1>0, <1>1, <1>2, <1>4

\* Those that leave the pool and survive are failed and handed back.
LEMMA TerminateFacts ==
    ASSUME IInv, NEW m, NEW E \in SUBSET Execs, NEW F \in Refused(E), Terminate(m, E, F),
           UNCHANGED <<taskVars, call, lock, inbound>>
    PROVE  /\ TaskInv' /\ CallInv' /\ Calm /\ Steady /\ Onward
           /\ F \in SUBSET Survivors' /\ Survivors' \in SUBSET Nat
           /\ \A e \in Execs : exec[e].pooled /\ exec'[e].runs /\ ~exec'[e].pooled =>
                 exec'[e].failed /\ e \in F
           /\ \A e \in E : exec'[e].runs => exec'[e].failed
  <1>0. exec \in Seq(Execution) /\ left \in Allowance
    BY DEF IInv, PoolInv, TaskInv
  <1>1. /\ Steady
        /\ \A e \in F : exec'[e].failed
        /\ \A e \in E : exec'[e].runs => e \in F
        /\ \A e \in Execs \ E : exec[e].pooled => exec'[e].pooled
    BY <1>0, TerminateSteady DEF Terminate
  <1>2. left' \in Allowance /\ left'.subs = left.subs
    BY <1>0, FaultsLeft DEF Terminate
  <1>3. TaskInv' /\ CallInv' /\ Calm /\ Onward
    BY <1>1, <1>2, EndStepKeeps
  <1>4. F \subseteq Execs /\ Execs' = Execs
    BY <1>0, <1>1, SteadyOnward DEF Refused
  <1>5. Execs \subseteq Nat
    BY <1>0, ExecFacts
  <1>. QED BY <1>1, <1>3, <1>4, <1>5 DEF Survivors

\* What a process outside its pool tells: killing it was refused.
LEMMA OutsideFailed ==
    ASSUME PoolInv, Steady, NEW e \in Execs, exec'[e].runs, ~exec[e].pooled
    PROVE  exec'[e].failed
  BY DEF PoolInv, Steady, Later

LEMMA BackIs ==
    ASSUME NEW S \in SUBSET Nat
    PROVE  /\ \A r \in [key : Keys, at : {"cancel", "subs", "turns", "done"}, back : SUBSET S] :
                 r # None /\ BackOf(r) = r.back
           /\ \A r \in [at : {"cancel", "cancelsubs", "subs", "turns", "done"}, back : SUBSET S,
                        round : {1, 2}, asked : BOOLEAN] : r # None /\ BackOf(r) = r.back
  <1>1. \A r \in [key : Keys, at : {"cancel", "subs", "turns", "done"}, back : SUBSET S] :
           r \in StopRecords
    BY DEF StopRecords, ClosingRecords
  <1>2. \A r \in [at : {"cancel", "cancelsubs", "subs", "turns", "done"}, back : SUBSET S,
                  round : {1, 2}, asked : BOOLEAN] :
           r \in ClosingRecords
    BY DEF StopRecords, ClosingRecords
  <1>. QED BY <1>1, <1>2, ConstantsAssumption DEF ConstantsAssumption, BackOf

LEMMA StopTerminatesKeepsIInv ==
    ASSUME IInv, NEW m \in Managers, StopTerminates(m)
    PROVE  IInv'
  <1>. DEFINE E == Owned(m, stop.key)
  <1>0. /\ E \in SUBSET Execs /\ stop # None /\ stop.at = m /\ stop.back = {}
        /\ UNCHANGED <<taskVars, call, lock, closing, inbound>>
    <2>1. E \in SUBSET Execs
      BY DEF Owned, Pooled
    <2>2. /\ stop # None /\ stop.at = m /\ stop.back = {}
          /\ UNCHANGED <<taskVars, call, lock, closing, inbound>>
      BY DEF StopTerminates
    <2>. QED BY <2>1, <2>2
  <1>1. PICK F \in Refused(E) :
           /\ Terminate(m, E, F)
           /\ stop' = [stop EXCEPT !.back = F, !.at = IF F = {} THEN AfterManager(m) ELSE m]
    BY DEF StopTerminates
  <1>2. \A e \in Execs : exec[e].manager = m /\ exec[e].owner = stop.key /\ exec[e].pooled => e \in E
    BY DEF Owned, Pooled
  <1>. HIDE DEF E
  <1>3. /\ TaskInv' /\ CallInv' /\ Calm /\ Steady /\ Onward
        /\ F \in SUBSET Survivors' /\ Survivors' \in SUBSET Nat
        /\ \A e \in Execs : exec[e].pooled /\ exec'[e].runs /\ ~exec'[e].pooled =>
              exec'[e].failed /\ e \in F
        /\ \A e \in E : exec'[e].runs => exec'[e].failed
    BY <1>0, <1>1, TerminateFacts
  <1>4. /\ stop \in [key : Keys, at : {"cancel", "subs", "turns", "done"}, back : SUBSET Survivors]
        /\ \A t \in Tasks : alive[t] # stop.key
        /\ m = "turns" => EndedOf("subs", stop.key)
        /\ alive[stop.key] = None
    BY <1>0 DEF IInv, StopInv, Managers
  <1>5. /\ stop'.key = stop.key /\ stop'.back = F
        /\ stop'.at = IF F = {} THEN AfterManager(m) ELSE m
        /\ stop' \in [key : Keys, at : {"cancel", "subs", "turns", "done"}, back : SUBSET Survivors']
    <2>. DEFINE a == IF F = {} THEN AfterManager(m) ELSE m
    <2>1. a \in {"cancel", "subs", "turns", "done"}
      BY DEF AfterManager, Managers
    <2>2. stop' = [stop EXCEPT !.back = F, !.at = a]
      BY <1>1
    <2>. HIDE DEF a
    <2>3. stop'.key = stop.key /\ stop'.back = F /\ stop'.at = a
          /\ stop' \in [key : Keys, at : {"cancel", "subs", "turns", "done"}, back : SUBSET Survivors']
      BY <1>3, <1>4, <2>1, <2>2
    <2>. QED BY <2>3 DEF a
  <1>6. PICK k \in Keys : k = stop.key
    BY <1>4
  <1>7. BackOf(stop)' = F /\ BackOf(closing)' = BackOf(closing) /\ BackOf(stop) = {}
    <2>1. BackOf(stop)' = stop'.back
      BY <1>3, <1>5, BackIs DEF BackOf
    <2>. QED BY <1>0, <1>5, <2>1 DEF BackOf
  <1>8. PoolInv'
    BY <1>3, <1>7, PoolFrame DEF IInv
  <1>9. EndedOf(m, k)'
    <2>. SUFFICES ASSUME NEW e \in Execs, exec'[e].manager = m, exec'[e].owner = k, exec'[e].runs
                  PROVE  exec'[e].failed
      BY <1>3 DEF EndedOf, Steady, Execs
    <2>1. exec[e].manager = m /\ exec[e].owner = k
      BY <1>3 DEF Steady, Later
    <2>2. CASE exec[e].pooled
      BY <1>2, <1>3, <1>6, <2>1, <2>2
    <2>3. CASE ~exec[e].pooled
      BY <1>3, <2>3, OutsideFailed DEF IInv
    <2>. QED BY <2>2, <2>3
  <1>10. m = "turns" => EndedOf("subs", k)'
    <2>1. exec \in Seq(Execution) /\ "subs" \in Managers
      BY DEF IInv, PoolInv, Managers
    <2>2. EndedOf("subs", k) => EndedOf("subs", k)'
      BY <1>3, <1>4, <1>6, <2>1, EndedStays
    <2>. QED BY <1>4, <1>6, <2>2
  <1>11. \A t \in Tasks : alive'[t] # k
    BY <1>0, <1>4, <1>6 DEF taskVars
  <1>12. StopInv'
    <2>1. stop'.at \in {"subs", "turns", "done"}
          /\ (stop'.at = "turns" => m = "turns" \/ (m = "subs" /\ F = {}))
          /\ (stop'.at = "done" => m = "turns" /\ F = {})
      BY <1>5 DEF AfterManager, Managers
    <2>2. stop'.at \in {"turns", "done"} => EndedOf("subs", k)'
      BY <1>9, <1>10, <2>1
    <2>3. stop'.at = "done" => EndedOf("turns", k)'
      BY <1>9, <2>1
    <2>4. alive'[k] = None
      BY <1>0, <1>4, <1>6 DEF taskVars
    <2>. QED BY <1>5, <1>6, <1>11, <2>1, <2>2, <2>3, <2>4 DEF StopInv
  <1>13. CloseInv'
    BY <1>0, <1>3, CloseFrame DEF IInv
  <1>. QED BY <1>3, <1>8, <1>12, <1>13 DEF IInv

\* Survivors are put back and the tasks left alone.
LEMMA BackFacts ==
    ASSUME IInv, NEW E \in SUBSET Survivors, exec' = WithPool(exec, E, TRUE),
           UNCHANGED <<taskVars, call, lock, inbound, left>>
    PROVE  /\ TaskInv' /\ CallInv' /\ Calm /\ Steady /\ Held /\ Onward
           /\ \A e \in E : e \in Execs /\ exec'[e].pooled
           /\ Survivors' \in SUBSET Nat
  <1>0. exec \in Seq(Execution) /\ left \in Allowance
    BY DEF IInv, PoolInv, TaskInv
  <1>1. Steady /\ Held /\ (\A e \in E : exec'[e].pooled)
    BY <1>0, BackSteady
  <1>2. left' \in Allowance /\ left'.subs = left.subs
    BY <1>0
  <1>3. TaskInv' /\ CallInv' /\ Calm /\ Onward
    BY <1>1, <1>2, EndStepKeeps
  <1>4. E \subseteq Execs /\ Execs' = Execs /\ Execs \subseteq Nat
    BY <1>0, <1>1, SteadyOnward, ExecFacts DEF Survivors
  <1>. QED BY <1>1, <1>3, <1>4 DEF Survivors

LEMMA StopRaisesKeepsIInv ==
    ASSUME IInv, NEW m \in Managers, StopRaises(m)
    PROVE  IInv'
  <1>0. /\ stop # None /\ stop' = None
        /\ exec' = WithPool(exec, stop.back, TRUE)
        /\ closing' = IF closing = None THEN [at |-> "cancel", back |-> {}, round |-> 1, asked |-> FALSE]
                                        ELSE closing
        /\ UNCHANGED <<taskVars, call, lock, inbound, left>>
    BY DEF StopRaises
  <1>1. stop.back \in SUBSET Survivors
    BY <1>0 DEF IInv, StopInv
  <1>2. /\ TaskInv' /\ CallInv' /\ Calm /\ Steady /\ Held /\ Onward
        /\ \A e \in stop.back : e \in Execs /\ exec'[e].pooled
        /\ Survivors' \in SUBSET Nat
    <2>. DEFINE E == stop.back
    <2>1. E \in SUBSET Survivors /\ exec' = WithPool(exec, E, TRUE)
      BY <1>0, <1>1
    <2>. HIDE DEF E
    <2>2. /\ TaskInv' /\ CallInv' /\ Calm /\ Steady /\ Held /\ Onward
          /\ \A e \in E : e \in Execs /\ exec'[e].pooled
          /\ Survivors' \in SUBSET Nat
      BY <1>0, <2>1, BackFacts
    <2>. QED BY <2>2 DEF E
  <1>3. PoolInv'
    <2>1. BackOf(closing) \subseteq BackOf(closing)'
      BY <1>0 DEF BackOf
    <2>2. \A e \in BackOf(stop) : e \in Execs /\ exec'[e].pooled
      BY <1>2 DEF BackOf
    <2>. QED BY <1>2, <2>1, <2>2, PoolFrame DEF IInv, Held
  <1>4. StopInv'
    BY <1>0 DEF StopInv
  <1>5. CloseInv'
    <2>1. CASE closing # None
      <3>1. UNCHANGED closing
        BY <1>0, <2>1
      <3>. QED BY <1>2, <3>1, CloseFrame DEF IInv
    <2>2. CASE closing = None
      <3>1. /\ closing' = [at |-> "cancel", back |-> {}, round |-> 1, asked |-> FALSE]
            /\ closing'.at = "cancel" /\ closing'.back = {}
        BY <1>0, <2>2
      <3>. QED BY <3>1 DEF CloseInv
    <2>. QED BY <2>1, <2>2
  <1>. QED BY <1>2, <1>3, <1>4, <1>5 DEF IInv

\* A step of /stop or the shutdown that ends no process.
LEMMA QuietKeeps ==
    ASSUME IInv, UNCHANGED <<taskVars, call, lock, exec, inbound, left>>,
           BackOf(stop) \cup BackOf(closing) \subseteq BackOf(stop)' \cup BackOf(closing)'
    PROVE  /\ TaskInv' /\ CallInv' /\ PoolInv'
           /\ UNCHANGED stop => StopInv'
           /\ UNCHANGED closing => CloseInv'
  <1>0. exec \in Seq(Execution) /\ left \in Allowance
    BY DEF IInv, PoolInv, TaskInv
  <1>1. Steady /\ Held
    BY <1>0, SameSteady
  <1>2. left' \in Allowance /\ left'.subs = left.subs
    BY <1>0
  <1>3. TaskInv' /\ CallInv' /\ Calm /\ Onward
    BY <1>1, <1>2, EndStepKeeps
  <1>4. PoolInv'
    BY <1>1, PoolFrame DEF IInv, Held
  <1>. QED BY <1>3, <1>4, StopFrame, CloseFrame DEF IInv

LEMMA StopDoneKeepsIInv == IInv /\ StopDone => IInv'
  <1>. SUFFICES ASSUME IInv, StopDone PROVE IInv'
    OBVIOUS
  <1>0. /\ stop # None /\ stop.at = "done" /\ stop' = None
        /\ UNCHANGED <<taskVars, call, lock, exec, closing, inbound, left>>
    BY DEF StopDone
  <1>1. BackOf(stop) = {} /\ BackOf(closing)' = BackOf(closing)
    BY <1>0 DEF IInv, StopInv, BackOf
  <1>2. TaskInv' /\ CallInv' /\ PoolInv' /\ CloseInv'
    BY <1>0, <1>1, QuietKeeps
  <1>3. StopInv'
    BY <1>0 DEF StopInv
  <1>. QED BY <1>2, <1>3 DEF IInv

LEMMA ShutdownKeepsIInv == IInv /\ Shutdown => IInv'
  <1>. SUFFICES ASSUME IInv, Shutdown PROVE IInv'
    OBVIOUS
  <1>0. /\ closing = None /\ closing' = [at |-> "cancel", back |-> {}, round |-> 1, asked |-> TRUE]
        /\ UNCHANGED <<taskVars, call, lock, exec, stop, inbound, left>>
    BY DEF Shutdown
  <1>1. BackOf(closing) = {} /\ BackOf(stop)' = BackOf(stop)
    BY <1>0 DEF BackOf
  <1>2. TaskInv' /\ CallInv' /\ PoolInv' /\ StopInv'
    BY <1>0, <1>1, QuietKeeps
  <1>3. closing'.at = "cancel" /\ closing'.back = {}
    BY <1>0
  <1>4. CloseInv'
    BY <1>0, <1>3 DEF CloseInv
  <1>. QED BY <1>2, <1>4 DEF IInv

LEMMA CloseAgainKeepsIInv == IInv /\ CloseAgain => IInv'
  <1>. SUFFICES ASSUME IInv, CloseAgain PROVE IInv'
    OBVIOUS
  <1>0. /\ closing # None /\ closing.at = "done"
        /\ closing' = [closing EXCEPT !.at = "cancel", !.round = 2, !.asked = TRUE]
        /\ UNCHANGED <<taskVars, call, lock, exec, stop, inbound, left>>
    BY DEF CloseAgain, CloseAt
  <1>1. /\ closing \in [at : {"cancel", "cancelsubs", "subs", "turns", "done"}, back : SUBSET Survivors,
                        round : {1, 2}, asked : BOOLEAN]
        /\ closing.back = {}
    BY <1>0 DEF IInv, CloseInv
  <1>2. BackOf(closing) = {} /\ BackOf(stop)' = BackOf(stop)
    BY <1>0, <1>1 DEF BackOf
  <1>3. TaskInv' /\ CallInv' /\ PoolInv' /\ StopInv'
    BY <1>0, <1>2, QuietKeeps
  <1>4. /\ closing' \in [at : {"cancel", "cancelsubs", "subs", "turns", "done"}, back : SUBSET Survivors,
                         round : {1, 2}, asked : BOOLEAN]
        /\ closing'.at = "cancel" /\ closing'.back = {}
    BY <1>0, <1>1
  <1>5. Survivors' = Survivors
    BY <1>0 DEF Survivors, Execs
  <1>6. CloseInv'
    BY <1>4, <1>5 DEF CloseInv
  <1>. QED BY <1>3, <1>6 DEF IInv

LEMMA CloseTerminatesKeepsIInv ==
    ASSUME IInv, NEW m \in Managers, CloseTerminates(m)
    PROVE  IInv'
  <1>. DEFINE E == Pooled(m)
  <1>0. /\ E \in SUBSET Execs /\ closing # None /\ closing.at = m /\ closing.back = {}
        /\ UNCHANGED <<taskVars, call, lock, stop, inbound>>
    <2>1. E \in SUBSET Execs
      BY DEF Pooled
    <2>2. /\ closing # None /\ closing.at = m /\ closing.back = {}
          /\ UNCHANGED <<taskVars, call, lock, stop, inbound>>
      BY DEF CloseTerminates, CloseAt
    <2>. QED BY <2>1, <2>2
  <1>1. PICK F \in Refused(E) :
           /\ Terminate(m, E, F)
           /\ closing' = [closing EXCEPT !.back = F, !.at = IF F = {} THEN AfterManager(m) ELSE m]
    BY DEF CloseTerminates
  <1>2. \A e \in Execs : exec[e].manager = m /\ exec[e].pooled => e \in E
    BY DEF Pooled
  <1>. HIDE DEF E
  <1>3. /\ TaskInv' /\ CallInv' /\ Calm /\ Steady /\ Onward
        /\ F \in SUBSET Survivors' /\ Survivors' \in SUBSET Nat
        /\ \A e \in Execs : exec[e].pooled /\ exec'[e].runs /\ ~exec'[e].pooled =>
              exec'[e].failed /\ e \in F
        /\ \A e \in E : exec'[e].runs => exec'[e].failed
    BY <1>0, <1>1, TerminateFacts
  <1>4. /\ closing \in [at : {"cancel", "cancelsubs", "subs", "turns", "done"}, back : SUBSET Survivors,
                        round : {1, 2}, asked : BOOLEAN]
        /\ \A t \in Tasks : alive[t] = None
        /\ m = "turns" => AllEnded("subs")
    BY <1>0 DEF IInv, CloseInv, Managers
  <1>5. /\ closing'.back = F
        /\ closing'.at = IF F = {} THEN AfterManager(m) ELSE m
        /\ closing' \in [at : {"cancel", "cancelsubs", "subs", "turns", "done"}, back : SUBSET Survivors',
                         round : {1, 2}, asked : BOOLEAN]
    <2>. DEFINE a == IF F = {} THEN AfterManager(m) ELSE m
    <2>1. a \in {"cancel", "cancelsubs", "subs", "turns", "done"}
      BY DEF AfterManager, Managers
    <2>2. closing' = [closing EXCEPT !.back = F, !.at = a]
      BY <1>1
    <2>. HIDE DEF a
    <2>3. closing'.back = F /\ closing'.at = a
          /\ closing' \in [at : {"cancel", "cancelsubs", "subs", "turns", "done"}, back : SUBSET Survivors',
                           round : {1, 2}, asked : BOOLEAN]
      BY <1>3, <1>4, <2>1, <2>2
    <2>. QED BY <2>3 DEF a
  <1>6. BackOf(closing)' = F /\ BackOf(stop)' = BackOf(stop) /\ BackOf(closing) = {}
    <2>1. BackOf(closing)' = closing'.back
      BY <1>3, <1>5, BackIs DEF BackOf
    <2>. QED BY <1>0, <1>5, <2>1 DEF BackOf
  <1>7. PoolInv'
    BY <1>3, <1>6, PoolFrame DEF IInv
  <1>8. AllEnded(m)'
    <2>. SUFFICES ASSUME NEW e \in Execs, exec'[e].manager = m, exec'[e].runs
                  PROVE  exec'[e].failed
      BY <1>3 DEF AllEnded, Steady, Execs
    <2>1. exec[e].manager = m
      BY <1>3 DEF Steady, Later
    <2>2. CASE exec[e].pooled
      BY <1>2, <1>3, <2>1, <2>2
    <2>3. CASE ~exec[e].pooled
      BY <1>3, <2>3, OutsideFailed DEF IInv
    <2>. QED BY <2>2, <2>3
  <1>9. m = "turns" => AllEnded("subs")'
    <2>1. exec \in Seq(Execution) /\ "subs" \in Managers
      BY DEF IInv, PoolInv, Managers
    <2>. QED BY <1>3, <1>4, <2>1, EndedStays
  <1>10. \A t \in Tasks : alive'[t] = None
    BY <1>0, <1>4 DEF taskVars
  <1>11. CloseInv'
    <2>1. closing'.at \in {"subs", "turns", "done"}
          /\ (closing'.at = "turns" => m = "turns" \/ (m = "subs" /\ F = {}))
          /\ (closing'.at = "done" => m = "turns" /\ F = {})
      BY <1>5 DEF AfterManager, Managers
    <2>2. AllEnded("subs")'
      BY <1>8, <1>9 DEF Managers
    <2>3. closing'.at = "done" \/ (closing'.at = "turns" /\ closing'.back # {}) => AllEnded("turns")'
      BY <1>5, <1>8, <2>1
    <2>4. \A k \in Keys : alive'[k] = None
      BY <1>10, KeysApart
    <2>5. closing'.at \in {"cancel", "cancelsubs", "done"} => closing'.back = {}
      BY <1>5, <2>1
    <2>. QED BY <1>5, <1>10, <2>2, <2>3, <2>4, <2>5 DEF CloseInv
  <1>12. StopInv'
    BY <1>0, <1>3, StopFrame DEF IInv
  <1>. QED BY <1>3, <1>7, <1>11, <1>12 DEF IInv

LEMMA CloseRaisesKeepsIInv ==
    ASSUME IInv, NEW m \in Managers, CloseRaises(m)
    PROVE  IInv'
  <1>0. /\ closing # None /\ closing.at = m /\ closing.back # {}
        /\ exec' = WithPool(exec, closing.back, TRUE)
        /\ closing' = [closing EXCEPT !.back = {}, !.at = AfterManager(m)]
        /\ UNCHANGED <<taskVars, call, lock, stop, inbound, left>>
    BY DEF CloseRaises, CloseAt
  <1>1. /\ closing \in [at : {"cancel", "cancelsubs", "subs", "turns", "done"}, back : SUBSET Survivors,
                        round : {1, 2}, asked : BOOLEAN]
        /\ \A t \in Tasks : alive[t] = None
        /\ AllEnded("subs") /\ (m = "turns" => AllEnded("turns"))
    BY <1>0 DEF IInv, CloseInv, Managers
  <1>2. /\ TaskInv' /\ CallInv' /\ Calm /\ Steady /\ Held /\ Onward
        /\ \A e \in closing.back : e \in Execs /\ exec'[e].pooled
        /\ Survivors' \in SUBSET Nat
    <2>. DEFINE E == closing.back
    <2>1. E \in SUBSET Survivors /\ exec' = WithPool(exec, E, TRUE)
      BY <1>0, <1>1
    <2>. HIDE DEF E
    <2>2. /\ TaskInv' /\ CallInv' /\ Calm /\ Steady /\ Held /\ Onward
          /\ \A e \in E : e \in Execs /\ exec'[e].pooled
          /\ Survivors' \in SUBSET Nat
      BY <1>0, <2>1, BackFacts
    <2>. QED BY <2>2 DEF E
  <1>3. /\ closing'.at = AfterManager(m) /\ closing'.back = {}
        /\ closing' \in [at : {"cancel", "cancelsubs", "subs", "turns", "done"}, back : SUBSET Survivors',
                         round : {1, 2}, asked : BOOLEAN]
    <2>. DEFINE a == AfterManager(m)
    <2>1. a \in {"cancel", "cancelsubs", "subs", "turns", "done"}
      BY DEF AfterManager
    <2>2. closing' = [closing EXCEPT !.back = {}, !.at = a]
      BY <1>0
    <2>. HIDE DEF a
    <2>3. closing'.back = {} /\ closing'.at = a
          /\ closing' \in [at : {"cancel", "cancelsubs", "subs", "turns", "done"}, back : SUBSET Survivors',
                           round : {1, 2}, asked : BOOLEAN]
      BY <1>1, <2>1, <2>2
    <2>. QED BY <2>3 DEF a
  <1>4. PoolInv'
    <2>1. BackOf(stop)' = BackOf(stop)
      BY <1>0 DEF BackOf
    <2>2. \A e \in BackOf(closing) : e \in Execs /\ exec'[e].pooled
      BY <1>2 DEF BackOf
    <2>. QED BY <1>2, <2>1, <2>2, PoolFrame DEF IInv, Held
  <1>5. AllEnded("subs")' /\ (m = "turns" => AllEnded("turns")')
    <2>1. exec \in Seq(Execution) /\ "subs" \in Managers /\ "turns" \in Managers
      BY DEF IInv, PoolInv, Managers
    <2>. QED BY <1>1, <1>2, <2>1, EndedStays
  <1>6. (\A t \in Tasks : alive'[t] = None) /\ (\A k \in Keys : alive'[k] = None)
    BY <1>0, <1>1, KeysApart DEF taskVars
  <1>7. closing'.at \in {"turns", "done"} /\ (closing'.at = "done" => m = "turns")
    BY <1>3 DEF AfterManager, Managers
  <1>8. CloseInv'
    BY <1>3, <1>5, <1>6, <1>7 DEF CloseInv
  <1>9. StopInv'
    BY <1>0, <1>2, StopFrame DEF IInv
  <1>. QED BY <1>2, <1>4, <1>8, <1>9 DEF IInv
-----------------------------------------------------------------------------
(* The whole system *)

LEMMA InitIInv == Init => IInv
  <1>. SUFFICES ASSUME Init PROVE IInv
    OBVIOUS
  <1>. USE DEF Init
  <1>1. Execs = {}
    BY DEF Execs
  <1>2. Running = {} /\ IsFiniteSet(Running) /\ Cardinality(Running) = 0
    <2>1. Running = {}
      BY DEF Running, Tasks
    <2>. QED BY <2>1, FS_EmptySet
  <1>3. left \in Allowance /\ MaxSubs \in Nat /\ MaxSessions \in Nat
    BY ConstantsAssumption DEF ConstantsAssumption, Allowance
  <1>4. TaskInv
    BY <1>2, <1>3, KeysApart DEF TaskInv
  <1>5. CallInv
    BY DEF CallInv
  <1>6. PoolInv
    <2>1. \A m \in Managers : Counted(m) = {} /\ Cardinality(Counted(m)) = 0
      BY <1>1, FS_EmptySet DEF Counted, Pooled
    <2>2. exec \in Seq(Execution)
      OBVIOUS
    <2>. QED BY <1>1, <1>3, <2>1, <2>2 DEF PoolInv
  <1>. QED BY <1>4, <1>5, <1>6 DEF IInv, StopInv, CloseInv

LEMMA NextKeepsIInv == IInv /\ [Next]_vars => IInv'
  <1>. SUFFICES ASSUME IInv, [Next]_vars PROVE IInv'
    OBVIOUS
  <1>1. CASE Working
    BY <1>1, BeginKeepsIInv, EndKeepsIInv, SpawnKeepsIInv, SubEndsKeepsIInv DEF Working
  <1>2. CASE Processing
    BY <1>2, ProcessingKeepsIInv
  <1>3. CASE Calling
    BY <1>3, CallingKeepsIInv
  <1>4. CASE \E k \in Keys : Stop(k)
    BY <1>4, StopKeepsIInv
  <1>5. CASE Stopping
    BY <1>5, StopSubsKeepsIInv, StopDoneKeepsIInv, StopTerminatesKeepsIInv, StopRaisesKeepsIInv DEF Stopping
  <1>6. CASE Shutdown
    BY <1>6, ShutdownKeepsIInv
  <1>7. CASE Closing
    BY <1>7, CloseTurnsKeepsIInv, CloseSubsKeepsIInv, CloseAgainKeepsIInv, CloseTerminatesKeepsIInv,
       CloseRaisesKeepsIInv DEF Closing
  <1>8. CASE UNCHANGED vars
    <2>1. UNCHANGED <<taskVars, call, lock, exec, inbound, left>> /\ UNCHANGED stop /\ UNCHANGED closing
      BY <1>8 DEF vars, taskVars
    <2>2. BackOf(stop)' = BackOf(stop) /\ BackOf(closing)' = BackOf(closing)
      BY <2>1 DEF BackOf
    <2>. QED BY <2>1, <2>2, QuietKeeps DEF IInv
  <1>. QED BY <1>1, <1>2, <1>3, <1>4, <1>5, <1>6, <1>7, <1>8 DEF Next

\* The strengthening from which the theorems below follow.
THEOREM Invariant == Spec => []IInv
  BY InitIInv, NextKeepsIInv, PTL DEF Spec

\* Whoever holds the locks, whatever is cancelled and whichever kill is refused:
\* no manager counts more than max_sessions sessions, no process that runs is
\* out of reach, and no more than max_concurrent_subagents run.
THEOREM PoolsAreSound == Spec => []PoolsSound
  <1>1. ASSUME IInv PROVE PoolsSound
    <2>. USE <1>1 DEF IInv
    <2>1. \A t \in Tasks : alive[t] \in {None} \cup (IF t \in Keys THEN {t} ELSE Keys)
      BY DEF TaskInv
    <2>2. \A e \in Execs : exec[e] \in Execution
      BY ExecFacts DEF PoolInv
    <2>3. \A m \in Managers : lock[m] \in {None} \cup {t \in Tasks : ManagerOf(t) = m}
      BY DEF CallInv
    <2>4. \A m \in Managers : Cardinality({e \in Pooled(m) : ~exec[e].failed}) <= MaxSessions
      BY DEF PoolInv, Counted
    <2>5. TypeOK
      BY <2>1, <2>2, <2>3, <2>4 DEF TypeOK, TaskInv
    <2>6. NoOrphans
      BY DEF NoOrphans, PoolInv
    <2>7. SubsBounded
      BY DEF SubsBounded, TaskInv
    <2>. QED BY <2>5, <2>6, <2>7 DEF PoolsSound
  <1>. QED BY <1>1, Invariant, PTL

\* The poll that reports an exit has returned all output, unless its readers
\* were given up or the process exited in the grace time.
THEOREM OutputIsKept == Spec => []OutputKept
  <1>1. ASSUME IInv PROVE OutputKept
    BY <1>1 DEF IInv, PoolInv, OutputKept, Drained
  <1>. QED BY <1>1, Invariant, PTL

\* A /stop that succeeds leaves nothing of its session running and a shutdown
\* nothing at all, except what could not be killed.
THEOREM NothingIsLeft == Spec => NothingLeft
  <1>. DEFINE Done == StopDone =>
                 /\ \A t \in Tasks : alive'[t] # stop.key
                 /\ \A e \in DOMAIN exec' : exec'[e].owner = stop.key /\ exec'[e].runs => exec'[e].failed
  <1>1. ASSUME IInv PROVE [Done]_vars
    <2>. SUFFICES ASSUME StopDone
                  PROVE  /\ \A t \in Tasks : alive'[t] # stop.key
                         /\ \A e \in DOMAIN exec' : exec'[e].owner = stop.key /\ exec'[e].runs => exec'[e].failed
      OBVIOUS
    <2>1. stop # None /\ stop.at = "done" /\ UNCHANGED <<alive, exec>>
      BY DEF StopDone, taskVars
    <2>2. /\ \A t \in Tasks : alive[t] # stop.key
          /\ EndedOf("subs", stop.key) /\ EndedOf("turns", stop.key)
      BY <1>1, <2>1 DEF IInv, StopInv
    <2>3. DOMAIN exec' = Execs /\ \A e \in Execs : exec[e].manager \in {"turns", "subs"}
      BY <1>1, <2>1, ExecFacts DEF IInv, PoolInv, Execution, Managers
    <2>. QED BY <2>1, <2>2, <2>3 DEF EndedOf
  <1>2. ASSUME IInv PROVE ShutdownLeavesNothing
    <2>. SUFFICES ASSUME CloseAt("done")
                  PROVE  /\ \A t \in Tasks : alive[t] = None
                         /\ \A e \in Execs : exec[e].runs => /\ exec[e].failed
                                                             /\ exec[e].pooled \/ (stop # None /\ e \in stop.back)
      BY DEF ShutdownLeavesNothing
    <2>1. closing # None /\ closing.at = "done"
      BY DEF CloseAt
    <2>2. /\ \A t \in Tasks : alive[t] = None
          /\ AllEnded("subs") /\ AllEnded("turns") /\ closing.back = {}
      BY <1>2, <2>1 DEF IInv, CloseInv
    <2>3. \A e \in Execs : exec[e].manager \in {"turns", "subs"}
      BY <1>2, ExecFacts DEF IInv, PoolInv, Execution, Managers
    <2>4. \A e \in Execs : exec[e].runs => exec[e].failed
      BY <2>2, <2>3 DEF AllEnded
    <2>5. \A e \in Execs : exec[e].runs /\ ~exec[e].pooled => stop # None /\ e \in stop.back
      BY <1>2, <2>2 DEF IInv, PoolInv, BackOf
    <2>. QED BY <2>2, <2>4, <2>5
  <1>. QED BY <1>1, <1>2, Invariant, PTL DEF NothingLeft, StopLeavesNothing
=============================================================================
