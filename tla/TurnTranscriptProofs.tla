------------------------- MODULE TurnTranscriptProofs -------------------------
(***************************************************************************)
(* The transcript of a session for every number of inputs, model calls,    *)
(* stops, failures and deaths of the process: it stays legal and closed,   *)
(* holds every saved input once and the last step that was checkpointed,   *)
(* and the provider's state knows what it says.                            *)
(***************************************************************************)
EXTENDS TurnTranscript, FiniteSetTheorems, SequenceTheorems, TLAPS

Running == {"calling", "tools", "errored", "exhausted", "ended"}

\* The messages of the run once its tools have answered.
Whole(st, r, n) == IF st = "tools" THEN Append(r.messages, Result(n, FALSE)) ELSE r.messages

\* Every call has its result and every result its call.
PairedAt(m, k) ==
    /\ m[k].role = "call" =>
          k < Len(m) /\ m[k + 1].role = "tool" /\ m[k + 1].id = m[k].id
    /\ m[k].role = "tool" =>
          k > 1 /\ m[k - 1].role = "call" /\ m[k - 1].id = m[k].id
Paired(m) == \A k \in 1 .. Len(m) : PairedAt(m, k)

\* The answers and results of m, and that none but those of X is there twice.
Ids(m) == {m[k].id : k \in 1 .. Len(m)} \ {0}
Single(m, X) == \A j, k \in 1 .. Len(m) :
    m[j].id \in Ids(m) \ X /\ m[j].id = m[k].id /\ m[j].role = m[k].role => j = k

\* Which messages hold the input i.
Once(m, i) == \E k \in 1 .. Len(m) : \A j \in 1 .. Len(m) : i \in m[j].has <=> j = k
Never(m, i) == \A k \in 1 .. Len(m) : i \notin m[k].has

\* The step of the checkpoint is not in m, or may be there twice, or ends m.
Ends(m, c) == c.phase = "final_response" /\ m # <<>> /\ Last(m) = Reply(c.id)
Fits(m, c, X) == c.id \notin Ids(m) \/ c.id \in X \/ Ends(m, c)

Legal(s, X) ==
    /\ Paired(s.messages) /\ Single(s.messages, X)
    /\ s.checkpoint # None => Fits(s.messages, s.checkpoint, X)

Numbered(s, n) ==
    /\ Ids(s.messages) \subseteq 1 .. n
    /\ s.checkpoint # None => s.checkpoint.id \in 1 .. n

\* The provider's state knows the messages, those of the checkpoint included
\* unless they will drop it.
Merged(J) == {<<"input", i>> : i \in J}
Covered(s, J) == s.provider # None =>
    /\ AllItems(s.messages) \subseteq s.provider \cup Merged(J)
    /\ s.checkpoint # None /\ Exact(s.checkpoint) =>
          AllItems(CheckpointMessages(s.checkpoint)) \subseteq s.provider \cup Merged(J)

\* A question without an answer is marked.
Asks(m) == m # <<>> /\ Last(m).role = "user"
Marked(s) == s.checkpoint = None /\ Asks(s.messages) => s.pending

\* The last of the steps sh is there.
Remembers(s, sh) == sh # <<>> =>
    \/ Last(sh) \in Ids(s.messages)
    \/ s.checkpoint # None /\ s.checkpoint.id = Last(sh)

\* Each input of K is there once, none of O is.
Holds(s, K, O) ==
    /\ \A i \in K : Once(s.messages, i)
    /\ \A i \in O : Never(s.messages, i)

\* Inputs that no session holds: they wait, or the run has them.
Outside == waiting \cup followups \cup (IF stage = "restored" THEN {input} ELSE {})
           \cup (IF stage \in Running THEN taken ELSE {})

\* A session, with n answers made, the excused X, the joined J and the shown sh.
SoundIn(s, n, X, J, sh, K, O) ==
    /\ s \in Sessions
    /\ Legal(s, X) /\ Numbered(s, n) /\ Covered(s, J) /\ Marked(s)
    /\ Remembers(s, sh) /\ Holds(s, K, O)
Sound(s) == SoundIn(s, made, excused, joined, shown, kept \ joined, Outside)

Closed(s) == s.checkpoint = None /\ ~s.pending /\ ~Asks(s.messages)

Runs == [messages : Seq(Entries), calls : 0 .. MaxCalls, cycles : 0 .. MaxCycles,
         state : States, boundary : Nat]

TypeInv ==
    /\ stage \in {"idle", "restored"} \cup Running
    /\ stage = "idle" => input = None
    /\ stage # "idle" => input \in Inputs /\ session # None
    /\ waiting \subseteq Inputs /\ followups \subseteq Inputs /\ taken \subseteq Inputs
    /\ joined \subseteq Inputs /\ kept \subseteq Inputs
    /\ made \in Nat /\ shown \in Seq(Nat \ {0})
    /\ stops \in 0 .. MaxStops /\ crashes \in 0 .. MaxCrashes
    /\ run \in Runs

\* An input waits, is a follow-up, starts the turn or is kept.
PlaceInv ==
    /\ kept \cap Outside = {} /\ waiting \cap followups = {}
    /\ stage = "restored" => input \notin waiting \cup followups
    /\ stage \in Running => taken \cap (waiting \cup followups) = {}

\* The steps w of a run on the session s.
StepsSound(w, s, n, X, sh) ==
    /\ Paired(w) /\ Single(w, X) /\ Ids(w) \subseteq 1 .. n
    /\ Ids(w) \cap Ids(s.messages) = {}
    /\ s.checkpoint # None =>
          /\ s.checkpoint.id \in Ids(w)
          /\ Exact(s.checkpoint) =>
                AllItems(CheckpointMessages(s.checkpoint)) \subseteq AllItems(w)
    /\ sh # <<>> => s.checkpoint # None /\ s.checkpoint.id = Last(sh)

\* The follow-ups T are in the messages m of the run, but for those of J.
TakenSound(m, T, J) == \A i \in Inputs :
    (i \notin T => Never(m, i)) /\ (i \in T \ J => Once(m, i))

\* The run's state knows the session and the messages before the boundary.
StateSound(r, m, J) ==
    /\ r.boundary <= Len(r.messages)
    /\ r.state # None =>
          AllItems(m) \cup AllItems(SubSeq(r.messages, 1, r.boundary))
              \subseteq r.state \cup Merged(J)

\* The run r, whose messages are w once its tools have answered.
RunSound(r, w, s, n, X, J, sh, T) ==
    /\ StepsSound(w, s, n, X, sh) /\ TakenSound(r.messages, T, J)
    /\ StateSound(r, s.messages, J)

\* What a run ends with, by its stage.
TailSound(m, st, n, c) ==
    /\ st = "calling" => m = <<>> \/ Last(m).role \in {"user", "hidden", "tool"}
    /\ st = "tools" => m # <<>> /\ Last(m) = Call(n) /\ c # None /\ c.id = n
    /\ st = "errored" => m # <<>> /\ Last(m).role = "notice"
    /\ st = "ended" => m # <<>> /\ (Last(m).role = "notice" \/ (c # None /\ Ends(m, c)))

RunInv == stage \in Running =>
    /\ file = session
    /\ stage = "calling" => run.calls < MaxCalls
    /\ RunSound(run, Whole(stage, run, made), session, made, excused, joined, shown, taken)
    /\ TailSound(run.messages, stage, made, session.checkpoint)

IInv ==
    /\ TypeInv /\ Sound(file) /\ (session # None => Sound(session))
    /\ (stage = "restored" => Closed(session))
    /\ PlaceInv /\ RunInv
-----------------------------------------------------------------------------
(* Sequences of messages *)

LEMMA ConcatIs ==
    ASSUME NEW a \in Seq(Entries), NEW b \in Seq(Entries)
    PROVE  /\ a \o b \in Seq(Entries) /\ Len(a) \in Nat /\ Len(b) \in Nat
           /\ Len(a \o b) = Len(a) + Len(b)
           /\ \A k \in 1 .. Len(a) : (a \o b)[k] = a[k]
           /\ \A k \in 1 .. Len(b) : (a \o b)[Len(a) + k] = b[k]
           /\ \A k \in 1 .. Len(a \o b) :
                 k \in 1 .. Len(a) \/ \E j \in 1 .. Len(b) : k = Len(a) + j
  <1>1. a \o b \in Seq(Entries) /\ Len(a) \in Nat /\ Len(b) \in Nat
        /\ Len(a \o b) = Len(a) + Len(b)
    OBVIOUS
  <1>2. \A k \in 1 .. Len(a) : (a \o b)[k] = a[k]
    OBVIOUS
  <1>3. \A k \in 1 .. Len(b) : (a \o b)[Len(a) + k] = b[k]
    OBVIOUS
  <1>4. ASSUME NEW k \in 1 .. Len(a \o b), k \notin 1 .. Len(a)
        PROVE  \E j \in 1 .. Len(b) : k = Len(a) + j
    <2>1. PICK j \in Int : k = Len(a) + j
      BY <1>1
    <2>. QED BY <2>1, <1>1, <1>4
  <1>. QED BY <1>1, <1>2, <1>3, <1>4

LEMMA ConcatEnds ==
    ASSUME NEW a \in Seq(Entries), NEW b \in Seq(Entries), b # <<>>
    PROVE  a \o b # <<>> /\ Last(a \o b) = Last(b)
  BY ConcatIs DEF Last

LEMMA AppendIs ==
    ASSUME NEW a \in Seq(Entries), NEW e \in Entries
    PROVE  LET v == Append(a, e) IN v \in Seq(Entries) /\ v # <<>> /\ Last(v) = e
  <1>1. PICK v : v = Append(a, e)
    OBVIOUS
  <1>2. v \in Seq(Entries) /\ Len(v) = Len(a) + 1 /\ v[Len(a) + 1] = e /\ Len(a) \in Nat
    BY <1>1
  <1>3. v # <<>>
    BY <1>2
  <1>. QED BY <1>1, <1>2, <1>3 DEF Last

LEMMA ConcatIds ==
    ASSUME NEW a \in Seq(Entries), NEW b \in Seq(Entries)
    PROVE  Ids(a \o b) = Ids(a) \cup Ids(b)
  <1>1. Ids(a \o b) \subseteq Ids(a) \cup Ids(b)
    BY ConcatIs DEF Ids
  <1>2. Ids(a) \subseteq Ids(a \o b)
    BY ConcatIs DEF Ids
  <1>3. ASSUME NEW k \in 1 .. Len(b), b[k].id # 0 PROVE b[k].id \in Ids(a \o b)
    <2>1. Len(a) + k \in 1 .. Len(a \o b) /\ (a \o b)[Len(a) + k] = b[k]
      BY ConcatIs
    <2>2. PICK m : m = a \o b
      OBVIOUS
    <2>3. \E l \in 1 .. Len(m) : m[l] = b[k]
      BY <2>1, <2>2
    <2>4. b[k].id \in Ids(m)
      BY <2>3, <1>3 DEF Ids
    <2>. QED BY <2>2, <2>4
  <1>4. Ids(b) \subseteq Ids(a \o b)
    BY <1>3 DEF Ids
  <1>. QED BY <1>1, <1>2, <1>4

LEMMA ItemsOf ==
    ASSUME NEW a \in Seq(Entries)
    PROVE  /\ DOMAIN a = 1 .. Len(a)
           /\ \A x : x \in AllItems(a) <=> \E k \in 1 .. Len(a) : x \in Items(a[k])
  BY DEF AllItems

LEMMA ConcatItems ==
    ASSUME NEW a \in Seq(Entries), NEW b \in Seq(Entries)
    PROVE  AllItems(a \o b) = AllItems(a) \cup AllItems(b)
  <1>1. ASSUME NEW x \in AllItems(a \o b) PROVE x \in AllItems(a) \cup AllItems(b)
    <2>1. PICK m : m = a \o b
      OBVIOUS
    <2>2. PICK k \in 1 .. Len(m) : x \in Items(m[k])
      BY <2>1, <1>1, ConcatIs, ItemsOf
    <2>3. \/ k \in 1 .. Len(a) /\ m[k] = a[k]
          \/ \E j \in 1 .. Len(b) : m[k] = b[j]
      BY <2>1, ConcatIs
    <2>. QED BY <2>2, <2>3, ItemsOf
  <1>2. ASSUME NEW x \in AllItems(a) PROVE x \in AllItems(a \o b)
    <2>1. PICK k \in 1 .. Len(a) : x \in Items(a[k])
      BY <1>2, ItemsOf
    <2>2. k \in 1 .. Len(a \o b) /\ (a \o b)[k] = a[k]
      BY ConcatIs
    <2>. QED BY <2>1, <2>2, ConcatIs, ItemsOf
  <1>3. ASSUME NEW x \in AllItems(b) PROVE x \in AllItems(a \o b)
    <2>1. PICK k \in 1 .. Len(b) : x \in Items(b[k])
      BY <1>3, ItemsOf
    <2>2. Len(a) + k \in 1 .. Len(a \o b) /\ (a \o b)[Len(a) + k] = b[k]
      BY ConcatIs
    <2>. QED BY <2>1, <2>2, ConcatIs, ItemsOf
  <1>. QED BY <1>1, <1>2, <1>3

LEMMA ConcatPaired ==
    ASSUME NEW a \in Seq(Entries), NEW b \in Seq(Entries), Paired(a), Paired(b)
    PROVE  Paired(a \o b)
  <1>1. PICK m : m = a \o b
    OBVIOUS
  <1>2. /\ Len(a) \in Nat /\ Len(b) \in Nat /\ Len(m) = Len(a) + Len(b)
        /\ \A k \in 1 .. Len(a) : m[k] = a[k]
        /\ \A k \in 1 .. Len(b) : m[Len(a) + k] = b[k]
        /\ \A k \in 1 .. Len(m) :
              k \in 1 .. Len(a) \/ \E j \in 1 .. Len(b) : k = Len(a) + j
    BY <1>1, ConcatIs
  <1>3. ASSUME NEW k \in 1 .. Len(a) PROVE PairedAt(m, k)
    <2>1. m[k] = a[k] /\ PairedAt(a, k)
      BY <1>2 DEF Paired
    <2>2. k < Len(a) => m[k + 1] = a[k + 1]
      BY <1>2
    <2>3. k > 1 => m[k - 1] = a[k - 1]
      BY <1>2
    <2>. QED BY <2>1, <2>2, <2>3, <1>2 DEF PairedAt
  <1>4. ASSUME NEW j \in 1 .. Len(b) PROVE PairedAt(m, Len(a) + j)
    <2>1. PICK k \in Nat : k = Len(a) + j
      BY <1>2
    <2>2. m[k] = b[j] /\ PairedAt(b, j)
      BY <2>1, <1>2 DEF Paired
    <2>3. ASSUME j < Len(b) PROVE m[k + 1] = b[j + 1]
      <3>1. j + 1 \in 1 .. Len(b) /\ Len(a) + (j + 1) = k + 1
        BY <2>3, <2>1, <1>2
      <3>. QED BY <3>1, <1>2
    <2>4. ASSUME j > 1 PROVE m[k - 1] = b[j - 1]
      <3>1. j - 1 \in 1 .. Len(b) /\ Len(a) + (j - 1) = k - 1
        BY <2>4, <2>1, <1>2
      <3>. QED BY <3>1, <1>2
    <2>5. (j < Len(b) => k < Len(m)) /\ (j > 1 => k > 1)
      BY <2>1, <1>2
    <2>6. PairedAt(m, k)
      BY <2>2, <2>3, <2>4, <2>5 DEF PairedAt
    <2>. QED BY <2>1, <2>6
  <1>5. \A k \in 1 .. Len(m) : PairedAt(m, k)
    BY <1>2, <1>3, <1>4
  <1>. QED BY <1>1, <1>5 DEF Paired

LEMMA ConcatSingle ==
    ASSUME NEW a \in Seq(Entries), NEW b \in Seq(Entries), NEW X,
           Single(a, X), Single(b, X), Ids(a) \cap Ids(b) \subseteq X
    PROVE  Single(a \o b, X)
  <1>. DEFINE m == a \o b
  <1>. SUFFICES ASSUME NEW j \in 1 .. Len(m), NEW k \in 1 .. Len(m),
                       m[j].id \in Ids(m) \ X, m[j].id = m[k].id, m[j].role = m[k].role
       PROVE  j = k
    BY DEF Single
  <1>0. m[j].id # 0 /\ m[j].id \notin X
    BY DEF Ids
  <1>1. CASE j \in 1 .. Len(a) /\ k \in 1 .. Len(a)
    <2>1. m[j] = a[j] /\ m[k] = a[k]
      BY <1>1, ConcatIs
    <2>2. a[j].id \in Ids(a) \ X
      BY <2>1, <1>0, <1>1 DEF Ids
    <2>. QED BY <2>1, <2>2, <1>1 DEF Single
  <1>2. ASSUME NEW u \in 1 .. Len(b), NEW v \in 1 .. Len(b), j = Len(a) + u, k = Len(a) + v
        PROVE  j = k
    <2>1. m[j] = b[u] /\ m[k] = b[v]
      BY <1>2, ConcatIs
    <2>2. b[u].id \in Ids(b) \ X
      BY <2>1, <1>0 DEF Ids
    <2>. QED BY <2>1, <2>2, <1>2 DEF Single
  <1>3. ASSUME NEW u \in 1 .. Len(a), NEW v \in 1 .. Len(b), a[u].id = b[v].id, a[u].id # 0
        PROVE  a[u].id \in X
    BY <1>3 DEF Ids
  <1>4. CASE j \in 1 .. Len(a) /\ k \notin 1 .. Len(a)
    <2>1. PICK v \in 1 .. Len(b) : k = Len(a) + v
      BY <1>4, ConcatIs
    <2>2. m[j] = a[j] /\ m[k] = b[v]
      BY <1>4, <2>1, ConcatIs
    <2>. QED BY <2>2, <1>3, <1>0, <1>4
  <1>5. CASE j \notin 1 .. Len(a) /\ k \in 1 .. Len(a)
    <2>1. PICK v \in 1 .. Len(b) : j = Len(a) + v
      BY <1>5, ConcatIs
    <2>2. m[k] = a[k] /\ m[j] = b[v]
      BY <1>5, <2>1, ConcatIs
    <2>. QED BY <2>2, <1>3, <1>0, <1>5
  <1>. QED BY <1>1, <1>2, <1>4, <1>5, ConcatIs

LEMMA ConcatHolds ==
    ASSUME NEW a \in Seq(Entries), NEW b \in Seq(Entries), NEW i
    PROVE  /\ Never(a, i) /\ Never(b, i) => Never(a \o b, i)
           /\ Once(a, i) /\ Never(b, i) => Once(a \o b, i)
           /\ Never(a, i) /\ Once(b, i) => Once(a \o b, i)
  <1>. DEFINE m == a \o b
  <1>1. ASSUME Never(a, i), Never(b, i) PROVE Never(m, i)
    BY <1>1, ConcatIs DEF Never
  <1>2. ASSUME Once(a, i), Never(b, i) PROVE Once(m, i)
    <2>1. PICK k \in 1 .. Len(a) : \A j \in 1 .. Len(a) : i \in a[j].has <=> j = k
      BY <1>2 DEF Once
    <2>2. k \in 1 .. Len(m)
      BY ConcatIs
    <2>3. ASSUME NEW j \in 1 .. Len(m) PROVE i \in m[j].has <=> j = k
      <3>1. CASE j \in 1 .. Len(a)
        BY <3>1, <2>1, ConcatIs
      <3>2. ASSUME NEW v \in 1 .. Len(b), j = Len(a) + v PROVE i \in m[j].has <=> j = k
        BY <3>2, <1>2, ConcatIs DEF Never
      <3>. QED BY <3>1, <3>2, ConcatIs
    <2>. QED BY <2>2, <2>3 DEF Once
  <1>3. ASSUME Never(a, i), Once(b, i) PROVE Once(m, i)
    <2>1. PICK u \in 1 .. Len(b) : \A j \in 1 .. Len(b) : i \in b[j].has <=> j = u
      BY <1>3 DEF Once
    <2>2. Len(a) + u \in 1 .. Len(m)
      BY ConcatIs
    <2>3. ASSUME NEW j \in 1 .. Len(m) PROVE i \in m[j].has <=> j = Len(a) + u
      <3>1. CASE j \in 1 .. Len(a)
        BY <3>1, <1>3, ConcatIs DEF Never
      <3>2. ASSUME NEW v \in 1 .. Len(b), j = Len(a) + v
            PROVE  i \in m[j].has <=> j = Len(a) + u
        BY <3>2, <2>1, ConcatIs
      <3>. QED BY <3>1, <3>2, ConcatIs
    <2>. QED BY <2>2, <2>3 DEF Once
  <1>. QED BY <1>1, <1>2, <1>3
-----------------------------------------------------------------------------
(* What is written *)

LEMMA ItemsAreFacts ==
    ASSUME NEW m \in Seq(Entries)
    PROVE  AllItems(m) \subseteq Facts
  <1>1. ASSUME NEW e \in Entries PROVE Items(e) \subseteq Facts
    BY <1>1 DEF Entries, Roles, Items, Facts
  <1>2. \A k \in 1 .. Len(m) : m[k] \in Entries
    OBVIOUS
  <1>. QED BY <1>1, <1>2, ItemsOf

LEMMA WrittenTypes ==
    /\ \A S \in SUBSET Inputs : User(S) \in Entries /\ Hidden(S) \in Entries
    /\ \A n \in Nat : Reply(n) \in Entries /\ Call(n) \in Entries
    /\ \A n \in Nat, c \in BOOLEAN : Result(n, c) \in Entries
    /\ Notice \in Entries /\ <<Notice>> \in Seq(Entries)
    /\ <<>> \in Seq(Entries)
  BY DEF User, Hidden, Reply, Call, Result, Notice, Entries, Roles

\* Sequences without steps: inputs, notices, commands.
Plain(m) == \A k \in 1 .. Len(m) : m[k].id = 0 /\ m[k].role \notin {"call", "tool"}

LEMMA PlainIs ==
    ASSUME NEW m \in Seq(Entries), Plain(m)
    PROVE  Paired(m) /\ Ids(m) = {} /\ \A X : Single(m, X)
  <1>1. Paired(m)
    BY DEF Plain, Paired, PairedAt
  <1>2. Ids(m) = {}
    BY DEF Plain, Ids
  <1>. QED BY <1>1, <1>2 DEF Single

LEMMA OneIs ==
    ASSUME NEW e \in Entries
    PROVE  /\ <<e>> \in Seq(Entries) /\ <<e>> # <<>> /\ Last(<<e>>) = e
           /\ Ids(<<e>>) = {e.id} \ {0} /\ AllItems(<<e>>) = Items(e)
           /\ e.id = 0 /\ e.role \notin {"call", "tool"} => Plain(<<e>>)
           /\ \A i : IF i \in e.has THEN Once(<<e>>, i) ELSE Never(<<e>>, i)
  <1>1. PICK m : m = <<e>>
    OBVIOUS
  <1>2. m \in Seq(Entries) /\ Len(m) = 1 /\ m[1] = e /\ m # <<>>
    BY <1>1
  <1>3. Last(m) = e
    BY <1>2 DEF Last
  <1>4. Ids(m) = {e.id} \ {0}
    BY <1>2 DEF Ids
  <1>5. AllItems(m) = Items(e)
    <2>1. \A x : x \in AllItems(m) <=> \E k \in 1 .. Len(m) : x \in Items(m[k])
      BY <1>2, ItemsOf
    <2>2. 1 .. Len(m) = {1}
      BY <1>2
    <2>3. \A x : x \in AllItems(m) <=> x \in Items(e)
      BY <2>1, <2>2, <1>2
    <2>. QED BY <2>3, Zenon
  <1>6. e.id = 0 /\ e.role \notin {"call", "tool"} => Plain(m)
    BY <1>2 DEF Plain
  <1>7. \A i : IF i \in e.has THEN Once(m, i) ELSE Never(m, i)
    BY <1>2 DEF Once, Never
  <1>. QED BY <1>1, <1>2, <1>3, <1>4, <1>5, <1>6, <1>7

\* A canned text says nothing.
LEMMA NoticeIs ==
    /\ Notice \in Entries /\ <<Notice>> \in Seq(Entries) /\ <<Notice>> # <<>>
    /\ Plain(<<Notice>>) /\ AllItems(<<Notice>>) = {}
    /\ Last(<<Notice>>).role = "notice"
    /\ \A i : Never(<<Notice>>, i)
  <1>1. Notice \in Entries /\ Notice.id = 0 /\ Notice.role = "notice" /\ Notice.has = {}
    BY WrittenTypes DEF Notice
  <1>2. Items(Notice) = {}
    BY <1>1 DEF Items
  <1>. QED BY <1>1, <1>2, OneIs

\* An answer; a call with its result.
LEMMA ReplyIs ==
    ASSUME NEW n \in Nat \ {0}
    PROVE  LET m == <<Reply(n)>>
           IN /\ m \in Seq(Entries) /\ m # <<>> /\ Last(m) = Reply(n)
              /\ Last(m).role = "assistant"
              /\ Paired(m) /\ Ids(m) = {n} /\ \A X : Single(m, X)
              /\ AllItems(m) = {<<"assistant", n>>} /\ \A i : Never(m, i)
  <1>1. PICK e : e = Reply(n)
    OBVIOUS
  <1>2. e \in Entries /\ e.id = n /\ e.role = "assistant" /\ e.has = {}
    BY <1>1, WrittenTypes DEF Reply
  <1>3. PICK m : m = <<e>>
    OBVIOUS
  <1>4. /\ m \in Seq(Entries) /\ m # <<>> /\ Last(m) = e /\ Ids(m) = {n}
        /\ AllItems(m) = Items(e) /\ \A i : Never(m, i)
    BY <1>2, <1>3, OneIs
  <1>5. Items(e) = {<<"assistant", n>>}
    BY <1>2 DEF Items
  <1>6. Len(m) = 1 /\ m[1] = e
    BY <1>3
  <1>7. Paired(m) /\ \A X : Single(m, X)
    BY <1>2, <1>6 DEF Paired, PairedAt, Single
  <1>. QED BY <1>1, <1>2, <1>3, <1>4, <1>5, <1>7

LEMMA CallIs ==
    ASSUME NEW n \in Nat \ {0}, NEW c \in BOOLEAN
    PROVE  LET m == <<Call(n), Result(n, c)>>
           IN /\ m \in Seq(Entries) /\ m # <<>> /\ Last(m).role = "tool"
              /\ Paired(m) /\ Ids(m) = {n} /\ \A X : Single(m, X)
              /\ AllItems(m) = {<<"call", n>>, <<"tool", n>>} /\ \A i : Never(m, i)
  <1>1. PICK e, f : e = Call(n) /\ f = Result(n, c)
    OBVIOUS
  <1>2. /\ e \in Entries /\ e.id = n /\ e.role = "call" /\ e.has = {}
        /\ f \in Entries /\ f.id = n /\ f.role = "tool" /\ f.has = {}
    BY <1>1, WrittenTypes DEF Call, Result
  <1>3. PICK m : m = <<e, f>>
    OBVIOUS
  <1>4. m \in Seq(Entries) /\ m # <<>> /\ Len(m) = 2 /\ m[1] = e /\ m[2] = f
    BY <1>2, <1>3
  <1>5. Last(m).role = "tool"
    BY <1>2, <1>4 DEF Last
  <1>6. Paired(m)
    BY <1>2, <1>4 DEF Paired, PairedAt
  <1>7. Ids(m) = {n}
    BY <1>2, <1>4 DEF Ids
  <1>8. \A X : Single(m, X)
    BY <1>2, <1>4 DEF Single
  <1>9. AllItems(m) = Items(e) \cup Items(f)
    BY <1>4, ItemsOf
  <1>10. Items(e) = {<<"call", n>>} /\ Items(f) = {<<"tool", n>>}
    BY <1>2 DEF Items
  <1>11. \A i : Never(m, i)
    BY <1>2, <1>4 DEF Never
  <1>. QED BY <1>1, <1>3, <1>4, <1>5, <1>6, <1>7, <1>8, <1>9, <1>10, <1>11

\* What a checkpoint stands for.
LEMMA CheckpointIs ==
    ASSUME NEW c \in Checkpoints, c.id # 0
    PROVE  LET r == CheckpointMessages(c)
           IN /\ r \in Seq(Entries) /\ r # <<>> /\ Last(r).role \in {"assistant", "tool"}
              /\ Paired(r) /\ Ids(r) = {c.id} /\ \A X : Single(r, X)
              /\ \A i : Never(r, i)
              /\ AllItems(r) = IF c.phase = "final_response" THEN {<<"assistant", c.id>>}
                               ELSE {<<"call", c.id>>, <<"tool", c.id>>}
  <1>1. c.id \in Nat \ {0} /\ (c.phase = "awaiting_tools") \in BOOLEAN
    BY DEF Checkpoints
  <1>2. CASE c.phase = "final_response"
    BY <1>1, <1>2, ReplyIs DEF CheckpointMessages
  <1>3. CASE c.phase # "final_response"
    BY <1>1, <1>3, CallIs DEF CheckpointMessages
  <1>. QED BY <1>2, <1>3
-----------------------------------------------------------------------------
(* The repair *)

\* m ends with r.
EndsWith(m, r) == Len(r) <= Len(m) /\ \A j \in 1 .. Len(r) : m[(Len(m) - Len(r)) + j] = r[j]

LEMMA OneOf ==
    ASSUME NEW m \in Seq(Entries), NEW k \in 1 .. Len(m)
    PROVE  SubSeq(m, k, k) = <<m[k]>>
  <1>1. k \in Int /\ \A i \in k .. k : m[i] \in Entries
    OBVIOUS
  <1>2. PICK s : s = SubSeq(m, k, k)
    OBVIOUS
  <1>3. s \in Seq(Entries) /\ Len(s) = 1 /\ s[1] = m[k]
    BY <1>1, <1>2, SubSeqProperties
  <1>4. PICK u : u = <<m[k]>>
    OBVIOUS
  <1>5. u \in Seq(Entries) /\ Len(u) = 1 /\ u[1] = m[k]
    BY <1>4
  <1>6. \A i \in 1 .. Len(s) : s[i] = u[i]
    BY <1>3, <1>5
  <1>7. s = u
    BY <1>3, <1>5, <1>6, SeqEqual
  <1>. QED BY <1>2, <1>4, <1>7

\* The overlap of a legal transcript with a checkpoint is nothing or all of it:
\* a call without its result is not in the transcript.
LEMMA OverlapIs ==
    ASSUME NEW m \in Seq(Entries), Paired(m), NEW c \in Checkpoints, c.id # 0
    PROVE  LET r == CheckpointMessages(c)
           IN /\ Overlap(m, r) = 0 \/ (Overlap(m, r) = Len(r) /\ EndsWith(m, r))
              /\ Ends(m, c) => Overlap(m, r) = Len(r)
  <1>1. PICK r : r = CheckpointMessages(c)
    OBVIOUS
  <1>2. /\ r \in Seq(Entries) /\ Len(r) \in {1, 2}
        /\ c.phase = "final_response" => Len(r) = 1 /\ r[1] = Reply(c.id)
        /\ Len(r) = 2 => r[1].role = "call"
    <2>1. c.id \in Nat /\ (c.phase = "awaiting_tools") \in BOOLEAN
      BY DEF Checkpoints
    <2>2. CASE c.phase = "final_response"
      <3>1. r = <<Reply(c.id)>> /\ Reply(c.id) \in Entries
        BY <2>2, <2>1, <1>1, WrittenTypes DEF CheckpointMessages
      <3>. QED BY <3>1
    <2>3. CASE c.phase # "final_response"
      <3>1. PICK e, f : e = Call(c.id) /\ f = Result(c.id, c.phase = "awaiting_tools")
        OBVIOUS
      <3>2. e \in Entries /\ f \in Entries /\ e.role = "call"
        BY <3>1, <2>1, WrittenTypes DEF Call
      <3>3. r = <<e, f>>
        BY <2>3, <3>1, <1>1 DEF CheckpointMessages
      <3>. QED BY <2>3, <3>2, <3>3
    <2>. QED BY <2>2, <2>3
  <1>. DEFINE K == {k \in 1 .. Len(r) : k <= Len(m)
                        /\ From(m, Len(m) - k) = SubSeq(r, 1, k)}
  <1>3. Overlap(m, r) \in {0} \cup K /\ \A k \in {0} \cup K : Overlap(m, r) >= k
    <2>1. K \subseteq {1, 2}
      BY <1>2
    <2>2. \E x \in {0} \cup K : \A y \in {0} \cup K : x >= y
      <3>1. ASSUME NEW S \in SUBSET {1, 2}
            PROVE  \E x \in {0} \cup S : \A y \in {0} \cup S : x >= y
        <4>1. CASE 2 \in S
          BY <4>1
        <4>2. CASE 2 \notin S /\ 1 \in S
          BY <4>2
        <4>3. CASE 2 \notin S /\ 1 \notin S
          BY <4>3
        <4>. QED BY <4>1, <4>2, <4>3
      <3>2. K \in SUBSET {1, 2}
        BY <2>1
      <3>. HIDE DEF K
      <3>. QED BY <3>1, <3>2
    <2>3. PICK S : S = {0} \cup K
      OBVIOUS
    <2>4. Max(S) \in S /\ \A y \in S : Max(S) >= y
      BY <2>2, <2>3 DEF Max
    <2>5. Overlap(m, r) = Max(S)
      BY <2>3 DEF Overlap
    <2>. QED BY <2>3, <2>4, <2>5
  <1>4. ASSUME NEW k \in K
        PROVE  k <= Len(m) /\ \A j \in 1 .. k : m[(Len(m) - k) + j] = r[j]
    <2>1. k \in Nat /\ k <= Len(r) /\ k <= Len(m) /\ Len(m) \in Nat
      BY <1>2
    <2>2. SubSeq(m, (Len(m) - k) + 1, Len(m)) = SubSeq(r, 1, k)
      BY DEF From
    <2>3. ASSUME NEW j \in 1 .. k
          PROVE  /\ SubSeq(r, 1, k)[j] = r[j]
                 /\ SubSeq(m, (Len(m) - k) + 1, Len(m))[j] = m[(Len(m) - k) + j]
      BY <2>1, <1>2
    <2>. QED BY <2>1, <2>2, <2>3
  <1>9. \A k \in K : k \in {1, 2} /\ k <= Len(r)
    BY <1>2
  <1>10. PICK o : o = Overlap(m, r)
    OBVIOUS
  <1>11. (o = 0 \/ o \in K) /\ (1 \in K => o >= 1)
    BY <1>3, <1>10
  <1>8. 1 <= Len(m) /\ From(m, Len(m) - 1) = SubSeq(r, 1, 1) => 1 \in K
    BY <1>2
  <1>. HIDE DEF K
  <1>5. ASSUME 1 \in K, Len(r) = 2 PROVE FALSE
    <2>1. 1 <= Len(m) /\ m[Len(m)].role = "call"
      BY <1>5, <1>4, <1>2
    <2>. QED BY <2>1 DEF Paired, PairedAt
  <1>6. o = 0 \/ (o = Len(r) /\ EndsWith(m, r))
    <2>1. CASE o \in K
      <3>1. o = Len(r)
        <4>1. CASE Len(r) = 1
          BY <4>1, <2>1, <1>9
        <4>2. CASE Len(r) = 2
          BY <4>2, <2>1, <1>9, <1>5
        <4>. QED BY <4>1, <4>2, <1>2
      <3>. QED BY <3>1, <2>1, <1>4 DEF EndsWith
    <2>. QED BY <2>1, <1>11
  <1>7. ASSUME Ends(m, c) PROVE o = Len(r)
    <2>1. /\ Len(r) = 1 /\ r[1] = Reply(c.id)
          /\ Len(m) \in Nat \ {0} /\ m[Len(m)] = Reply(c.id)
      BY <1>7, <1>2 DEF Ends, Last
    <2>2. SubSeq(m, (Len(m) - 1) + 1, Len(m)) = <<Reply(c.id)>> /\ SubSeq(r, 1, 1) = <<Reply(c.id)>>
      <3>1. (Len(m) - 1) + 1 = Len(m)
        BY <2>1
      <3>2. SubSeq(m, Len(m), Len(m)) = <<m[Len(m)]>>
        BY <2>1, OneOf
      <3>3. SubSeq(r, 1, 1) = <<r[1]>>
        <4>1. 1 \in 1 .. Len(r)
          BY <2>1
        <4>. QED BY <4>1, <1>2, OneOf
      <3>. QED BY <3>1, <3>2, <3>3, <2>1
    <2>3. 1 \in K
      BY <2>1, <2>2, <1>8 DEF From
    <2>. QED BY <2>3, <2>1, <1>11, <1>9
  <1>. QED BY <1>1, <1>10, <1>6, <1>7
LEMMA SessionFields ==
    ASSUME NEW s \in Sessions
    PROVE  /\ s.messages \in Seq(Entries) /\ s.pending \in BOOLEAN
           /\ s.checkpoint \in {None} \cup Checkpoints /\ s.provider \in States
           /\ s.checkpoint # None => s.checkpoint \in Checkpoints
  BY DEF Sessions

LEMMA EndsWithIs ==
    ASSUME NEW m \in Seq(Entries), NEW r \in Seq(Entries), r # <<>>, EndsWith(m, r)
    PROVE  m # <<>> /\ Last(m) = Last(r) /\ Ids(<<Last(r)>>) \subseteq Ids(m)
  <1>1. Len(r) \in Nat \ {0} /\ Len(m) \in Nat \ {0} /\ m # <<>>
    BY DEF EndsWith
  <1>2. m[Len(m)] = r[Len(r)]
    BY <1>1 DEF EndsWith
  <1>3. Last(m) = Last(r) /\ Last(m) \in Entries
    BY <1>1, <1>2 DEF Last
  <1>4. {Last(m).id} \ {0} \subseteq Ids(m)
    BY <1>1 DEF Last, Ids
  <1>. QED BY <1>1, <1>3, <1>4, OneIs

\* The repair appends the checkpoint's messages, or finds all of them.
LEMMA MaterializeIs ==
    ASSUME NEW s \in Sessions, Paired(s.messages), s.checkpoint # None, s.checkpoint.id # 0
    PROVE  LET t == Materialize(s)
               r == CheckpointMessages(s.checkpoint)
           IN /\ t \in Sessions /\ ~t.pending /\ t.checkpoint = None
              /\ t.provider = IF Exact(s.checkpoint) THEN s.provider ELSE None
              /\ \/ t.messages = s.messages \o r /\ ~Ends(s.messages, s.checkpoint)
                 \/ t.messages = s.messages /\ EndsWith(s.messages, r)
  <1>1. PICK m, c, r : m = s.messages /\ c = s.checkpoint /\ r = CheckpointMessages(c)
    OBVIOUS
  <1>2. /\ m \in Seq(Entries) /\ c \in Checkpoints /\ c.id # 0 /\ Paired(m)
        /\ s.provider \in States
    BY <1>1, SessionFields
  <1>3. r \in Seq(Entries) /\ Len(r) \in Nat /\ r # <<>>
    BY <1>1, <1>2, CheckpointIs
  <1>4. PICK b : b = From(r, Overlap(m, r))
    OBVIOUS
  <1>5. ASSUME Overlap(m, r) = 0 PROVE b = r /\ ~Ends(m, c)
    <2>1. SubSeq(r, 1, Len(r)) = r
      BY <1>3, SubSeqFull
    <2>2. b = r
      BY <2>1, <1>5, <1>4, <1>3 DEF From
    <2>3. ~Ends(m, c)
      <3>1. Ends(m, c) => Overlap(m, r) = Len(r)
        BY <1>1, <1>2, OverlapIs
      <3>2. Len(r) # 0
        BY <1>3
      <3>. QED BY <3>1, <3>2, <1>5
    <2>. QED BY <2>2, <2>3
  <1>6. ASSUME Overlap(m, r) = Len(r) PROVE b = <<>>
    <2>1. SubSeq(r, Len(r) + 1, Len(r)) = <<>>
      BY <1>3, SubSeqEmpty
    <2>. QED BY <2>1, <1>6, <1>4 DEF From
  <1>7. \/ b = r /\ ~Ends(m, c)
        \/ b = <<>> /\ EndsWith(m, r)
    BY <1>1, <1>2, <1>5, <1>6, OverlapIs
  <1>8. Materialize(s) =
             [messages |-> m \o b, pending |-> FALSE, checkpoint |-> None,
                          provider |-> IF Exact(c) THEN s.provider ELSE None]
    BY <1>1, <1>4, <1>2 DEF Materialize
  <1>9. m \o b \in Seq(Entries) /\ (b = <<>> => m \o b = m)
    <2>1. m \o <<>> = m
      BY <1>2, ConcatEmptySeq
    <2>2. b \in Seq(Entries)
      BY <1>3, <1>7, WrittenTypes
    <2>. QED BY <2>1, <2>2, <1>2, ConcatIs
  <1>10. (IF Exact(c) THEN s.provider ELSE None) \in States
    BY <1>2 DEF States
  <1>. HIDE DEF Exact
  <1>. QED BY <1>1, <1>7, <1>8, <1>9, <1>10 DEF Sessions
LEMMA LastOfCheckpoint ==
    ASSUME NEW c \in Checkpoints
    PROVE  LET r == CheckpointMessages(c) IN Last(r).id = c.id /\ Last(r) \in Entries
  <1>1. c.id \in Nat /\ (c.phase = "awaiting_tools") \in BOOLEAN
    BY DEF Checkpoints
  <1>2. PICK e, f, g : /\ e = Call(c.id) /\ f = Result(c.id, c.phase = "awaiting_tools")
                       /\ g = Reply(c.id)
    OBVIOUS
  <1>3. f \in Entries /\ f.id = c.id /\ g \in Entries /\ g.id = c.id
    BY <1>1, <1>2, WrittenTypes DEF Result, Reply
  <1>4. Last(<<e, f>>) = f /\ Last(<<g>>) = g
    BY DEF Last
  <1>. QED BY <1>2, <1>3, <1>4 DEF CheckpointMessages

\* More answers, exceptions and joined follow-ups, and fewer inputs to hold.
LEMMA Weaker ==
    ASSUME NEW s, NEW n \in Nat, NEW X, NEW J, NEW sh, NEW K, NEW O,
           SoundIn(s, n, X, J, sh, K, O),
           NEW l \in Nat, n <= l, NEW Y, X \subseteq Y, NEW L, J \subseteq L,
           NEW th, th = sh \/ th = <<>>, NEW P, P \subseteq K, NEW Q, Q \subseteq O
    PROVE  SoundIn(s, l, Y, L, th, P, Q)
  <1>1. Legal(s, Y)
    BY DEF SoundIn, Legal, Single, Fits
  <1>2. Numbered(s, l)
    BY DEF SoundIn, Numbered
  <1>3. Covered(s, L)
    <2>1. Merged(J) \subseteq Merged(L)
      BY DEF Merged
    <2>. QED BY <2>1 DEF SoundIn, Covered
  <1>4. Remembers(s, th)
    BY DEF SoundIn, Remembers
  <1>5. Holds(s, P, Q)
    BY DEF SoundIn, Holds
  <1>. QED BY <1>1, <1>2, <1>3, <1>4, <1>5 DEF SoundIn

\* The repaired session is sound, and its checkpoint is in its messages.
LEMMA MaterializeSound ==
    ASSUME NEW s, NEW n \in Nat, NEW X, NEW J, NEW sh, NEW K, NEW O,
           SoundIn(s, n, X, J, sh, K, O)
    PROVE  LET t == Materialize(s)
           IN /\ SoundIn(t, n, X, J, sh, K, O) /\ t.checkpoint = None
              /\ s.checkpoint # None => ~t.pending /\ ~Asks(t.messages)
  <1>1. CASE s.checkpoint = None
    BY <1>1 DEF Materialize
  <1>2. CASE s.checkpoint # None
    <2>1. PICK m, c, r, t : /\ m = s.messages /\ c = s.checkpoint
                            /\ r = CheckpointMessages(c) /\ t = Materialize(s)
      OBVIOUS
    <2>2. /\ s \in Sessions /\ m \in Seq(Entries) /\ c \in Checkpoints
          /\ c.id \in 1 .. n /\ c.id # 0 /\ Paired(m) /\ Single(m, X) /\ Fits(m, c, X)
          /\ Ids(m) \subseteq 1 .. n
      BY <1>2, <2>1, SessionFields DEF SoundIn, Legal, Numbered
    <2>3. /\ r \in Seq(Entries) /\ r # <<>> /\ Last(r).role \in {"assistant", "tool"}
          /\ Paired(r) /\ Ids(r) = {c.id} /\ Single(r, X) /\ \A i : Never(r, i)
      BY <2>1, <2>2, CheckpointIs
    <2>4. /\ t \in Sessions /\ ~t.pending /\ t.checkpoint = None
          /\ t.provider = IF Exact(c) THEN s.provider ELSE None
          /\ \/ t.messages = m \o r /\ ~Ends(m, c)
             \/ t.messages = m /\ EndsWith(m, r)
      BY <1>2, <2>1, <2>2, MaterializeIs
    <2>5. ASSUME t.messages = m \o r, ~Ends(m, c)
          PROVE  /\ Paired(t.messages) /\ Single(t.messages, X)
                 /\ Ids(t.messages) = Ids(m) \cup {c.id}
                 /\ AllItems(t.messages) = AllItems(m) \cup AllItems(r)
                 /\ t.messages # <<>> /\ Last(t.messages) = Last(r)
                 /\ Holds(t, K, O)
      <3>1. Ids(m) \cap Ids(r) \subseteq X
        BY <2>2, <2>3, <2>5 DEF Fits
      <3>2. Holds(t, K, O)
        BY <2>1, <2>2, <2>3, <2>5, ConcatHolds DEF SoundIn, Holds
      <3>. QED BY <3>1, <3>2, <2>2, <2>3, <2>5, ConcatPaired, ConcatSingle, ConcatIds,
                  ConcatItems, ConcatEnds
    <2>6. ASSUME t.messages = m, EndsWith(m, r)
          PROVE  /\ Paired(t.messages) /\ Single(t.messages, X)
                 /\ Ids(t.messages) = Ids(m) \cup {c.id}
                 /\ AllItems(t.messages) \subseteq AllItems(m) \cup AllItems(r)
                 /\ t.messages # <<>> /\ Last(t.messages) = Last(r)
                 /\ Holds(t, K, O)
      <3>1. m # <<>> /\ Last(m) = Last(r) /\ Ids(<<Last(r)>>) \subseteq Ids(m)
        BY <2>2, <2>3, <2>6, EndsWithIs
      <3>2. Holds(t, K, O)
        BY <2>1, <2>6 DEF SoundIn, Holds
      <3>3. c.id \in Ids(m)
        <4>1. Last(r).id = c.id /\ Last(r) \in Entries
          BY <2>1, <2>2, <2>3, LastOfCheckpoint
        <4>2. c.id \in Ids(<<Last(r)>>)
          BY <4>1, <2>2, OneIs
        <4>. QED BY <4>2, <3>1
      <3>. QED BY <3>1, <3>2, <3>3, <2>2, <2>6
    <2>7. /\ Paired(t.messages) /\ Single(t.messages, X)
          /\ Ids(t.messages) = Ids(m) \cup {c.id}
          /\ AllItems(t.messages) \subseteq AllItems(m) \cup AllItems(r)
          /\ t.messages # <<>> /\ Last(t.messages) = Last(r)
          /\ Holds(t, K, O)
      BY <2>4, <2>5, <2>6
    <2>8. Legal(t, X) /\ Numbered(t, n)
      BY <2>2, <2>4, <2>7 DEF Legal, Numbered
    <2>9. Covered(t, J)
      <3>1. ASSUME t.provider # None
            PROVE  /\ AllItems(m) \subseteq t.provider \cup Merged(J)
                   /\ AllItems(r) \subseteq t.provider \cup Merged(J)
        BY <3>1, <1>2, <2>1, <2>4 DEF SoundIn, Covered
      <3>. QED BY <3>1, <2>4, <2>7 DEF Covered
    <2>10. ~Asks(t.messages)
      BY <2>3, <2>7 DEF Asks
    <2>11. Remembers(t, sh)
      BY <2>1, <2>7 DEF SoundIn, Remembers
    <2>12. SoundIn(t, n, X, J, sh, K, O)
      BY <2>4, <2>7, <2>8, <2>9, <2>10, <2>11 DEF SoundIn, Marked
    <2>. QED BY <2>1, <2>4, <2>10, <2>12
  <1>. QED BY <1>1, <1>2
\* Inputs and canned texts b are added to s, which becomes t.
Extended(s, b, t, J) ==
    /\ b \in Seq(Entries) /\ b # <<>> /\ Plain(b)
    /\ t \in Sessions /\ t.messages = s.messages \o b
    /\ s.checkpoint = None /\ t.checkpoint = None
    /\ t.provider # None =>
          AllItems(s.messages) \cup AllItems(b) \subseteq t.provider \cup Merged(J)
    /\ Last(b).role = "user" => t.pending
Moved(b, K, O, P, Q) ==
    /\ \A i \in P : (i \in K /\ Never(b, i)) \/ (i \in O /\ Once(b, i))
    /\ \A i \in Q : i \in O /\ Never(b, i)

LEMMA MovedHolds ==
    ASSUME NEW a \in Seq(Entries), NEW b \in Seq(Entries), NEW K, NEW O, NEW P, NEW Q,
           \A i \in K : Once(a, i), \A i \in O : Never(a, i), Moved(b, K, O, P, Q)
    PROVE  (\A i \in P : Once(a \o b, i)) /\ (\A i \in Q : Never(a \o b, i))
  <1>1. ASSUME NEW i \in P PROVE Once(a \o b, i)
    BY ConcatHolds DEF Moved
  <1>2. ASSUME NEW i \in Q PROVE Never(a \o b, i)
    BY ConcatHolds DEF Moved
  <1>. QED BY <1>1, <1>2

LEMMA PlainSound ==
    ASSUME NEW s, NEW n \in Nat, NEW X, NEW J, NEW sh, NEW K, NEW O,
           SoundIn(s, n, X, J, sh, K, O),
           NEW b, NEW t, Extended(s, b, t, J),
           NEW P, NEW Q, Moved(b, K, O, P, Q)
    PROVE  SoundIn(t, n, X, J, sh, P, Q)
  <1>. b \in Seq(Entries) /\ b # <<>> /\ Plain(b)
    BY DEF Extended
  <1>1. PICK m : m = s.messages
    OBVIOUS
  <1>2. /\ m \in Seq(Entries) /\ Paired(m) /\ Single(m, X) /\ Ids(m) \subseteq 1 .. n
    BY <1>1, SessionFields DEF SoundIn, Legal, Numbered
  <1>3. Paired(b) /\ Ids(b) = {} /\ Single(b, X)
    BY PlainIs
  <1>4. /\ Paired(m \o b) /\ Single(m \o b, X) /\ Ids(m \o b) = Ids(m)
        /\ AllItems(m \o b) = AllItems(m) \cup AllItems(b)
        /\ Last(m \o b) = Last(b)
    <2>1. Paired(m \o b)
      BY <1>2, <1>3, ConcatPaired
    <2>2. Ids(m) \cap Ids(b) \subseteq X
      BY <1>3
    <2>3. Single(m \o b, X)
      BY <1>2, <1>3, <2>2, ConcatSingle
    <2>4. Ids(m \o b) = Ids(m) \cup Ids(b) /\ AllItems(m \o b) = AllItems(m) \cup AllItems(b)
      BY <1>2, ConcatIds, ConcatItems
    <2>5. Last(m \o b) = Last(b)
      BY <1>2, ConcatEnds
    <2>6. Ids(m \o b) = Ids(m)
      BY <2>4, <1>3
    <2>. QED BY <2>1, <2>3, <2>4, <2>5, <2>6
  <1>5. Legal(t, X) /\ Numbered(t, n)
    BY <1>1, <1>2, <1>4 DEF Legal, Numbered, Extended
  <1>6. Covered(t, J)
    BY <1>1, <1>4 DEF Covered, Extended
  <1>7. Marked(t)
    BY <1>1, <1>4 DEF Marked, Asks, Extended
  <1>8. Remembers(t, sh)
    BY <1>1, <1>4 DEF SoundIn, Remembers, Extended
  <1>9. Holds(t, P, Q)
    <2>1. (\A i \in K : Once(m, i)) /\ (\A i \in O : Never(m, i))
      BY <1>1 DEF SoundIn, Holds
    <2>2. t.messages = m \o b
      BY <1>1 DEF Extended
    <2>. QED BY <2>1, <2>2, <1>2, MovedHolds DEF Holds
  <1>. QED BY <1>5, <1>6, <1>7, <1>8, <1>9 DEF SoundIn, Extended

LEMMA ClosePendingSound ==
    ASSUME NEW s, NEW n \in Nat, NEW X, NEW J, NEW sh, NEW K, NEW O,
           SoundIn(s, n, X, J, sh, K, O), s.checkpoint = None
    PROVE  LET t == ClosePending(s)
           IN SoundIn(t, n, X, J, sh, K, O) /\ Closed(t)
  <1>1. PICK m, t : m = s.messages /\ t = ClosePending(s)
    OBVIOUS
  <1>2. s \in Sessions /\ m \in Seq(Entries) /\ s.provider \in States
    BY <1>1, SessionFields DEF SoundIn
  <1>3. CASE s.pending /\ Asks(m)
    <2>1. PICK b : b = <<Notice>>
      OBVIOUS
    <2>2. /\ b \in Seq(Entries) /\ b # <<>> /\ Plain(b) /\ AllItems(b) = {}
          /\ Last(b).role = "notice" /\ \A i : Never(b, i)
      BY <2>1, NoticeIs
    <2>3. Append(m, Notice) = m \o b
      BY <1>2, <2>1, NoticeIs, AppendIsConcat
    <2>4. t = [s EXCEPT !.messages = m \o b, !.pending = FALSE, !.provider = None]
      BY <1>1, <1>3, <2>3 DEF ClosePending, Asks
    <2>5. m \o b \in Seq(Entries) /\ None \in States
      BY <1>2, <2>2, ConcatIs DEF States
    <2>6. /\ t \in Sessions /\ t.messages = m \o b /\ ~t.pending /\ t.checkpoint = None
          /\ t.provider = None
      BY <1>2, <2>4, <2>5 DEF Sessions
    <2>7. SoundIn(t, n, X, J, sh, K, O)
      BY <1>1, <2>2, <2>6, PlainSound DEF Extended, Moved
    <2>8. ~Asks(t.messages)
      BY <1>2, <2>2, <2>6, ConcatEnds DEF Asks
    <2>. QED BY <1>1, <2>6, <2>7, <2>8 DEF Closed
  <1>4. CASE ~(s.pending /\ Asks(m))
    <2>1. t = [s EXCEPT !.pending = FALSE]
      BY <1>1, <1>4 DEF ClosePending, Asks
    <2>2. /\ t \in Sessions /\ t.messages = m /\ ~t.pending /\ t.checkpoint = None
          /\ t.provider = s.provider
      BY <1>1, <1>2, <2>1 DEF Sessions
    <2>3. ~Asks(m)
      BY <1>1, <1>4 DEF SoundIn, Marked
    <2>4. /\ Legal(t, X) /\ Numbered(t, n) /\ Covered(t, J) /\ Marked(t)
          /\ Remembers(t, sh) /\ Holds(t, K, O)
      BY <1>1, <2>2, <2>3
      DEF SoundIn, Legal, Numbered, Covered, Marked, Remembers, Holds
    <2>. QED BY <1>1, <2>2, <2>3, <2>4 DEF SoundIn, Closed
  <1>. QED BY <1>3, <1>4

\* A turn starts: the session is repaired.
LEMMA RepairSound ==
    ASSUME NEW s, NEW n \in Nat, NEW X, NEW J, NEW sh, NEW K, NEW O,
           SoundIn(s, n, X, J, sh, K, O)
    PROVE  LET t == ClosePending(Materialize(s))
           IN SoundIn(t, n, X, J, sh, K, O) /\ Closed(t)
  BY MaterializeSound, ClosePendingSound

\* A command and its answer.
LEMMA CommandSound ==
    ASSUME NEW s, NEW n \in Nat, NEW X, NEW J, NEW sh, NEW K, NEW O,
           SoundIn(s, n, X, J, sh, K, O), Closed(s), NEW i \in Inputs, i \in O, i \notin K
    PROVE  SoundIn([s EXCEPT !.messages = @ \o Slash(i)], n, X, J, sh,
                   K \cup {i}, O \ {i})
  <1>1. PICK m, b, t : /\ m = s.messages /\ b = Slash(i)
                       /\ t = [s EXCEPT !.messages = @ \o Slash(i)]
    OBVIOUS
  <1>2. s \in Sessions /\ m \in Seq(Entries)
    BY <1>1, SessionFields DEF SoundIn
  <1>3. /\ b \in Seq(Entries) /\ Len(b) = 2 /\ b[1].has = {i} /\ b[2].has = {}
        /\ b[1].role = "command" /\ b[2].role = "command" /\ b[1].id = 0 /\ b[2].id = 0
    <2>1. PICK e, f : /\ e = [role |-> "command", id |-> 0, has |-> {i}, cut |-> FALSE]
                      /\ f = [role |-> "command", id |-> 0, has |-> {}, cut |-> FALSE]
      OBVIOUS
    <2>2. /\ e \in Entries /\ e.role = "command" /\ e.id = 0 /\ e.has = {i}
          /\ f \in Entries /\ f.role = "command" /\ f.id = 0 /\ f.has = {}
      BY <2>1 DEF Entries, Roles
    <2>3. b = <<e, f>>
      BY <1>1, <2>1 DEF Slash
    <2>. QED BY <2>2, <2>3
  <1>4. b # <<>> /\ Plain(b) /\ Last(b).role = "command"
    <2>1. b # <<>> /\ Last(b) = b[2]
      BY <1>3 DEF Last
    <2>2. \A k \in 1 .. Len(b) : b[k].id = 0 /\ b[k].role = "command"
      BY <1>3
    <2>. QED BY <2>1, <2>2, <1>3 DEF Plain
  <1>5. AllItems(b) = {}
    <2>1. \A k \in 1 .. Len(b) : Items(b[k]) = {}
      BY <1>3 DEF Items
    <2>. QED BY <2>1, <1>3, ItemsOf
  <1>6. Once(b, i) /\ \A j : j # i => Never(b, j)
    BY <1>3 DEF Once, Never
  <1>7. m \o b \in Seq(Entries) /\ t = [s EXCEPT !.messages = m \o b]
    BY <1>1, <1>2, <1>3, ConcatIs
  <1>8. /\ t \in Sessions /\ t.messages = m \o b /\ t.checkpoint = None
        /\ t.provider = s.provider
    BY <1>2, <1>7 DEF Sessions, Closed
  <1>9. t.provider # None =>
            AllItems(m) \cup AllItems(b) \subseteq t.provider \cup Merged(J)
    BY <1>1, <1>5, <1>8 DEF SoundIn, Covered
  <1>10. Moved(b, K, O, K \cup {i}, O \ {i})
    BY <1>6 DEF Moved
  <1>11. Extended(s, b, t, J)
    BY <1>1, <1>3, <1>4, <1>8, <1>9 DEF Extended, Closed
  <1>12. SoundIn(t, n, X, J, sh, K \cup {i}, O \ {i})
    BY <1>10, <1>11, PlainSound
  <1>. QED BY <1>1, <1>12
\* The input of a turn and the provider's state that knows it.
Own(i) == IF i \in SubResults THEN Hidden({i}) ELSE User({i})
Staged(s, i) == IF s.provider = None THEN None ELSE s.provider \cup Items(Own(i))
Built(s, i) == [s EXCEPT !.messages = Append(@, Own(i)),
                         !.pending = @ \/ i \notin SubResults, !.provider = Staged(s, i)]

LEMMA BuildSound ==
    ASSUME NEW s, NEW n \in Nat, NEW X, NEW J, NEW sh, NEW K, NEW O,
           SoundIn(s, n, X, J, sh, K, O), Closed(s), NEW i \in Inputs, i \in O, i \notin K
    PROVE  /\ SoundIn(Built(s, i), n, X, J, sh, K \cup {i}, O \ {i})
           /\ Built(s, i).checkpoint = None
           /\ Built(s, i).provider = Staged(s, i) /\ Staged(s, i) \in States
  <1>1. PICK m, e, b, t : /\ m = s.messages /\ e = Own(i) /\ b = <<e>> /\ t = Built(s, i)
    OBVIOUS
  <1>2. /\ s \in Sessions /\ m \in Seq(Entries) /\ s.provider \in States
        /\ s.pending \in BOOLEAN /\ s.checkpoint = None
    BY <1>1, SessionFields DEF SoundIn, Closed
  <1>3. /\ e \in Entries /\ e.id = 0 /\ e.has = {i}
        /\ e.role = IF i \in SubResults THEN "hidden" ELSE "user"
    BY <1>1 DEF Own, Hidden, User, Entries, Roles
  <1>4. /\ b \in Seq(Entries) /\ b # <<>> /\ Last(b) = e /\ Plain(b)
        /\ AllItems(b) = Items(e) /\ Once(b, i) /\ \A j : j # i => Never(b, j)
    <2>1. e.role \notin {"call", "tool"}
      BY <1>3
    <2>. QED BY <1>1, <1>3, <2>1, OneIs
  <1>5. Staged(s, i) \in States
    <2>1. Items(e) \subseteq Facts
      BY <1>4, ItemsAreFacts
    <2>. QED BY <1>1, <1>2, <2>1 DEF Staged, States
  <1>6. Append(m, e) = m \o b /\ m \o b \in Seq(Entries)
    BY <1>1, <1>2, <1>3, <1>4, AppendIsConcat, ConcatIs
  <1>7. /\ t \in Sessions /\ t.messages = m \o b /\ t.checkpoint = None
        /\ t.provider = Staged(s, i) /\ t.pending = (s.pending \/ i \notin SubResults)
    <2>1. PICK p, q : p = (s.pending \/ i \notin SubResults) /\ q = Staged(s, i)
      OBVIOUS
    <2>2. p \in BOOLEAN /\ q \in States
      BY <2>1, <1>5
    <2>3. t = [s EXCEPT !.messages = m \o b, !.pending = p, !.provider = q]
      BY <2>1, <1>1, <1>6 DEF Built
    <2>. QED BY <2>1, <2>2, <2>3, <1>2, <1>6 DEF Sessions
  <1>8. t.provider # None =>
            AllItems(m) \cup AllItems(b) \subseteq t.provider \cup Merged(J)
    BY <1>1, <1>4, <1>7 DEF SoundIn, Covered, Staged
  <1>9. Extended(s, b, t, J)
    BY <1>1, <1>2, <1>3, <1>4, <1>7, <1>8 DEF Extended
  <1>10. Moved(b, K, O, K \cup {i}, O \ {i})
    BY <1>4 DEF Moved
  <1>11. SoundIn(t, n, X, J, sh, K \cup {i}, O \ {i})
    BY <1>9, <1>10, PlainSound
  <1>. QED BY <1>1, <1>5, <1>7, <1>11

\* A checkpoint c and the provider's state p replace the last ones.
Marks(s, c, p, t, J) ==
    /\ c \in Checkpoints /\ c.id \notin Ids(s.messages) /\ p \in States
    /\ p # None =>
          /\ AllItems(s.messages) \subseteq p \cup Merged(J)
          /\ Exact(c) => AllItems(CheckpointMessages(c)) \subseteq p \cup Merged(J)
    /\ t = [s EXCEPT !.checkpoint = c, !.provider = p]

LEMMA MarksIs ==
    ASSUME NEW s \in Sessions, NEW c, NEW p, NEW t, NEW J, Marks(s, c, p, t, J)
    PROVE  /\ t \in Sessions /\ t.messages = s.messages /\ t.checkpoint = c
           /\ t.provider = p
  BY DEF Marks, Sessions

LEMMA CheckpointSound ==
    ASSUME NEW s, NEW n \in Nat, NEW X, NEW J, NEW sh, NEW K, NEW O,
           SoundIn(s, n, X, J, sh, K, O),
           NEW l \in Nat, n <= l, NEW c, NEW p, NEW t, Marks(s, c, p, t, J), c.id \in 1 .. l,
           NEW th, th # <<>> => Last(th) = c.id
    PROVE  SoundIn(t, l, X, J, th, K, O) /\ t.checkpoint = c /\ t.messages = s.messages
  <1>. c \in Checkpoints /\ c.id \notin Ids(s.messages) /\ p \in States
    BY DEF Marks
  <1>2. c # None
    BY ConstantsAssumption
  <1>3. /\ t \in Sessions /\ t.messages = s.messages /\ t.checkpoint = c
        /\ t.provider = p
    BY DEF SoundIn, Sessions, Marks
  <1>4. Legal(t, X)
    BY <1>3 DEF SoundIn, Legal, Fits
  <1>5. Numbered(t, l)
    BY <1>3 DEF SoundIn, Numbered
  <1>6. Covered(t, J)
    BY <1>3 DEF Covered, Marks
  <1>7. Remembers(t, th)
    BY <1>2, <1>3 DEF Remembers
  <1>8. Marked(t) /\ Holds(t, K, O)
    BY <1>2, <1>3 DEF SoundIn, Holds, Marked
  <1>. QED BY <1>3, <1>4, <1>5, <1>6, <1>7, <1>8 DEF SoundIn

\* The run's messages w are added to s, which becomes t.
Ended(s, w, t, J, Y) ==
    /\ w \in Seq(Entries) /\ w # <<>> /\ Last(w).role # "user"
    /\ t \in Sessions /\ t.messages = s.messages \o w
    /\ t.checkpoint # None =>
          t.checkpoint = s.checkpoint /\ (t.checkpoint.id \in Y \/ Ends(w, t.checkpoint))
    /\ t.provider # None =>
          AllItems(s.messages) \cup AllItems(w) \subseteq t.provider \cup Merged(J)

LEMMA EndedSound ==
    ASSUME NEW s, NEW n \in Nat, NEW X, NEW J, NEW sh, NEW K, NEW O,
           SoundIn(s, n, X, J, sh, K, O),
           NEW w, NEW t, NEW Y, X \subseteq Y, Ended(s, w, t, J, Y),
           StepsSound(w, s, n, X, sh),
           NEW P, NEW Q, Moved(w, K, O, P, Q)
    PROVE  SoundIn(t, n, Y, J, sh, P, Q)
  <1>1. PICK m, u : m = s.messages /\ u = m \o w
    OBVIOUS
  <1>2. /\ m \in Seq(Entries) /\ w \in Seq(Entries) /\ w # <<>> /\ t.messages = u
        /\ t \in Sessions
    BY <1>1, SessionFields DEF SoundIn, Ended
  <1>3. Paired(u)
    BY <1>1, <1>2, ConcatPaired DEF SoundIn, Legal, StepsSound
  <1>4. Ids(u) = Ids(m) \cup Ids(w) /\ AllItems(u) = AllItems(m) \cup AllItems(w)
    BY <1>1, <1>2, ConcatIds, ConcatItems
  <1>5. Single(u, X)
    BY <1>1, <1>2, ConcatSingle DEF SoundIn, Legal, StepsSound
  <1>6. Single(u, Y)
    BY <1>5 DEF Single
  <1>7. u # <<>> /\ Last(u) = Last(w)
    BY <1>1, <1>2, ConcatEnds
  <1>8. Legal(t, Y)
    <2>1. t.checkpoint # None => Fits(u, t.checkpoint, Y)
      BY <1>2, <1>7 DEF Ended, Fits, Ends
    <2>. QED BY <2>1, <1>2, <1>3, <1>6 DEF Legal
  <1>9. Numbered(t, n)
    BY <1>1, <1>2, <1>4 DEF SoundIn, Numbered, StepsSound, Ended
  <1>10. Covered(t, J)
    BY <1>1, <1>2, <1>4 DEF Covered, StepsSound, Ended
  <1>11. Marked(t)
    BY <1>2, <1>7 DEF Marked, Asks, Ended
  <1>12. Remembers(t, sh)
    BY <1>2, <1>4 DEF Remembers, StepsSound
  <1>13. Holds(t, P, Q)
    <2>1. (\A i \in K : Once(m, i)) /\ (\A i \in O : Never(m, i))
      BY <1>1 DEF SoundIn, Holds
    <2>2. t.messages = m \o w
      BY <1>1, <1>2
    <2>3. (\A i \in P : Once(m \o w, i)) /\ (\A i \in Q : Never(m \o w, i))
      <3>1. m \in Seq(Entries) /\ w \in Seq(Entries)
        BY <1>2
      <3>. QED BY <2>1, <3>1, MovedHolds
    <2>. QED BY <2>2, <2>3 DEF Holds
  <1>. QED BY <1>2, <1>8, <1>9, <1>10, <1>11, <1>12, <1>13 DEF SoundIn
-----------------------------------------------------------------------------
(* Follow-ups *)

LEMMA PrefixIs ==
    ASSUME NEW m \in Seq(Entries), NEW k \in 0 .. Len(m)
    PROVE  /\ SubSeq(m, 1, k) \in Seq(Entries)
           /\ \A x : x \in AllItems(SubSeq(m, 1, k)) <=> \E j \in 1 .. k : x \in Items(m[j])
  <1>1. PICK p : p = SubSeq(m, 1, k)
    OBVIOUS
  <1>2. p \in Seq(Entries) /\ Len(p) = k /\ \A j \in 1 .. k : p[j] = m[j]
    <2>1. k \in Int /\ \A j \in 1 .. k : m[j] \in Entries
      OBVIOUS
    <2>. QED BY <1>1, <2>1
  <1>3. \A x : x \in AllItems(p) <=> \E j \in 1 .. Len(p) : x \in Items(p[j])
    BY <1>2, ItemsOf
  <1>. QED BY <1>1, <1>2, <1>3

\* b is a and what follows it; only follow-ups of J were joined to a message
\* of a.
Grows(a, b, J) ==
    /\ b \in Seq(Entries) /\ Len(a) <= Len(b)
    /\ Paired(a) => Paired(b)
    /\ Ids(b) = Ids(a) /\ \A X : Single(a, X) => Single(b, X)
    /\ AllItems(a) \subseteq AllItems(b)
    /\ \A k \in 0 .. Len(a) :
          AllItems(SubSeq(b, 1, k)) \subseteq AllItems(SubSeq(a, 1, k)) \cup Merged(J)

LEMMA GrowsTwice ==
    ASSUME NEW a \in Seq(Entries), NEW b, NEW c, NEW J, Grows(a, b, J), Grows(b, c, J)
    PROVE  Grows(a, c, J)
  <1>1. Len(a) \in Nat /\ Len(b) \in Nat /\ Len(c) \in Nat
    BY DEF Grows
  <1>2. \A k \in 0 .. Len(a) :
          AllItems(SubSeq(c, 1, k)) \subseteq AllItems(SubSeq(a, 1, k)) \cup Merged(J)
    BY <1>1 DEF Grows
  <1>. QED BY <1>1, <1>2 DEF Grows

LEMMA PlainGrows ==
    ASSUME NEW a \in Seq(Entries), NEW p \in Seq(Entries), Plain(p), NEW J
    PROVE  Grows(a, a \o p, J)
  <1>1. PICK b : b = a \o p
    OBVIOUS
  <1>2. /\ b \in Seq(Entries) /\ Len(a) \in Nat /\ Len(p) \in Nat /\ Len(b) = Len(a) + Len(p)
        /\ \A k \in 1 .. Len(a) : b[k] = a[k]
    BY <1>1, ConcatIs
  <1>3. Paired(p) /\ Ids(p) = {} /\ \A X : Single(p, X)
    BY PlainIs
  <1>4. Paired(a) => Paired(b)
    BY <1>1, <1>3, ConcatPaired
  <1>5. Ids(b) = Ids(a) \cup Ids(p) /\ AllItems(b) = AllItems(a) \cup AllItems(p)
    BY <1>1, ConcatIds, ConcatItems
  <1>6. ASSUME NEW X, Single(a, X) PROVE Single(b, X)
    <2>1. Ids(a) \cap Ids(p) \subseteq X
      BY <1>3
    <2>. QED BY <2>1, <1>1, <1>3, <1>6, ConcatSingle
  <1>7. ASSUME NEW k \in 0 .. Len(a)
        PROVE  AllItems(SubSeq(b, 1, k)) \subseteq AllItems(SubSeq(a, 1, k))
    <2>1. k \in 0 .. Len(b) /\ \A j \in 1 .. k : b[j] = a[j]
      BY <1>2
    <2>2. \A x : x \in AllItems(SubSeq(b, 1, k)) <=> \E j \in 1 .. k : x \in Items(b[j])
      BY <2>1, <1>2, PrefixIs
    <2>3. \A x : x \in AllItems(SubSeq(a, 1, k)) <=> \E j \in 1 .. k : x \in Items(a[j])
      BY PrefixIs
    <2>. QED BY <2>1, <2>2, <2>3
  <1>8. Len(a) <= Len(b)
    BY <1>2
  <1>9. Ids(b) = Ids(a) /\ AllItems(a) \subseteq AllItems(b)
    BY <1>3, <1>5
  <1>10. Grows(a, b, J)
    BY <1>2, <1>4, <1>6, <1>7, <1>8, <1>9 DEF Grows
  <1>. QED BY <1>1, <1>10

\* Inputs S join the user message that is last.
JoinedTo(a, S) == [a EXCEPT ![Len(a)].has = @ \cup S]

LEMMA JoinedIs ==
    ASSUME NEW a \in Seq(Entries), a # <<>>, NEW S \in SUBSET Inputs
    PROVE  LET b == JoinedTo(a, S)
           IN /\ b \in Seq(Entries) /\ Len(b) = Len(a)
              /\ \A k \in 1 .. Len(a) :
                    /\ b[k].role = a[k].role /\ b[k].id = a[k].id
                    /\ a[k].has \subseteq b[k].has /\ b[k].has \subseteq a[k].has \cup S
  <1>1. PICK n \in Nat \ {0} : n = Len(a)
    OBVIOUS
  <1>2. PICK e, f : e = a[n] /\ f = [e EXCEPT !.has = @ \cup S]
    OBVIOUS
  <1>3. e \in Entries
    BY <1>1, <1>2
  <1>4. f \in Entries /\ f.role = e.role /\ f.id = e.id /\ f.has = e.has \cup S
    BY <1>2, <1>3 DEF Entries
  <1>5. JoinedTo(a, S) = [a EXCEPT ![n] = f]
    BY <1>1, <1>2 DEF JoinedTo
  <1>6. PICK b : b = [a EXCEPT ![n] = f]
    OBVIOUS
  <1>7. /\ b \in Seq(Entries) /\ Len(b) = n
        /\ \A k \in 1 .. n : b[k] = IF k = n THEN f ELSE a[k]
    BY <1>1, <1>4, <1>6, ExceptSeq
  <1>. QED BY <1>1, <1>2, <1>4, <1>5, <1>6, <1>7

LEMMA JoinedGrows ==
    ASSUME NEW a \in Seq(Entries), a # <<>>, Last(a).role = "user", NEW S \in SUBSET Inputs,
           NEW J, S \subseteq J
    PROVE  LET b == JoinedTo(a, S)
           IN /\ Grows(a, b, J) /\ b # <<>> /\ Last(b).role = "user"
              /\ \A i : i \notin S =>
                    (Never(a, i) => Never(b, i)) /\ (Once(a, i) => Once(b, i))
  <1>1. PICK b : b = JoinedTo(a, S)
    OBVIOUS
  <1>2. /\ b \in Seq(Entries) /\ Len(b) = Len(a) /\ Len(a) \in Nat \ {0}
        /\ \A k \in 1 .. Len(a) :
              /\ b[k].role = a[k].role /\ b[k].id = a[k].id
              /\ a[k].has \subseteq b[k].has /\ b[k].has \subseteq a[k].has \cup S
    BY <1>1, JoinedIs
  <1>3. Paired(a) => Paired(b)
    <2>1. ASSUME NEW k \in 1 .. Len(a), PairedAt(a, k) PROVE PairedAt(b, k)
      <3>1. k + 1 \in 1 .. Len(a) \/ k >= Len(a)
        BY <1>2
      <3>2. k - 1 \in 1 .. Len(a) \/ k <= 1
        BY <1>2
      <3>. QED BY <3>1, <3>2, <2>1, <1>2 DEF PairedAt
    <2>. QED BY <2>1, <1>2 DEF Paired
  <1>4. Ids(b) = Ids(a)
    BY <1>2 DEF Ids
  <1>5. \A X : Single(a, X) => Single(b, X)
    BY <1>2, <1>4 DEF Single
  <1>6. ASSUME NEW k \in 1 .. Len(a)
        PROVE  Items(a[k]) \subseteq Items(b[k]) /\ Items(b[k]) \subseteq Items(a[k]) \cup Merged(J)
    <2>1. Merged(S) \subseteq Merged(J)
      BY DEF Merged
    <2>2. CASE a[k].role \in {"user", "hidden"}
      BY <2>1, <2>2, <1>2 DEF Items, Merged
    <2>3. CASE a[k].role \notin {"user", "hidden"}
      BY <2>3, <1>2 DEF Items
    <2>. QED BY <2>2, <2>3
  <1>7. AllItems(a) \subseteq AllItems(b)
    BY <1>2, <1>6, ItemsOf
  <1>8. ASSUME NEW k \in 0 .. Len(a)
        PROVE  AllItems(SubSeq(b, 1, k)) \subseteq AllItems(SubSeq(a, 1, k)) \cup Merged(J)
    <2>1. \A x : x \in AllItems(SubSeq(b, 1, k)) <=> \E j \in 1 .. k : x \in Items(b[j])
      BY <1>2, PrefixIs
    <2>2. \A x : x \in AllItems(SubSeq(a, 1, k)) <=> \E j \in 1 .. k : x \in Items(a[j])
      BY PrefixIs
    <2>3. \A j \in 1 .. k : j \in 1 .. Len(a)
      BY <1>2
    <2>. QED BY <2>1, <2>2, <2>3, <1>6
  <1>9. b # <<>> /\ Last(b).role = "user"
    BY <1>2 DEF Last
  <1>10. ASSUME NEW i, i \notin S
         PROVE  (Never(a, i) => Never(b, i)) /\ (Once(a, i) => Once(b, i))
    <2>1. \A k \in 1 .. Len(a) : i \in b[k].has <=> i \in a[k].has
      BY <1>2, <1>10
    <2>2. Never(a, i) => Never(b, i)
      BY <2>1, <1>2 DEF Never
    <2>3. ASSUME Once(a, i) PROVE Once(b, i)
      <3>1. PICK k \in 1 .. Len(a) : \A j \in 1 .. Len(a) : i \in a[j].has <=> j = k
        BY <2>3 DEF Once
      <3>2. \A j \in 1 .. Len(b) : i \in b[j].has <=> j = k
        BY <3>1, <2>1, <1>2
      <3>. QED BY <3>2, <1>2 DEF Once
    <2>. QED BY <2>2, <2>3
  <1>11. Grows(a, b, J)
    BY <1>2, <1>3, <1>4, <1>5, <1>7, <1>8 DEF Grows
  <1>. QED BY <1>1, <1>9, <1>10, <1>11
\* The inputs S arrive in b, but for those that were joined; the others stay.
Arrive(a, b, S, J) == \A i :
    /\ i \notin S => (Never(a, i) => Never(b, i)) /\ (Once(a, i) => Once(b, i))
    /\ i \in S \ J /\ Never(a, i) => Once(b, i)

Speaks(b) == b = <<>> \/ Last(b).role \in {"user", "hidden"}

LEMMA InjectedIs ==
    ASSUME NEW a \in Seq(Entries), NEW S \in SUBSET Inputs, S # {},
           NEW J, Mergeable(a) => S \ SubResults \subseteq J
    PROVE  LET b == AppendInjected(a, S)
           IN Grows(a, b, J) /\ Speaks(b) /\ Arrive(a, b, S, J)
  <1>1. PICK said, results : said = S \ SubResults /\ results = S \cap SubResults
    OBVIOUS
  <1>2. said \in SUBSET Inputs /\ results \in SUBSET Inputs
    BY <1>1
  <1>3. PICK tail : tail = IF results = {} THEN <<>> ELSE <<Hidden(results)>>
    OBVIOUS
  <1>4. /\ tail \in Seq(Entries) /\ Plain(tail)
        /\ \A i : (i \in results => Once(tail, i)) /\ (i \notin results => Never(tail, i))
        /\ results = {} => tail = <<>>
        /\ results # {} => tail # <<>> /\ Last(tail).role = "hidden"
    <2>1. CASE results = {}
      BY <2>1, <1>3 DEF Plain, Never
    <2>2. CASE results # {}
      <3>1. PICK e : e = Hidden(results)
        OBVIOUS
      <3>2. e \in Entries /\ e.id = 0 /\ e.role = "hidden" /\ e.has = results
        BY <3>1, <1>2 DEF Hidden, Entries, Roles
      <3>3. tail = <<e>>
        BY <3>1, <2>2, <1>3
      <3>. QED BY <2>2, <3>2, <3>3, OneIs
    <2>. QED BY <2>1, <2>2
  <1>5. PICK base : base = IF said = {} \/ a = <<>> THEN a
                           ELSE IF Last(a).role = "user" THEN JoinedTo(a, said)
                           ELSE Append(a, User(said))
    OBVIOUS
  <1>6. /\ base \in Seq(Entries) /\ Grows(a, base, J)
        /\ said # {} => Speaks(base)
        /\ \A i : i \notin said =>
              (Never(a, i) => Never(base, i)) /\ (Once(a, i) => Once(base, i))
        /\ \A i : i \in said \ J /\ Never(a, i) => Once(base, i)
    <2>1. CASE said = {} \/ a = <<>>
      <3>1. base = a
        BY <2>1, <1>5
      <3>2. Grows(a, a, J)
        <4>1. Len(a) \in Nat
          OBVIOUS
        <4>. QED BY <4>1 DEF Grows
      <3>3. a = <<>> => said \subseteq J
        BY <1>1 DEF Mergeable
      <3>. QED BY <2>1, <3>1, <3>2, <3>3 DEF Speaks
    <2>2. CASE said # {} /\ a # <<>> /\ Last(a).role = "user"
      <3>1. base = JoinedTo(a, said)
        BY <2>2, <1>5
      <3>2. said \subseteq J
        BY <2>2, <1>1 DEF Mergeable
      <3>3. Grows(a, base, J) /\ Speaks(base)
            /\ \A i : i \notin said =>
                  (Never(a, i) => Never(base, i)) /\ (Once(a, i) => Once(base, i))
        BY <3>1, <3>2, <2>2, <1>2, JoinedGrows DEF Speaks
      <3>. QED BY <3>2, <3>3 DEF Grows
    <2>3. CASE said # {} /\ a # <<>> /\ Last(a).role # "user"
      <3>1. PICK e, p : e = User(said) /\ p = <<e>>
        OBVIOUS
      <3>2. e \in Entries /\ e.id = 0 /\ e.role = "user" /\ e.has = said
        BY <3>1, <1>2 DEF User, Entries, Roles
      <3>3. /\ p \in Seq(Entries) /\ Plain(p) /\ p # <<>> /\ Last(p) = e
            /\ \A i : (i \in said => Once(p, i)) /\ (i \notin said => Never(p, i))
        BY <3>1, <3>2, OneIs
      <3>4. base = a \o p
        BY <3>1, <3>2, <2>3, <1>5, AppendIsConcat
      <3>5. Grows(a, base, J) /\ Speaks(base)
        BY <3>2, <3>3, <3>4, PlainGrows, ConcatEnds DEF Speaks
      <3>6. \A i : /\ i \notin said =>
                         (Never(a, i) => Never(base, i)) /\ (Once(a, i) => Once(base, i))
                   /\ i \in said /\ Never(a, i) => Once(base, i)
        BY <3>3, <3>4, ConcatHolds
      <3>. QED BY <3>5, <3>6 DEF Grows
    <2>. QED BY <2>1, <2>2, <2>3
  <1>7. PICK b : b = base \o tail
    OBVIOUS
  <1>8. AppendInjected(a, S) = b
    <2>1. a = <<>> => <<>> \o tail = tail
      BY <1>4, ConcatEmptySeq
    <2>. QED BY <2>1, <1>1, <1>3, <1>5, <1>7 DEF AppendInjected, JoinedTo
  <1>9. Grows(a, b, J)
    <2>1. Grows(base, b, J)
      BY <1>4, <1>6, <1>7, PlainGrows
    <2>. QED BY <2>1, <1>6, GrowsTwice
  <1>10. Speaks(b)
    <2>1. CASE results # {}
      BY <2>1, <1>4, <1>6, <1>7, ConcatEnds DEF Speaks
    <2>2. CASE results = {}
      <3>1. b = base
        BY <2>2, <1>4, <1>6, <1>7, ConcatEmptySeq
      <3>2. said # {}
        BY <2>2, <1>1
      <3>. QED BY <3>1, <3>2, <1>6
    <2>. QED BY <2>1, <2>2
  <1>11. Arrive(a, b, S, J)
    <2>. SUFFICES ASSUME NEW i
         PROVE  /\ i \notin S => (Never(a, i) => Never(b, i)) /\ (Once(a, i) => Once(b, i))
                /\ i \in S \ J /\ Never(a, i) => Once(b, i)
      BY DEF Arrive
    <2>1. /\ Never(base, i) /\ Never(tail, i) => Never(b, i)
          /\ Once(base, i) /\ Never(tail, i) => Once(b, i)
          /\ Never(base, i) /\ Once(tail, i) => Once(b, i)
      BY <1>4, <1>6, <1>7, ConcatHolds
    <2>. QED BY <2>1, <1>1, <1>4, <1>6
  <1>. QED BY <1>8, <1>9, <1>10, <1>11
-----------------------------------------------------------------------------
(* The run *)

LEMMA RunFields ==
    ASSUME NEW r \in Runs
    PROVE  /\ r.messages \in Seq(Entries) /\ r.calls \in 0 .. MaxCalls
           /\ r.cycles \in 0 .. MaxCycles /\ r.state \in States /\ r.boundary \in Nat
           /\ Len(r.messages) \in Nat
  BY DEF Runs

\* What the state and the messages behind the boundary say.
LEMMA StateAfterIs ==
    ASSUME NEW r \in Runs, NEW m, NEW J, StateSound(r, m, J)
    PROVE  /\ StateAfter(r) \in States
           /\ StateAfter(r) # None => r.state # None
           /\ r.state # None =>
                  /\ StateAfter(r) \subseteq Facts
                  /\ AllItems(m) \cup AllItems(r.messages) \subseteq StateAfter(r) \cup Merged(J)
  <1>1. PICK w, k, f : w = r.messages /\ k = r.boundary /\ f = From(w, k)
    OBVIOUS
  <1>2. w \in Seq(Entries) /\ k \in 0 .. Len(w) /\ Len(w) \in Nat
    BY <1>1, RunFields DEF StateSound
  <1>3. /\ f \in Seq(Entries)
        /\ \A j \in 1 .. Len(w) : j > k => \E l \in 1 .. Len(f) : f[l] = w[j]
    <2>1. PICK a \in Int : a = k + 1
      BY <1>2
    <2>2. \A j \in a .. Len(w) : w[j] \in Entries
      BY <1>2, <2>1
    <2>3. f = SubSeq(w, a, Len(w))
      BY <1>1, <2>1 DEF From
    <2>4. Len(w) \in Int
      BY <1>2
    <2>5. /\ f \in Seq(Entries) /\ Len(f) = IF a <= Len(w) THEN (Len(w) - a) + 1 ELSE 0
          /\ \A l \in 1 .. (Len(w) - a) + 1 : f[l] = w[(a + l) - 1]
      BY <2>1, <2>2, <2>3, <2>4, SubSeqProperties
    <2>6. ASSUME NEW j \in 1 .. Len(w), j > k PROVE \E l \in 1 .. Len(f) : f[l] = w[j]
      <3>1. PICK l \in Int : l + k = j
        BY <1>2, <2>6
      <3>2. l \in 1 .. Len(f) /\ l \in 1 .. (Len(w) - a) + 1 /\ (a + l) - 1 = j
        BY <3>1, <1>2, <2>1, <2>5, <2>6
      <3>. QED BY <3>2, <2>5
    <2>. QED BY <2>5, <2>6
  <1>4. AllItems(w) \subseteq AllItems(SubSeq(w, 1, k)) \cup AllItems(f)
    <2>1. ASSUME NEW x \in AllItems(w) PROVE x \in AllItems(SubSeq(w, 1, k)) \cup AllItems(f)
      <3>1. PICK j \in 1 .. Len(w) : x \in Items(w[j])
        BY <1>2, ItemsOf
      <3>2. CASE j <= k
        <4>1. j \in 1 .. k
          BY <3>2, <1>2
        <4>. QED BY <3>1, <4>1, <1>2, PrefixIs
      <3>3. CASE j > k
        BY <3>1, <3>3, <1>3, ItemsOf
      <3>. QED BY <3>2, <3>3, <1>2
    <2>. QED BY <2>1
  <1>5. StateAfter(r) = IF r.state = None THEN None ELSE r.state \cup AllItems(f)
    BY <1>1 DEF StateAfter
  <1>6. AllItems(f) \subseteq Facts
    BY <1>3, ItemsAreFacts
  <1>7. /\ StateAfter(r) \in States
        /\ r.state # None => StateAfter(r) \subseteq Facts
    BY <1>5, <1>6, RunFields DEF States
  <1>. QED BY <1>1, <1>4, <1>5, <1>7 DEF StateSound

\* The run goes on from r to d.
LEMMA GrownSound ==
    ASSUME NEW r \in Runs, NEW s, NEW n, NEW X, NEW J, NEW sh, NEW T,
           RunSound(r, r.messages, s, n, X, J, sh, T),
           NEW d \in Runs, d.state = r.state, d.boundary = r.boundary,
           NEW L, J \subseteq L, Grows(r.messages, d.messages, L),
           NEW U, TakenSound(d.messages, U, L)
    PROVE  RunSound(d, d.messages, s, n, X, L, sh, U)
  <1>1. StepsSound(d.messages, s, n, X, sh)
    BY DEF RunSound, StepsSound, Grows
  <1>2. StateSound(d, s.messages, L)
    <2>1. Merged(J) \subseteq Merged(L)
      BY DEF Merged
    <2>2. r.boundary \in 0 .. Len(r.messages) /\ Len(d.messages) \in Nat
      BY RunFields DEF RunSound, StateSound
    <2>3. r.boundary <= Len(d.messages)
      BY <2>2, RunFields DEF Grows
    <2>4. AllItems(SubSeq(d.messages, 1, r.boundary))
              \subseteq AllItems(SubSeq(r.messages, 1, r.boundary)) \cup Merged(L)
      BY <2>2 DEF Grows
    <2>. QED BY <2>1, <2>3, <2>4 DEF RunSound, StateSound
  <1>. QED BY <1>1, <1>2 DEF RunSound

DrainedBy(r, F) == [r EXCEPT !.messages = AppendInjected(@, F), !.cycles = @ + 1]

\* The run takes the follow-ups F.
LEMMA DrainSound ==
    ASSUME NEW r \in Runs, NEW s, NEW n, NEW X, NEW J, NEW sh, NEW T,
           RunSound(r, r.messages, s, n, X, J, sh, T), r.cycles < MaxCycles,
           NEW F \in SUBSET Inputs, F # {}, F \cap T = {},
           NEW L, J \subseteq L, Mergeable(r.messages) => F \ SubResults \subseteq L
    PROVE  LET d == DrainedBy(r, F)
           IN /\ d \in Runs /\ d.calls = r.calls /\ Speaks(d.messages)
              /\ RunSound(d, d.messages, s, n, X, L, sh, T \cup F)
  <1>1. PICK a, b, d : a = r.messages /\ b = AppendInjected(a, F) /\ d = DrainedBy(r, F)
    OBVIOUS
  <1>2. a \in Seq(Entries)
    BY <1>1, RunFields
  <1>3. Grows(a, b, L) /\ Speaks(b) /\ Arrive(a, b, F, L)
    BY <1>1, <1>2, InjectedIs
  <1>4. b \in Seq(Entries)
    BY <1>3 DEF Grows
  <1>5. PICK k : k = r.cycles + 1
    OBVIOUS
  <1>6. k \in 0 .. MaxCycles
    BY <1>5, RunFields, ConstantsAssumption
  <1>7. d = [r EXCEPT !.messages = b, !.cycles = k]
    BY <1>1, <1>5 DEF DrainedBy
  <1>8. /\ d \in Runs /\ d.messages = b /\ d.calls = r.calls
        /\ d.state = r.state /\ d.boundary = r.boundary
    BY <1>4, <1>6, <1>7 DEF Runs
  <1>9. TakenSound(b, T \cup F, L)
    BY <1>1, <1>3 DEF RunSound, TakenSound, Arrive
  <1>10. RunSound(d, d.messages, s, n, X, L, sh, T \cup F)
    BY <1>1, <1>3, <1>8, <1>9, GrownSound
  <1>. QED BY <1>1, <1>3, <1>8, <1>10

\* A notice ends the messages of the run.
Noticed(r) == [r EXCEPT !.messages = Append(@, Notice)]

LEMMA NoticeSound ==
    ASSUME NEW r \in Runs, NEW s, NEW n, NEW X, NEW J, NEW sh, NEW T,
           RunSound(r, r.messages, s, n, X, J, sh, T)
    PROVE  LET d == Noticed(r)
           IN /\ d \in Runs /\ d.calls = r.calls
              /\ d.messages # <<>> /\ Last(d.messages).role = "notice"
              /\ RunSound(d, d.messages, s, n, X, J, sh, T)
  <1>1. PICK a, p, d : /\ a = r.messages /\ p = <<Notice>>
                       /\ d = Noticed(r)
    OBVIOUS
  <1>2. a \in Seq(Entries)
    BY <1>1, RunFields
  <1>3. /\ p \in Seq(Entries) /\ p # <<>> /\ Plain(p) /\ Last(p).role = "notice"
        /\ \A i : Never(p, i)
    BY <1>1, NoticeIs
  <1>4. Append(a, Notice) = a \o p /\ a \o p \in Seq(Entries)
    BY <1>1, <1>2, <1>3, NoticeIs, AppendIsConcat, ConcatIs
  <1>5. d = [r EXCEPT !.messages = a \o p]
    BY <1>1, <1>4 DEF Noticed
  <1>6. /\ d \in Runs /\ d.messages = a \o p /\ d.calls = r.calls
        /\ d.state = r.state /\ d.boundary = r.boundary
    BY <1>4, <1>5 DEF Runs
  <1>7. d.messages # <<>> /\ Last(d.messages).role = "notice"
    BY <1>2, <1>3, <1>6, ConcatEnds
  <1>8. Grows(a, a \o p, J)
    BY <1>2, <1>3, PlainGrows
  <1>9. TakenSound(a \o p, T, J)
    BY <1>1, <1>2, <1>3, ConcatHolds DEF RunSound, TakenSound
  <1>10. RunSound(d, d.messages, s, n, X, J, sh, T)
    BY <1>1, <1>6, <1>8, <1>9, GrownSound
  <1>. QED BY <1>1, <1>6, <1>7, <1>10
\* What the model answered: the state covers it, or there is none.
LEMMA AnsweredIs ==
    ASSUME run \in Runs, run.calls < MaxCalls, session \in Sessions,
           StateSound(run, session.messages, joined),
           NEW e \in Entries, Items(e) = {<<e.role, e.id>>}, NEW b \in BOOLEAN
    PROVE  LET d == Answered(e, b)
           IN /\ d \in Runs /\ d.messages = Append(run.messages, e)
              /\ d.cycles = run.cycles
              /\ StateSound(d, session.messages, joined)
  <1>1. PICK m, w, v, p, d : /\ m = session.messages /\ w = run.messages
                             /\ p = <<e>> /\ v = w \o p /\ d = Answered(e, b)
    OBVIOUS
  <1>2. m \in Seq(Entries) /\ w \in Seq(Entries) /\ Len(w) \in Nat
    BY <1>1, RunFields, SessionFields
  <1>3. p \in Seq(Entries) /\ AllItems(p) = {<<e.role, e.id>>} /\ Len(p) = 1
    BY <1>1, OneIs
  <1>4. /\ v \in Seq(Entries) /\ Append(w, e) = v /\ Len(v) = Len(w) + 1
        /\ AllItems(v) = AllItems(w) \cup {<<e.role, e.id>>}
    <2>1. v \in Seq(Entries) /\ Len(v) = Len(w) + 1
      BY <1>1, <1>2, <1>3, ConcatIs
    <2>2. Append(w, e) = v
      BY <1>1, <1>2, AppendIsConcat
    <2>3. AllItems(v) = AllItems(w) \cup AllItems(p)
      BY <1>1, <1>2, <1>3, ConcatItems
    <2>. QED BY <2>1, <2>2, <2>3, <1>3
  <1>5. /\ AllItems(m) \cup AllItems(w) \subseteq Sent \cup Merged(joined)
        /\ Sent \subseteq Facts
    <2>1. CASE run.state = None
      <3>1. Sent = AllItems(m) \cup AllItems(w)
        BY <2>1, <1>1 DEF Sent
      <3>. QED BY <3>1, <1>2, ItemsAreFacts
    <2>2. CASE run.state # None
      <3>1. Sent = StateAfter(run)
        BY <2>2 DEF Sent, StateAfter
      <3>. QED BY <3>1, <2>2, StateAfterIs, <1>1
    <2>. QED BY <2>1, <2>2
  <1>6. PICK q, k, c : /\ q = Adopted(<<e.role, e.id>>, b) /\ c = run.calls + 1
                       /\ k = IF b THEN Len(w) + 1 ELSE Len(w)
    OBVIOUS
  <1>7. <<e.role, e.id>> \in Facts
    BY <1>3, ItemsAreFacts
  <1>8. q \in States /\ (q # None => b /\ q = Sent \cup {<<e.role, e.id>>})
    BY <1>5, <1>6, <1>7 DEF Adopted, States
  <1>9. k \in Nat /\ c \in 0 .. MaxCalls
    BY <1>2, <1>6, RunFields, ConstantsAssumption
  <1>10. d = [run EXCEPT !.messages = v, !.state = q, !.boundary = k, !.calls = c]
    BY <1>1, <1>4, <1>6 DEF Answered
  <1>11. /\ d \in Runs /\ d.messages = v /\ d.state = q /\ d.boundary = k
         /\ d.cycles = run.cycles
    BY <1>4, <1>8, <1>9, <1>10 DEF Runs
  <1>12. StateSound(d, m, joined)
    <2>1. k <= Len(v)
      BY <1>4, <1>6, <1>2
    <2>2. ASSUME q # None
          PROVE  AllItems(m) \cup AllItems(SubSeq(v, 1, k)) \subseteq q \cup Merged(joined)
      <3>1. k = Len(v)
        BY <2>2, <1>8, <1>4, <1>6
      <3>2. SubSeq(v, 1, k) = v
        BY <3>1, <1>4, SubSeqFull
      <3>. QED BY <3>2, <2>2, <1>4, <1>5, <1>8
    <2>. QED BY <2>1, <2>2, <1>11 DEF StateSound
  <1>. QED BY <1>1, <1>4, <1>11, <1>12

\* The step b of the number l is added to the steps of a run; t is the session.
Adds(s, n, b, l, X, t, th) ==
    /\ n \in Nat /\ l = n + 1 /\ Ids(s.messages) \subseteq 1 .. n
    /\ b \in Seq(Entries) /\ Paired(b) /\ Single(b, X) /\ Ids(b) = {l}
    /\ t.messages = s.messages
    /\ t.checkpoint # None => t.checkpoint.id = l
    /\ t.checkpoint # None /\ Exact(t.checkpoint) =>
          AllItems(CheckpointMessages(t.checkpoint)) \subseteq AllItems(b)
    /\ th # <<>> => t.checkpoint # None /\ Last(th) = l

LEMMA StepAdded ==
    ASSUME NEW w \in Seq(Entries), NEW s, NEW n, NEW X, NEW sh,
           StepsSound(w, s, n, X, sh), NEW l, NEW b, NEW t, NEW th,
           Adds(s, n, b, l, X, t, th)
    PROVE  StepsSound(w \o b, t, l, X, th)
  <1>. /\ n \in Nat /\ l = n + 1 /\ Ids(s.messages) \subseteq 1 .. n
       /\ b \in Seq(Entries) /\ Paired(b) /\ Single(b, X) /\ Ids(b) = {l}
    BY DEF Adds
  <1>1. PICK v : v = w \o b
    OBVIOUS
  <1>2. Ids(v) = Ids(w) \cup {l} /\ AllItems(b) \subseteq AllItems(v)
    BY <1>1, ConcatIds, ConcatItems
  <1>3. Ids(w) \subseteq 1 .. n /\ l \in 1 .. l /\ l \notin 1 .. n /\ 1 .. n \subseteq 1 .. l
    BY DEF StepsSound
  <1>4. Paired(v)
    BY <1>1, ConcatPaired DEF StepsSound
  <1>5. Single(v, X)
    <2>1. Ids(w) \cap Ids(b) \subseteq X
      BY <1>3
    <2>. QED BY <2>1, <1>1, ConcatSingle DEF StepsSound
  <1>6. Ids(v) \subseteq 1 .. l /\ Ids(v) \cap Ids(t.messages) = {}
    BY <1>2, <1>3 DEF StepsSound, Adds
  <1>7. /\ t.checkpoint # None => t.checkpoint.id \in Ids(v)
        /\ t.checkpoint # None /\ Exact(t.checkpoint) =>
               AllItems(CheckpointMessages(t.checkpoint)) \subseteq AllItems(v)
    BY <1>2 DEF Adds
  <1>. QED BY <1>1, <1>4, <1>5, <1>6, <1>7 DEF StepsSound, Adds
\* The step l of the run r: its checkpoint c, the provider's state p; d is the
\* run after it, t the session.
Answers(r, s, l, c, p, d, t, J) ==
    /\ c \in Checkpoints /\ c.id = l /\ c.phase # "tools_completed"
    /\ d \in Runs /\ d.messages = Append(r.messages, CheckpointMessages(c)[1])
    /\ StateSound(d, s.messages, J)
    /\ p \in States
    /\ p # None =>
          /\ AllItems(s.messages) \subseteq p \cup Merged(J)
          /\ Exact(c) => AllItems(d.messages) \subseteq p \cup Merged(J)
    /\ t = [s EXCEPT !.checkpoint = c, !.provider = p]

\* The steps of the run once the tools of the step have answered.
Worked(c, d) == IF c.phase = "final_response" THEN d.messages
                ELSE Append(d.messages, Result(c.id, FALSE))

LEMMA AnswerSound ==
    ASSUME NEW r \in Runs, NEW s, NEW n \in Nat, NEW X, NEW J, NEW sh \in Seq(Nat \ {0}),
           NEW K, NEW O, NEW T,
           SoundIn(s, n, X, J, sh, K, O), RunSound(r, r.messages, s, n, X, J, sh, T),
           NEW l, l = n + 1, NEW c, NEW p, NEW d, NEW t, Answers(r, s, l, c, p, d, t, J)
    PROVE  /\ SoundIn(t, l, X, J, Append(sh, l), K, O)
           /\ RunSound(d, Worked(c, d), t, l, X, J, Append(sh, l), T)
           /\ Append(sh, l) \in Seq(Nat \ {0})
           /\ c.phase = "final_response" => Ends(d.messages, c)
  <1>0. PICK w : w = Worked(c, d)
    OBVIOUS
  <1>1. PICK a, v, e, th : /\ a = r.messages /\ v = d.messages
                           /\ e = CheckpointMessages(c)[1] /\ th = Append(sh, l)
    OBVIOUS
  <1>2. /\ a \in Seq(Entries) /\ v \in Seq(Entries) /\ l \in Nat \ {0} /\ n <= l
        /\ c \in Checkpoints /\ c # None /\ c.id = l /\ s \in Sessions
        /\ p \in States /\ d \in Runs
    BY <1>1, RunFields, ConstantsAssumption DEF Answers, SoundIn
  <1>3. th \in Seq(Nat \ {0}) /\ th # <<>> /\ Last(th) = l
    BY <1>1, <1>2 DEF Last
  <1>4. /\ e \in Entries /\ e.has = {} /\ e.id = l
        /\ c.phase = "final_response" => e = Reply(l)
        /\ c.phase # "final_response" => e = Call(l)
    BY <1>1, <1>2, WrittenTypes DEF CheckpointMessages, Reply, Call
  <1>5. v = Append(a, e)
    BY <1>1 DEF Answers
  <1>6. PICK b : b = IF c.phase = "final_response" THEN <<Reply(l)>>
                     ELSE <<Call(l), Result(l, FALSE)>>
    OBVIOUS
  <1>7. /\ b \in Seq(Entries) /\ Paired(b) /\ Single(b, X) /\ Ids(b) = {l}
        /\ AllItems(b) = AllItems(CheckpointMessages(c))
    <2>1. CASE c.phase = "final_response"
      BY <2>1, <1>2, <1>6, ReplyIs DEF CheckpointMessages
    <2>2. CASE c.phase # "final_response"
      <3>1. AllItems(CheckpointMessages(c)) = {<<"call", l>>, <<"tool", l>>}
        BY <2>2, <1>2, CheckpointIs
      <3>. QED BY <2>2, <3>1, <1>2, <1>6, CallIs
    <2>. QED BY <2>1, <2>2
  <1>8. w = a \o b
    <2>1. CASE c.phase = "final_response"
      BY <2>1, <1>0, <1>1, <1>2, <1>4, <1>5, <1>6, AppendIsConcat DEF Worked
    <2>2. CASE c.phase # "final_response"
      <3>1. PICK f : f = Result(l, FALSE)
        OBVIOUS
      <3>2. f \in Entries
        BY <3>1, <1>2, WrittenTypes
      <3>3. Append(Append(a, e), f) = a \o <<e, f>>
        BY <1>2, <1>4, <3>2
      <3>. QED BY <2>2, <3>1, <3>3, <1>0, <1>1, <1>2, <1>4, <1>5, <1>6 DEF Worked
    <2>. QED BY <2>1, <2>2
  <1>9. Ids(s.messages) \subseteq 1 .. n
    BY DEF SoundIn, Numbered
  <1>10. SoundIn(t, l, X, J, th, K, O) /\ t.checkpoint = c /\ t.messages = s.messages
    <2>1. c.id \in 1 .. l /\ c.id \notin Ids(s.messages)
      BY <1>2, <1>9
    <2>2. ASSUME Exact(c) PROVE AllItems(CheckpointMessages(c)) \subseteq AllItems(v)
      <3>1. c.phase = "final_response"
        BY <2>2, <1>2 DEF Exact, Answers, Checkpoints
      <3>2. v = a \o b
        BY <3>1, <1>0, <1>1, <1>8 DEF Worked
      <3>. QED BY <3>2, <1>2, <1>7, ConcatItems
    <2>3. Marks(s, c, p, t, J)
      BY <2>1, <2>2, <1>1 DEF Marks, Answers
    <2>4. n <= l /\ l \in Nat /\ (th # <<>> => Last(th) = c.id)
      BY <1>2, <1>3
    <2>5. SoundIn(t, l, X, J, th, K, O)
      BY <2>1, <2>3, <2>4, CheckpointSound
    <2>. QED BY <2>1, <2>3, <2>4, <2>5, CheckpointSound
  <1>11. StepsSound(w, t, l, X, th)
    <2>1. Adds(s, n, b, l, X, t, th)
      BY <1>2, <1>3, <1>7, <1>9, <1>10 DEF Adds
    <2>2. StepsSound(a, s, n, X, sh)
      BY <1>1 DEF RunSound
    <2>. QED BY <2>1, <2>2, <1>2, <1>8, StepAdded
  <1>12. TakenSound(v, T, J)
    <2>1. \A i : Never(<<e>>, i)
      BY <1>4, OneIs
    <2>2. v = a \o <<e>> /\ <<e>> \in Seq(Entries)
      BY <1>2, <1>4, <1>5, AppendIsConcat
    <2>3. TakenSound(a, T, J)
      BY <1>1 DEF RunSound
    <2>4. ASSUME NEW i PROVE (Never(a, i) => Never(v, i)) /\ (Once(a, i) => Once(v, i))
      BY <2>1, <2>2, <1>2, ConcatHolds
    <2>. QED BY <2>3, <2>4 DEF TakenSound
  <1>13. StateSound(d, t.messages, J)
    BY <1>10 DEF Answers
  <1>14. c.phase = "final_response" => Ends(v, c)
    <2>1. v # <<>> /\ Last(v) = e
      BY <1>2, <1>4, <1>5, AppendIs
    <2>. QED BY <2>1, <1>2, <1>4 DEF Ends
  <1>. QED BY <1>0, <1>1, <1>3, <1>10, <1>11, <1>12, <1>13, <1>14 DEF RunSound
LEMMA PrefixKept ==
    ASSUME NEW a \in Seq(Entries), NEW b \in Seq(Entries), NEW k \in 0 .. Len(a)
    PROVE  AllItems(SubSeq(a \o b, 1, k)) = AllItems(SubSeq(a, 1, k))
  <1>1. PICK v : v = a \o b
    OBVIOUS
  <1>2. v \in Seq(Entries) /\ k \in 0 .. Len(v) /\ \A j \in 1 .. k : v[j] = a[j]
    BY <1>1, ConcatIs
  <1>3. \A x : x \in AllItems(SubSeq(v, 1, k)) <=> \E j \in 1 .. k : x \in Items(v[j])
    BY <1>2, PrefixIs
  <1>4. \A x : x \in AllItems(SubSeq(a, 1, k)) <=> \E j \in 1 .. k : x \in Items(a[j])
    BY PrefixIs
  <1>5. \A x : x \in AllItems(SubSeq(v, 1, k)) <=> x \in AllItems(SubSeq(a, 1, k))
    BY <1>2, <1>3, <1>4
  <1>6. AllItems(SubSeq(v, 1, k)) = AllItems(SubSeq(a, 1, k))
    BY <1>5, Zenon
  <1>. QED BY <1>1, <1>6

\* The tools of the step n ran.
Ran(r, n) == [r EXCEPT !.messages = Append(@, Result(n, FALSE))]

LEMMA RanSound ==
    ASSUME NEW r \in Runs, NEW s, NEW n \in Nat, NEW X, NEW J, NEW sh, NEW T,
           RunSound(r, Append(r.messages, Result(n, FALSE)), s, n, X, J, sh, T)
    PROVE  LET d == Ran(r, n)
           IN /\ d \in Runs /\ d.calls = r.calls /\ d.cycles = r.cycles
              /\ d.messages = Append(r.messages, Result(n, FALSE))
              /\ RunSound(d, d.messages, s, n, X, J, sh, T)
  <1>1. PICK a, e, v, d : /\ a = r.messages /\ e = Result(n, FALSE) /\ v = a \o <<e>>
                          /\ d = Ran(r, n)
    OBVIOUS
  <1>2. a \in Seq(Entries) /\ e \in Entries /\ e.has = {} /\ <<e>> \in Seq(Entries)
    BY <1>1, RunFields, WrittenTypes, OneIs DEF Result
  <1>3. Append(a, e) = v /\ v \in Seq(Entries) /\ Len(a) \in Nat /\ Len(a) <= Len(v)
    <2>1. Append(a, e) = a \o <<e>>
      BY <1>2, AppendIsConcat
    <2>2. v \in Seq(Entries) /\ Len(v) = Len(a) + Len(<<e>>) /\ Len(a) \in Nat /\ Len(<<e>>) \in Nat
      BY <1>1, <1>2, ConcatIs
    <2>3. Len(a) <= Len(v)
      BY <2>2
    <2>4. Append(a, e) = v
      BY <2>1, <1>1
    <2>. QED BY <2>2, <2>3, <2>4
  <1>4. d = [r EXCEPT !.messages = v]
    BY <1>1, <1>3 DEF Ran
  <1>5. /\ d \in Runs /\ d.messages = v /\ d.calls = r.calls /\ d.cycles = r.cycles
        /\ d.state = r.state /\ d.boundary = r.boundary
    BY <1>3, <1>4 DEF Runs
  <1>6. StepsSound(v, s, n, X, sh)
    BY <1>1, <1>3 DEF RunSound
  <1>7. TakenSound(v, T, J)
    <2>1. \A i : Never(<<e>>, i)
      BY <1>2, OneIs
    <2>2. TakenSound(a, T, J)
      BY <1>1 DEF RunSound
    <2>3. ASSUME NEW i PROVE (Never(a, i) => Never(v, i)) /\ (Once(a, i) => Once(v, i))
      BY <2>1, <1>1, <1>2, ConcatHolds
    <2>. QED BY <2>2, <2>3 DEF TakenSound
  <1>8. StateSound(d, s.messages, J)
    <2>1. StateSound(r, s.messages, J) /\ r.boundary \in 0 .. Len(a)
      BY <1>1, RunFields DEF RunSound, StateSound
    <2>2. AllItems(SubSeq(v, 1, r.boundary)) = AllItems(SubSeq(a, 1, r.boundary))
      BY <2>1, <1>1, <1>2, PrefixKept
    <2>3. r.boundary <= Len(v)
      BY <2>1, <1>3
    <2>. QED BY <2>1, <2>2, <2>3, <1>1, <1>5 DEF StateSound
  <1>. QED BY <1>1, <1>3, <1>5, <1>6, <1>7, <1>8 DEF RunSound

LEMMA ToolsSound ==
    ASSUME NEW r \in Runs, NEW s, NEW n \in Nat, NEW X, NEW J, NEW sh, NEW K, NEW O, NEW T,
           SoundIn(s, n, X, J, sh, K, O), RunSound(r, r.messages, s, n, X, J, sh, T),
           s.checkpoint # None, s.checkpoint.id = n,
           {<<"call", n>>, <<"tool", n>>} \subseteq AllItems(r.messages)
    PROVE  LET t == [s EXCEPT !.checkpoint = [phase |-> "tools_completed", id |-> n],
                              !.provider = StateAfter(r)]
           IN /\ SoundIn(t, n, X, J, sh, K, O)
              /\ RunSound(r, r.messages, t, n, X, J, sh, T)
  <1>1. PICK c, p, t : /\ c = [phase |-> "tools_completed", id |-> n] /\ p = StateAfter(r)
                       /\ t = [s EXCEPT !.checkpoint = c, !.provider = p]
    OBVIOUS
  <1>2. n \in Ids(r.messages) /\ Ids(r.messages) \subseteq 1 .. n
        /\ Ids(r.messages) \cap Ids(s.messages) = {}
    BY DEF RunSound, StepsSound
  <1>3. c \in Checkpoints /\ c.id = n /\ c.id # 0 /\ c.phase = "tools_completed" /\ n \in 1 .. n
    BY <1>1, <1>2 DEF Checkpoints
  <1>4. AllItems(CheckpointMessages(c)) = {<<"call", n>>, <<"tool", n>>}
    BY <1>3, CheckpointIs
  <1>5. /\ p \in States
        /\ p # None =>
              AllItems(s.messages) \cup AllItems(r.messages) \subseteq p \cup Merged(J)
    BY <1>1, StateAfterIs DEF RunSound
  <1>6. Marks(s, c, p, t, J)
    BY <1>1, <1>2, <1>3, <1>4, <1>5 DEF Marks
  <1>7. sh # <<>> => Last(sh) = c.id
    BY <1>3 DEF RunSound, StepsSound
  <1>8. n <= n
    OBVIOUS
  <1>9. SoundIn(t, n, X, J, sh, K, O)
    BY <1>3, <1>6, <1>7, <1>8, CheckpointSound
  <1>10. t.checkpoint = c /\ t.messages = s.messages
    BY <1>6, MarksIs DEF SoundIn
  <1>11. StepsSound(r.messages, t, n, X, sh)
    <2>1. sh # <<>> => t.checkpoint # None
      BY <1>3, <1>10, ConstantsAssumption
    <2>. QED BY <2>1, <1>2, <1>3, <1>4, <1>7, <1>10 DEF RunSound, StepsSound
  <1>. QED BY <1>1, <1>9, <1>10, <1>11 DEF RunSound

\* The model has no answer: the run keeps what its state knows, or drops it.
Silent(r, b) == [r EXCEPT !.state = IF b THEN StateAfter(r) ELSE None,
                          !.boundary = Len(r.messages), !.calls = @ + 1]

LEMMA SilentSound ==
    ASSUME NEW r \in Runs, NEW s, NEW n, NEW X, NEW J, NEW sh, NEW T,
           RunSound(r, r.messages, s, n, X, J, sh, T), r.calls < MaxCalls,
           NEW b \in BOOLEAN
    PROVE  LET d == Silent(r, b)
           IN /\ d \in Runs /\ d.messages = r.messages /\ d.cycles = r.cycles
              /\ RunSound(d, d.messages, s, n, X, J, sh, T)
  <1>1. PICK q, k, c, d : /\ q = IF b THEN StateAfter(r) ELSE None
                          /\ k = Len(r.messages) /\ c = r.calls + 1
                          /\ d = [r EXCEPT !.state = q, !.boundary = k, !.calls = c]
    OBVIOUS
  <1>0. Silent(r, b) = d
    BY <1>1 DEF Silent
  <1>2. /\ r.messages \in Seq(Entries) /\ k \in Nat /\ c \in 0 .. MaxCalls
    BY <1>1, RunFields, ConstantsAssumption
  <1>3. /\ q \in States
        /\ q # None =>
              AllItems(s.messages) \cup AllItems(r.messages) \subseteq q \cup Merged(J)
    BY <1>1, StateAfterIs DEF RunSound, States
  <1>4. /\ d \in Runs /\ d.messages = r.messages /\ d.state = q /\ d.boundary = k
        /\ d.cycles = r.cycles
    BY <1>1, <1>2, <1>3 DEF Runs
  <1>5. SubSeq(r.messages, 1, k) = r.messages
    BY <1>1, <1>2, SubSeqFull
  <1>6. StateSound(d, s.messages, J)
    <2>1. d.boundary <= Len(d.messages)
      BY <1>1, <1>2, <1>4
    <2>2. SubSeq(d.messages, 1, d.boundary) = r.messages
      BY <1>4, <1>5
    <2>. QED BY <2>1, <2>2, <1>3, <1>4 DEF StateSound
  <1>. QED BY <1>0, <1>4, <1>6 DEF RunSound
-----------------------------------------------------------------------------
(* Steps of the run *)

\* The queue is left alone, or the run takes what is in it.
Queue ==
    \/ UNCHANGED <<followups, taken, joined>>
    \/ /\ followups' = {} /\ taken' = taken \cup followups
       /\ joined \subseteq joined' /\ joined' \subseteq joined \cup followups

\* A step of the run: the session becomes s, after n answers.
RunAt(s, n, sh) ==
    /\ stage \in Running
    /\ session' = s /\ file' = s /\ made' = n /\ n \in Nat
    /\ shown' = sh /\ sh \in Seq(Nat \ {0})
    /\ UNCHANGED <<input, waiting, kept, excused, stops, crashes>>

\* It goes to the stage st with the run r.
RunStep(r, st, s, n, sh) ==
    /\ RunAt(s, n, sh)
    /\ stage' = st /\ st \in Running /\ run' = r /\ r \in Runs
    /\ Queue
    /\ st = "calling" => r.calls < MaxCalls

LEMMA RunStepSound ==
    ASSUME IInv, NEW r, NEW st, NEW s, NEW n, NEW sh, RunStep(r, st, s, n, sh),
           SoundIn(s, n, excused, joined, sh, kept \ joined, Outside),
           RunSound(r, Whole(st, r, n), s, n, excused, joined', sh, taken'),
           TailSound(r.messages, st, n, s.checkpoint)
    PROVE  IInv'
  <1>1. stage' = st /\ st \in Running /\ st # "restored" /\ st # "idle" /\ stage # "restored"
        /\ stage # "idle"
    BY DEF RunStep, RunAt, Running
  <1>2. s # None
    BY ConstantsAssumption DEF SoundIn
  <1>3. Outside' = Outside
    BY <1>1 DEF Outside, RunStep, RunAt, Queue
  <1>4. joined \subseteq joined' /\ joined' \subseteq Inputs /\ taken' \subseteq Inputs
        /\ followups' \subseteq followups
    BY DEF RunStep, RunAt, Queue, IInv, TypeInv
  <1>5. TypeInv'
    BY <1>1, <1>2, <1>4 DEF TypeInv, IInv, RunStep, RunAt
  <1>6. Sound(session)' /\ Sound(file)'
    <2>1. PICK L, P : L = joined' /\ P = kept \ joined'
      OBVIOUS
    <2>2. joined \subseteq L /\ P \subseteq kept \ joined /\ n \in Nat /\ n <= n
      BY <2>1, <1>4 DEF RunStep, RunAt
    <2>3. SoundIn(s, n, excused, L, sh, P, Outside)
      BY <2>2, Weaker
    <2>. QED BY <2>1, <2>3, <1>3 DEF Sound, RunStep, RunAt
  <1>7. PlaceInv'
    BY <1>1, <1>3, <1>4 DEF PlaceInv, IInv, RunStep, RunAt, Queue
  <1>8. RunInv'
    BY <1>1 DEF RunInv, RunStep, RunAt
  <1>. QED BY <1>1, <1>5, <1>6, <1>7, <1>8 DEF IInv

LEMMA DrainStep ==
    ASSUME NEW r \in Runs, NEW s, NEW n, NEW X, NEW sh,
           RunSound(r, r.messages, s, n, X, joined, sh, taken),
           CanDrain(r), Takes(r.messages), followups \subseteq Inputs,
           taken \cap followups = {}
    PROVE  LET d == Drained(r)
           IN /\ d \in Runs /\ d.calls = r.calls /\ Speaks(d.messages)
              /\ RunSound(d, d.messages, s, n, X, joined', sh, taken')
              /\ Queue
  <1>1. PICK F, L, U, d : F = followups /\ L = joined' /\ U = taken \cup F /\ d = DrainedBy(r, F)
    OBVIOUS
  <1>2. F # {} /\ F \in SUBSET Inputs /\ F \cap taken = {} /\ r.cycles < MaxCycles
    BY <1>1 DEF CanDrain
  <1>3. Drained(r) = d
    BY <1>1, <1>2 DEF Drained, DrainedBy
  <1>4. /\ joined \subseteq L /\ taken' = U
        /\ Mergeable(r.messages) => F \ SubResults \subseteq L
    BY <1>1 DEF Takes
  <1>5. Queue
    BY DEF Takes, Queue
  <1>6. /\ d \in Runs /\ d.calls = r.calls /\ Speaks(d.messages)
        /\ RunSound(d, d.messages, s, n, X, L, sh, U)
    <2>1. PICK J, T : J = joined /\ T = taken
      OBVIOUS
    <2>2. /\ RunSound(r, r.messages, s, n, X, J, sh, T) /\ J \subseteq L /\ F \cap T = {}
          /\ U = T \cup F
      BY <2>1, <1>1, <1>2, <1>4
    <2>3. LET e == DrainedBy(r, F)
          IN /\ e \in Runs /\ e.calls = r.calls /\ Speaks(e.messages)
             /\ RunSound(e, e.messages, s, n, X, L, sh, T \cup F)
      BY <2>2, <1>2, <1>4, DrainSound
    <2>. QED BY <2>2, <2>3, <1>1
  <1>. QED BY <1>1, <1>3, <1>4, <1>5, <1>6

\* What holds while the run goes on.
LEMMA RunFacts ==
    ASSUME IInv, stage \in Running
    PROVE  /\ run \in Runs /\ run.messages \in Seq(Entries) /\ made \in Nat
           /\ shown \in Seq(Nat \ {0}) /\ session \in Sessions /\ file = session
           /\ SoundIn(session, made, excused, joined, shown, kept \ joined, Outside)
           /\ RunSound(run, Whole(stage, run, made), session, made, excused, joined,
                       shown, taken)
           /\ stage # "tools" => Whole(stage, run, made) = run.messages
           /\ stage = "calling" => run.calls < MaxCalls
           /\ TailSound(run.messages, stage, made, session.checkpoint)
           /\ followups \subseteq Inputs /\ taken \cap followups = {}
  <1>1. stage # "idle"
    BY DEF Running
  <1>2. Sound(session)
    BY <1>1 DEF IInv, TypeInv
  <1>3. session \in Sessions
    BY <1>2 DEF Sound, SoundIn
  <1>4. TypeInv /\ PlaceInv /\ RunInv
    BY DEF IInv
  <1>5. run \in Runs /\ made \in Nat /\ shown \in Seq(Nat \ {0}) /\ followups \subseteq Inputs
    BY <1>4 DEF TypeInv
  <1>. QED BY <1>2, <1>3, <1>4, <1>5, RunFields DEF Sound, RunInv, PlaceInv, Whole
\* The model answers with the step of the checkpoint c.
AnswerOf(c, b) == Answered(CheckpointMessages(c)[1], b)
Kept(c, d) == IF c.phase = "awaiting_tools" THEN session.provider ELSE StateAfter(d)
Marking(c, d) == [session EXCEPT !.checkpoint = c, !.provider = Kept(c, d)]

Answering(c, d, t, b) ==
    /\ stage = "calling" /\ b \in BOOLEAN /\ c \in Checkpoints /\ c.id = made + 1
    /\ c.phase # "tools_completed" /\ d = AnswerOf(c, b) /\ t = Marking(c, d)

Stepped(c, d, t, l, sh) ==
    /\ d \in Runs /\ d.messages # <<>> /\ Last(d.messages) = CheckpointMessages(c)[1]
    /\ SoundIn(t, l, excused, joined, sh, kept \ joined, Outside)
    /\ RunSound(d, Worked(c, d), t, l, excused, joined, sh, taken)
    /\ sh \in Seq(Nat \ {0})
    /\ c.phase = "final_response" => Ends(d.messages, c)
    /\ t.checkpoint = c /\ c # None

LEMMA AnswerStep ==
    ASSUME IInv, NEW b, NEW c, NEW d, NEW t, Answering(c, d, t, b)
    PROVE  Stepped(c, d, t, made + 1, Append(shown, made + 1))
  <1>. /\ stage = "calling" /\ b \in BOOLEAN /\ c \in Checkpoints /\ c.id = made + 1
       /\ c.phase # "tools_completed" /\ d = AnswerOf(c, b) /\ t = Marking(c, d)
    BY DEF Answering
  <1>1. stage \in Running
    BY DEF Running
  <1>2. PICK r, s, n, sh, l, e, p :
            /\ r = run /\ s = session /\ n = made /\ sh = shown /\ l = n + 1
            /\ e = CheckpointMessages(c)[1] /\ p = Kept(c, d)
    OBVIOUS
  <1>3. /\ r \in Runs /\ s \in Sessions /\ n \in Nat /\ sh \in Seq(Nat \ {0})
        /\ SoundIn(s, n, excused, joined, sh, kept \ joined, Outside)
        /\ RunSound(r, r.messages, s, n, excused, joined, sh, taken)
        /\ r.calls < MaxCalls
    BY <1>1, <1>2, RunFacts
  <1>4. /\ e \in Entries /\ Items(e) = {<<e.role, e.id>>}
    <2>1. l \in Nat
      BY <1>2, <1>3
    <2>2. CASE c.phase = "final_response"
      <3>1. e = Reply(l)
        BY <2>2, <1>2 DEF CheckpointMessages
      <3>. QED BY <2>1, <3>1, WrittenTypes DEF Reply, Items
    <2>3. CASE c.phase # "final_response"
      <3>1. e = Call(l)
        BY <2>3, <1>2 DEF CheckpointMessages
      <3>. QED BY <2>1, <3>1, WrittenTypes DEF Call, Items
    <2>. QED BY <2>2, <2>3
  <1>5. d = Answered(e, b)
    BY <1>2 DEF AnswerOf
  <1>6. /\ d \in Runs /\ d.messages = Append(r.messages, e)
        /\ StateSound(d, s.messages, joined)
    <2>1. StateSound(run, session.messages, joined)
      BY <1>2, <1>3 DEF RunSound
    <2>. QED BY <2>1, <1>2, <1>3, <1>4, <1>5, AnsweredIs
  <1>7. /\ p \in States
        /\ p # None =>
              /\ AllItems(s.messages) \subseteq p \cup Merged(joined)
              /\ Exact(c) => AllItems(d.messages) \subseteq p \cup Merged(joined)
    <2>1. CASE c.phase = "awaiting_tools"
      <3>1. p = s.provider /\ ~Exact(c)
        BY <2>1, <1>2 DEF Kept, Exact
      <3>. QED BY <3>1, <1>3, SessionFields DEF SoundIn, Covered
    <2>2. CASE c.phase # "awaiting_tools"
      <3>1. p = StateAfter(d)
        BY <2>2, <1>2 DEF Kept
      <3>. QED BY <3>1, <1>6, StateAfterIs
    <2>. QED BY <2>1, <2>2
  <1>8. t = [s EXCEPT !.checkpoint = c, !.provider = p]
    BY <1>2 DEF Marking
  <1>9. Answers(r, s, l, c, p, d, t, joined)
    BY <1>2, <1>6, <1>7, <1>8 DEF Answers
  <1>10. /\ SoundIn(t, l, excused, joined, Append(sh, l), kept \ joined, Outside)
         /\ RunSound(d, Worked(c, d), t, l, excused, joined, Append(sh, l), taken)
         /\ Append(sh, l) \in Seq(Nat \ {0})
         /\ c.phase = "final_response" => Ends(d.messages, c)
    <2>1. PICK J, X, K, O, T : /\ J = joined /\ X = excused /\ K = kept \ joined
                               /\ O = Outside /\ T = taken
      OBVIOUS
    <2>2. /\ SoundIn(s, n, X, J, sh, K, O) /\ RunSound(r, r.messages, s, n, X, J, sh, T)
          /\ Answers(r, s, l, c, p, d, t, J)
      BY <2>1, <1>3, <1>9
    <2>4. /\ SoundIn(t, l, X, J, Append(sh, l), K, O)
          /\ RunSound(d, Worked(c, d), t, l, X, J, Append(sh, l), T)
          /\ Append(sh, l) \in Seq(Nat \ {0})
          /\ c.phase = "final_response" => Ends(d.messages, c)
      BY <2>2, <1>2, <1>3, AnswerSound
    <2>. QED BY <2>1, <2>4
  <1>11. d.messages # <<>> /\ Last(d.messages) = e
    <2>1. PICK a \in Seq(Entries) : a = r.messages
      BY <1>3, RunFields
    <2>2. Append(a, e) # <<>> /\ Last(Append(a, e)) = e
      BY <1>4, AppendIs
    <2>. QED BY <2>1, <2>2, <1>6
  <1>12. t.checkpoint = c /\ c # None
    BY <1>3, <1>8, ConstantsAssumption DEF Sessions
  <1>. QED BY <1>2, <1>6, <1>10, <1>11, <1>12 DEF Stepped

LEMMA CallToolsSound ==
    ASSUME IInv, NEW b \in BOOLEAN, CallTools(b)
    PROVE  IInv'
  <1>1. stage = "calling" /\ stage \in Running /\ "tools" \in Running /\ made \in Nat
    BY RunFacts DEF CallTools, Running
  <1>2. PICK l, c : l = made + 1 /\ c = [phase |-> "awaiting_tools", id |-> l]
    OBVIOUS
  <1>3. /\ c \in Checkpoints /\ c.id = l /\ c.phase = "awaiting_tools" /\ l \in Nat
        /\ CheckpointMessages(c)[1] = Call(l)
    BY <1>1, <1>2 DEF Checkpoints, CheckpointMessages
  <1>4. PICK d, t, sh : d = AnswerOf(c, b) /\ t = Marking(c, d) /\ sh = Append(shown, l)
    OBVIOUS
  <1>5. /\ d \in Runs /\ d.messages # <<>> /\ Last(d.messages) = Call(l)
        /\ SoundIn(t, l, excused, joined, sh, kept \ joined, Outside)
        /\ RunSound(d, Worked(c, d), t, l, excused, joined, sh, taken)
        /\ sh \in Seq(Nat \ {0}) /\ t.checkpoint = c /\ c # None
    <2>1. Answering(c, d, t, b)
      BY <1>1, <1>2, <1>3, <1>4 DEF Answering
    <2>2. Stepped(c, d, t, l, sh)
      BY <2>1, <1>2, <1>4, AnswerStep
    <2>. QED BY <2>2, <1>3 DEF Stepped
  <1>6. made' = l /\ run' = d /\ shown' = sh
    BY <1>2, <1>3, <1>4 DEF CallTools, AnswerOf
  <1>7. session' = t /\ file' = t
    BY <1>2, <1>3, <1>4, <1>6 DEF CallTools, Checkpoint, Save, Marking, Kept
  <1>8. RunStep(d, "tools", t, l, sh)
    BY <1>1, <1>3, <1>5, <1>6, <1>7 DEF RunStep, RunAt, Queue, CallTools, faults
  <1>9. Worked(c, d) = Whole("tools", d, l)
    BY <1>3 DEF Whole, Worked
  <1>10. TailSound(d.messages, "tools", l, t.checkpoint)
    BY <1>3, <1>5 DEF TailSound
  <1>11. RunSound(d, Whole("tools", d, l), t, l, excused, joined', sh, taken')
    BY <1>5, <1>9 DEF CallTools
  <1>. QED BY <1>5, <1>8, <1>10, <1>11, RunStepSound
\* The run takes its follow-ups and goes on.
LEMMA TakeStep ==
    ASSUME IInv, NEW r \in Runs, NEW s, NEW n, NEW sh, RunAt(s, n, sh),
           SoundIn(s, n, excused, joined, sh, kept \ joined, Outside),
           RunSound(r, r.messages, s, n, excused, joined, sh, taken),
           CanDrain(r), Takes(r.messages), run' = Drained(r), stage' = NextStage(r)
    PROVE  IInv'
  <1>1. PICK d, st : d = Drained(r) /\ st = NextStage(r)
    OBVIOUS
  <1>2. followups \subseteq Inputs /\ taken \cap followups = {} /\ stage \in Running
    BY RunFacts DEF RunAt
  <1>3. /\ d \in Runs /\ d.calls = r.calls /\ Speaks(d.messages)
        /\ RunSound(d, d.messages, s, n, excused, joined', sh, taken')
        /\ Queue
    <2>1. PICK X : X = excused
      OBVIOUS
    <2>2. RunSound(r, r.messages, s, n, X, joined, sh, taken)
      BY <2>1
    <2>3. LET e == Drained(r)
          IN /\ e \in Runs /\ e.calls = r.calls /\ Speaks(e.messages)
             /\ RunSound(e, e.messages, s, n, X, joined', sh, taken')
             /\ Queue
      BY <1>2, <2>2, DrainStep
    <2>. QED BY <1>1, <2>1, <2>3
  <1>4. /\ st \in {"calling", "exhausted"} /\ st \in Running
        /\ st = "calling" => r.calls < MaxCalls
    BY <1>1 DEF NextStage, Running
  <1>5. RunStep(d, st, s, n, sh)
    BY <1>1, <1>3, <1>4 DEF RunStep
  <1>6. Whole(st, d, n) = d.messages
    BY <1>4 DEF Whole
  <1>7. TailSound(d.messages, st, n, s.checkpoint)
    BY <1>3, <1>4 DEF TailSound, Speaks
  <1>8. RunSound(d, Whole(st, d, n), s, n, excused, joined', sh, taken')
    BY <1>3, <1>6
  <1>. QED BY <1>5, <1>7, <1>8, RunStepSound

\* It leaves them.
LEMMA KeepStep ==
    ASSUME IInv, NEW r \in Runs, NEW s, NEW n, NEW sh, RunAt(s, n, sh),
           SoundIn(s, n, excused, joined, sh, kept \ joined, Outside),
           RunSound(r, r.messages, s, n, excused, joined, sh, taken),
           UNCHANGED <<followups, taken, joined>>, run' = r,
           NEW st, st \in Running, stage' = st, st # "tools",
           st = "calling" => r.calls < MaxCalls,
           TailSound(r.messages, st, n, s.checkpoint)
    PROVE  IInv'
  <1>1. RunStep(r, st, s, n, sh)
    BY DEF RunStep, Queue
  <1>2. RunSound(r, Whole(st, r, n), s, n, excused, joined', sh, taken')
    BY DEF Whole
  <1>. QED BY <1>1, <1>2, RunStepSound

LEMMA FinalAnswerSound ==
    ASSUME IInv, NEW b \in BOOLEAN, FinalAnswer(b)
    PROVE  IInv'
  <1>1. stage = "calling" /\ stage \in Running /\ "ended" \in Running /\ made \in Nat
    BY RunFacts DEF FinalAnswer, Running
  <1>2. PICK l, c : l = made + 1 /\ c = [phase |-> "final_response", id |-> l]
    OBVIOUS
  <1>3. /\ c \in Checkpoints /\ c.id = l /\ c.phase = "final_response" /\ l \in Nat
        /\ CheckpointMessages(c)[1] = Reply(l)
    BY <1>1, <1>2 DEF Checkpoints, CheckpointMessages
  <1>4. PICK d, t, sh : d = AnswerOf(c, b) /\ t = Marking(c, d) /\ sh = Append(shown, l)
    OBVIOUS
  <1>5. /\ d \in Runs /\ d.messages # <<>>
        /\ SoundIn(t, l, excused, joined, sh, kept \ joined, Outside)
        /\ RunSound(d, d.messages, t, l, excused, joined, sh, taken)
        /\ sh \in Seq(Nat \ {0}) /\ t.checkpoint = c /\ c # None /\ Ends(d.messages, c)
    <2>1. Answering(c, d, t, b)
      BY <1>1, <1>2, <1>3, <1>4 DEF Answering
    <2>2. Stepped(c, d, t, l, sh)
      BY <2>1, <1>2, <1>4, AnswerStep
    <2>3. Worked(c, d) = d.messages
      BY <1>3 DEF Worked
    <2>. QED BY <2>2, <2>3, <1>3 DEF Stepped
  <1>6. made' = l /\ shown' = sh /\ d = Answered(Reply(made'), b)
    BY <1>2, <1>3, <1>4 DEF FinalAnswer, AnswerOf
  <1>7. session' = t /\ file' = t
    <2>1. Checkpoint("final_response", l, d)
      BY <1>6 DEF FinalAnswer
    <2>. QED BY <2>1, <1>2, <1>3, <1>4 DEF Checkpoint, Save, Marking, Kept
  <1>8. RunAt(t, l, sh)
    BY <1>1, <1>3, <1>5, <1>6, <1>7 DEF RunAt, FinalAnswer, faults
  <1>9. CASE CanDrain(d)
    <2>1. run' = Drained(d) /\ Takes(d.messages) /\ stage' = NextStage(d)
      BY <1>6, <1>9 DEF FinalAnswer
    <2>. QED BY <2>1, <1>5, <1>8, <1>9, TakeStep
  <1>10. CASE ~CanDrain(d)
    <2>1. run' = d /\ stage' = "ended" /\ UNCHANGED <<followups, taken, joined>>
      BY <1>6, <1>10 DEF FinalAnswer
    <2>2. TailSound(d.messages, "ended", l, t.checkpoint)
      BY <1>5 DEF TailSound
    <2>. QED BY <2>1, <2>2, <1>1, <1>5, <1>8, KeepStep
  <1>. QED BY <1>9, <1>10

LEMMA ToolsDoneSound ==
    ASSUME IInv, ToolsDone
    PROVE  IInv'
  <1>1. stage = "tools" /\ stage \in Running /\ made \in Nat
    BY RunFacts DEF ToolsDone, Running
  <1>2. PICK r, n, s, d, sh : /\ r = run /\ n = made /\ s = session /\ d = Ran(run, made)
                              /\ sh = shown
    OBVIOUS
  <1>3. /\ r \in Runs /\ r.messages \in Seq(Entries) /\ n \in Nat /\ sh \in Seq(Nat \ {0})
        /\ SoundIn(s, n, excused, joined, sh, kept \ joined, Outside)
        /\ RunSound(r, Append(r.messages, Result(n, FALSE)), s, n, excused, joined, sh, taken)
        /\ r.messages # <<>> /\ Last(r.messages) = Call(n)
        /\ s.checkpoint # None /\ s.checkpoint.id = n
    BY <1>1, <1>2, RunFacts DEF Whole, TailSound
  <1>4. /\ d \in Runs /\ d.calls = r.calls
        /\ d.messages = Append(r.messages, Result(n, FALSE))
        /\ RunSound(d, d.messages, s, n, excused, joined, sh, taken)
    BY <1>2, <1>3, RanSound
  <1>5. {<<"call", n>>, <<"tool", n>>} \subseteq AllItems(d.messages)
    <2>1. PICK a, e, f : a = r.messages /\ e = Call(n) /\ f = Result(n, FALSE)
      OBVIOUS
    <2>2. /\ a \in Seq(Entries) /\ f \in Entries /\ a # <<>> /\ Last(a) = e
      BY <2>1, <1>3, WrittenTypes
    <2>5. a[Len(a)] = e /\ Len(a) \in 1 .. Len(a)
      BY <2>2 DEF Last
    <2>6. Items(e) = {<<"call", n>>} /\ Items(f) = {<<"tool", n>>}
      BY <2>1 DEF Items, Call, Result
    <2>3. AllItems(Append(a, f)) = AllItems(a) \cup Items(f)
      <3>1. PICK q : q = <<f>>
        OBVIOUS
      <3>2. q \in Seq(Entries) /\ AllItems(q) = Items(f)
        BY <3>1, <2>2, OneIs
      <3>3. Append(a, f) = a \o q
        BY <2>2, <3>1, AppendIsConcat
      <3>. QED BY <2>2, <3>2, <3>3, ConcatItems
    <2>4. Items(e) \subseteq AllItems(a)
      BY <2>2, <2>5, ItemsOf
    <2>. QED BY <2>1, <2>3, <2>4, <2>6, <1>4
  <1>6. PICK t : t = [s EXCEPT !.checkpoint = [phase |-> "tools_completed", id |-> n],
                               !.provider = StateAfter(d)]
    OBVIOUS
  <1>7. /\ SoundIn(t, n, excused, joined, sh, kept \ joined, Outside)
        /\ RunSound(d, d.messages, t, n, excused, joined, sh, taken)
    BY <1>3, <1>4, <1>5, <1>6, ToolsSound
  <1>8. session' = t /\ file' = t
    BY <1>2, <1>6 DEF ToolsDone, Checkpoint, Save, Ran
  <1>9. RunAt(t, n, sh)
    BY <1>1, <1>2, <1>3, <1>8 DEF RunAt, ToolsDone, faults
  <1>10. CASE CanDrain(d)
    <2>1. run' = Drained(d) /\ Takes(d.messages) /\ stage' = NextStage(d)
      BY <1>2, <1>10 DEF ToolsDone, Ran
    <2>. QED BY <2>1, <1>4, <1>7, <1>9, <1>10, TakeStep
  <1>11. CASE ~CanDrain(d)
    <2>1. run' = d /\ stage' = NextStage(d) /\ UNCHANGED <<followups, taken, joined>>
      BY <1>2, <1>11 DEF ToolsDone, Ran
    <2>2. PICK st : st = NextStage(d)
      OBVIOUS
    <2>3. /\ st \in Running /\ st \in {"calling", "exhausted"}
          /\ st = "calling" => d.calls < MaxCalls
      BY <2>2 DEF NextStage, Running
    <2>4. TailSound(d.messages, st, n, t.checkpoint)
      <3>1. PICK f : f = Result(n, FALSE)
        OBVIOUS
      <3>2. f \in Entries /\ f.role = "tool"
        BY <3>1, <1>3, WrittenTypes DEF Result
      <3>3. Last(d.messages) = f
        BY <3>1, <3>2, <1>3, <1>4, AppendIs
      <3>. QED BY <2>3, <3>2, <3>3 DEF TailSound
    <2>. QED BY <2>1, <2>2, <2>3, <2>4, <1>4, <1>7, <1>9, KeepStep
  <1>. QED BY <1>10, <1>11
LEMMA ToolsFailSound ==
    ASSUME IInv, ToolsFail
    PROVE  IInv'
  <1>1. stage = "tools" /\ stage \in Running /\ "errored" \in Running
    BY DEF ToolsFail, Running
  <1>2. PICK r, n, s, d, e, sh : /\ r = run /\ n = made /\ s = session /\ d = Ran(run, made)
                                 /\ sh = shown /\ e = Noticed(d)
    OBVIOUS
  <1>3. /\ r \in Runs /\ r.messages \in Seq(Entries) /\ n \in Nat /\ sh \in Seq(Nat \ {0})
        /\ SoundIn(s, n, excused, joined, sh, kept \ joined, Outside)
        /\ RunSound(r, Append(r.messages, Result(n, FALSE)), s, n, excused, joined, sh, taken)
        /\ file = s
    BY <1>1, <1>2, RunFacts DEF Whole
  <1>4. /\ d \in Runs /\ d.messages = Append(r.messages, Result(n, FALSE))
        /\ RunSound(d, d.messages, s, n, excused, joined, sh, taken)
    BY <1>2, <1>3, RanSound
  <1>5. /\ e \in Runs /\ e.messages # <<>> /\ Last(e.messages).role = "notice"
        /\ RunSound(e, e.messages, s, n, excused, joined, sh, taken)
    BY <1>2, <1>4, NoticeSound
  <1>6. run' = e
    <2>1. PICK a, f : a = r.messages /\ f = Result(n, FALSE)
      OBVIOUS
    <2>2. a \in Seq(Entries) /\ f \in Entries /\ Notice \in Entries
      BY <2>1, <1>3, WrittenTypes
    <2>3. a \o <<f, Notice>> = Append(Append(a, f), Notice)
      BY <2>2
    <2>4. run' = [r EXCEPT !.messages = a \o <<f, Notice>>]
      BY <2>1, <1>2 DEF ToolsFail
    <2>5. d = [r EXCEPT !.messages = Append(a, f)]
      BY <2>1, <1>2 DEF Ran
    <2>6. e = [r EXCEPT !.messages = Append(Append(a, f), Notice)]
      BY <2>5, <1>2, <1>3 DEF Runs, Noticed
    <2>. QED BY <2>3, <2>4, <2>6
  <1>7. RunAt(s, n, sh)
    BY <1>1, <1>2, <1>3 DEF RunAt, ToolsFail, faults, history
  <1>8. stage' = "errored" /\ UNCHANGED <<followups, taken, joined>>
    BY DEF ToolsFail, history
  <1>9. TailSound(e.messages, "errored", n, s.checkpoint)
    BY <1>5 DEF TailSound
  <1>. QED BY <1>1, <1>3, <1>5, <1>6, <1>7, <1>8, <1>9, KeepStep

LEMMA NoAnswerSound ==
    ASSUME IInv, NEW b \in BOOLEAN, NoAnswer(b)
    PROVE  IInv'
  <1>1. stage = "calling" /\ stage \in Running /\ "errored" \in Running /\ stage # "tools"
    BY DEF NoAnswer, Running
  <1>2. PICK r, n, s, d, sh :
            /\ r = run /\ n = made /\ s = session /\ sh = shown
            /\ d = Silent(r, b)
    OBVIOUS
  <1>3. /\ r \in Runs /\ r.messages \in Seq(Entries) /\ n \in Nat /\ sh \in Seq(Nat \ {0})
        /\ SoundIn(s, n, excused, joined, sh, kept \ joined, Outside)
        /\ RunSound(r, r.messages, s, n, excused, joined, sh, taken)
        /\ r.calls < MaxCalls /\ file = s
        /\ TailSound(r.messages, "calling", n, s.checkpoint)
    BY <1>1, <1>2, RunFacts
  <1>4. /\ d \in Runs /\ d.messages = r.messages
        /\ RunSound(d, d.messages, s, n, excused, joined, sh, taken)
    BY <1>2, <1>3, SilentSound
  <1>5. RunAt(s, n, sh)
    BY <1>1, <1>2, <1>3 DEF RunAt, NoAnswer, faults
  <1>6. CASE CanDrain(d)
    <2>1. run' = Drained(d) /\ Takes(d.messages) /\ stage' = NextStage(d)
      BY <1>2, <1>6 DEF NoAnswer, Silent
    <2>. QED BY <2>1, <1>3, <1>4, <1>5, <1>6, TakeStep
  <1>7. CASE ~CanDrain(d)
    <2>1. PICK e : e = Noticed(d)
      OBVIOUS
    <2>2. d.messages = <<>> \/ Last(d.messages).role \notin {"assistant", "notice"}
      BY <1>3, <1>4 DEF TailSound
    <2>3. /\ run' = e /\ stage' = "errored" /\ UNCHANGED <<followups, taken, joined>>
      BY <2>1, <2>2, <1>2, <1>7 DEF NoAnswer, Silent, Noticed
    <2>4. /\ e \in Runs /\ e.messages # <<>> /\ Last(e.messages).role = "notice"
          /\ RunSound(e, e.messages, s, n, excused, joined, sh, taken)
      BY <2>1, <1>4, NoticeSound
    <2>5. TailSound(e.messages, "errored", n, s.checkpoint)
      BY <2>4 DEF TailSound
    <2>. QED BY <2>3, <2>4, <2>5, <1>1, <1>3, <1>5, KeepStep
  <1>. QED BY <1>6, <1>7

LEMMA AfterErrorSound ==
    ASSUME IInv, AfterError
    PROVE  IInv'
  <1>1. stage = "errored" /\ stage \in Running /\ "ended" \in Running /\ stage # "tools"
    BY DEF AfterError, Running
  <1>2. PICK r, n, s, sh : r = run /\ n = made /\ s = session /\ sh = shown
    OBVIOUS
  <1>3. /\ r \in Runs /\ n \in Nat /\ sh \in Seq(Nat \ {0})
        /\ SoundIn(s, n, excused, joined, sh, kept \ joined, Outside)
        /\ RunSound(r, r.messages, s, n, excused, joined, sh, taken)
        /\ file = s /\ TailSound(r.messages, "errored", n, s.checkpoint)
    BY <1>1, <1>2, RunFacts
  <1>4. RunAt(s, n, sh)
    BY <1>1, <1>2, <1>3 DEF RunAt, AfterError, faults
  <1>5. CASE CanDrain(r)
    <2>1. run' = Drained(r) /\ Takes(r.messages) /\ stage' = NextStage(r)
      BY <1>2, <1>5 DEF AfterError
    <2>. QED BY <2>1, <1>3, <1>4, <1>5, TakeStep
  <1>6. CASE ~CanDrain(r)
    <2>1. run' = r /\ stage' = "ended" /\ UNCHANGED <<followups, taken, joined>>
      BY <1>2, <1>6 DEF AfterError
    <2>2. TailSound(r.messages, "ended", n, s.checkpoint)
      BY <1>3 DEF TailSound
    <2>. QED BY <2>1, <2>2, <1>1, <1>3, <1>4, KeepStep
  <1>. QED BY <1>5, <1>6

LEMMA ExhaustedSound ==
    ASSUME IInv, Exhausted
    PROVE  IInv'
  <1>1. stage = "exhausted" /\ stage \in Running /\ "ended" \in Running /\ stage # "tools"
    BY DEF Exhausted, Running
  <1>2. PICK r, n, s, sh, d, e :
            /\ r = run /\ n = made /\ s = session /\ sh = shown
            /\ d = IF CanDrain(r) THEN Drained(r) ELSE r
            /\ e = Noticed(d)
    OBVIOUS
  <1>3. /\ r \in Runs /\ n \in Nat /\ sh \in Seq(Nat \ {0})
        /\ SoundIn(s, n, excused, joined, sh, kept \ joined, Outside)
        /\ RunSound(r, r.messages, s, n, excused, joined, sh, taken)
        /\ file = s /\ followups \subseteq Inputs /\ taken \cap followups = {}
    BY <1>1, <1>2, RunFacts
  <1>4. RunAt(s, n, sh)
    BY <1>1, <1>2, <1>3 DEF RunAt, Exhausted, faults
  <1>5. PICK X, L, U : X = excused /\ L = joined' /\ U = taken'
    OBVIOUS
  <1>6. d \in Runs /\ RunSound(d, d.messages, s, n, X, L, sh, U) /\ Queue
    <2>1. CASE CanDrain(r)
      <3>1. d = Drained(r) /\ Takes(r.messages)
        BY <2>1, <1>2 DEF Exhausted
      <3>2. RunSound(r, r.messages, s, n, X, joined, sh, taken)
        BY <1>3, <1>5
      <3>3. LET q == Drained(r)
            IN /\ q \in Runs /\ q.calls = r.calls /\ Speaks(q.messages)
               /\ RunSound(q, q.messages, s, n, X, joined', sh, taken')
               /\ Queue
        BY <2>1, <3>1, <3>2, <1>3, DrainStep
      <3>. QED BY <3>1, <3>3, <1>5
    <2>2. CASE ~CanDrain(r)
      <3>1. d = r /\ UNCHANGED <<followups, taken, joined>>
        BY <2>2, <1>2 DEF Exhausted
      <3>. QED BY <3>1, <1>3, <1>5 DEF Queue
    <2>. QED BY <2>1, <2>2
  <1>7. /\ e \in Runs /\ e.messages # <<>> /\ Last(e.messages).role = "notice"
        /\ RunSound(e, e.messages, s, n, X, L, sh, U)
    BY <1>2, <1>6, NoticeSound
  <1>8. run' = e /\ stage' = "ended"
    BY <1>2 DEF Exhausted, Noticed
  <1>9. RunStep(e, "ended", s, n, sh)
    BY <1>1, <1>4, <1>6, <1>7, <1>8 DEF RunStep
  <1>10. TailSound(e.messages, "ended", n, s.checkpoint)
    BY <1>7 DEF TailSound
  <1>11. RunSound(e, Whole("ended", e, n), s, n, excused, joined', sh, taken')
    BY <1>5, <1>7 DEF Whole
  <1>. QED BY <1>3, <1>9, <1>10, <1>11, RunStepSound
-----------------------------------------------------------------------------
(* The turn *)

LEMMA RestoreSound ==
    ASSUME IInv, NEW i \in Inputs, Restore(i)
    PROVE  IInv'
  <1>1. PICK s, r : s = (IF session = None THEN file ELSE session) /\ r = ClosePending(Materialize(s))
    OBVIOUS
  <1>2. /\ stage = "idle" /\ stage' = "restored" /\ input' = i /\ i \in waiting
        /\ waiting' = waiting \ {i} /\ session' = r /\ file' \in {file, r}
        /\ UNCHANGED <<run, followups, made, stops, crashes, shown, taken, joined, kept, excused>>
    BY <1>1 DEF Restore, faults, history
  <1>3. stage \notin Running /\ stage' \notin Running
    BY <1>2 DEF Running
  <1>4. TypeInv /\ PlaceInv /\ Sound(file) /\ Sound(s)
    BY <1>1 DEF IInv
  <1>5. Outside' = Outside
    BY <1>2, <1>3 DEF Outside
  <1>6. SoundIn(r, made, excused, joined, shown, kept \ joined, Outside) /\ Closed(r)
    <2>1. SoundIn(s, made, excused, joined, shown, kept \ joined, Outside) /\ made \in Nat
      BY <1>4 DEF Sound, TypeInv
    <2>. QED BY <2>1, <1>1, RepairSound
  <1>7. r # None
    BY <1>6, ConstantsAssumption DEF SoundIn
  <1>8. Sound(session)' /\ Sound(file)' /\ Closed(session)'
    BY <1>2, <1>4, <1>5, <1>6 DEF Sound
  <1>9. TypeInv'
    BY <1>2, <1>4, <1>7 DEF TypeInv
  <1>10. PlaceInv'
    BY <1>2, <1>3, <1>4, <1>5 DEF PlaceInv
  <1>. QED BY <1>3, <1>8, <1>9, <1>10 DEF IInv, RunInv

LEMMA FollowUpSound ==
    ASSUME IInv, NEW i \in Inputs, FollowUp(i)
    PROVE  IInv'
  <1>1. /\ stage # "idle" /\ i \in waiting
        /\ waiting' = waiting \ {i} /\ followups' = followups \cup {i}
        /\ UNCHANGED <<file, session, stage, input, run, made, stops, crashes,
                       shown, taken, joined, kept, excused>>
    BY DEF FollowUp, turnVars, faults, history
  <1>2. Outside' = Outside
    BY <1>1 DEF Outside
  <1>3. Sound(file)' /\ (session # None => Sound(session))'
        /\ (stage = "restored" => Closed(session))'
    BY <1>1, <1>2 DEF IInv, Sound
  <1>4. TypeInv'
    BY <1>1 DEF IInv, TypeInv
  <1>5. PlaceInv'
    BY <1>1, <1>2 DEF IInv, PlaceInv
  <1>6. RunInv'
    BY <1>1 DEF IInv, RunInv
  <1>. QED BY <1>3, <1>4, <1>5, <1>6 DEF IInv

\* A turn starts with the restored session.
LEMMA RestoredFacts ==
    ASSUME IInv, stage = "restored"
    PROVE  /\ SoundIn(session, made, excused, joined, shown, kept \ joined, Outside)
           /\ Closed(session) /\ session \in Sessions /\ made \in Nat
           /\ input \in Inputs /\ input \in Outside /\ input \notin kept
           /\ Outside = waiting \cup followups \cup {input}
           /\ input \notin waiting \cup followups /\ kept \cap (waiting \cup followups) = {}
  <1>1. stage \notin Running /\ stage # "idle"
    BY DEF Running
  <1>2. Sound(session) /\ Closed(session) /\ TypeInv /\ PlaceInv
    BY <1>1 DEF IInv, TypeInv
  <1>3. Outside = waiting \cup followups \cup {input}
    BY <1>1 DEF Outside
  <1>. QED BY <1>1, <1>2, <1>3 DEF Sound, SoundIn, TypeInv, PlaceInv

LEMMA CommandStepSound ==
    ASSUME IInv, Command
    PROVE  IInv'
  <1>1. PICK s, i, t : s = session /\ i = input /\ t = [s EXCEPT !.messages = @ \o Slash(i)]
    OBVIOUS
  <1>2. /\ stage = "restored" /\ stage' = "idle" /\ input' = None
        /\ session' = t /\ file' = t
        /\ waiting' = waiting \cup followups /\ followups' = {}
        /\ kept' = kept \cup {i} /\ shown' = <<>> /\ taken' = {}
        /\ UNCHANGED <<made, stops, crashes, joined, excused, run>>
    BY <1>1 DEF Command, Save, faults
  <1>3. stage' \notin Running
    BY <1>2 DEF Running
  <1>4. Outside' = waiting \cup followups
    BY <1>2, <1>3 DEF Outside
  <1>5. PICK n, X, J, sh, K, O, P, Q :
            /\ n = made /\ X = excused /\ J = joined /\ sh = shown /\ K = kept \ joined
            /\ O = Outside /\ P = (kept \cup {i}) \ joined /\ Q = waiting \cup followups
    OBVIOUS
  <1>6. /\ SoundIn(s, n, X, J, sh, K, O) /\ Closed(s) /\ n \in Nat
        /\ i \in Inputs /\ i \in O /\ i \notin K /\ Q \subseteq O \ {i} /\ P \subseteq K \cup {i}
    BY <1>1, <1>2, <1>5, RestoredFacts
  <1>7. SoundIn(t, n, X, J, sh, K \cup {i}, O \ {i})
    BY <1>1, <1>6, CommandSound
  <1>8. SoundIn(t, n, X, J, <<>>, P, Q)
    <2>1. n <= n
      BY <1>6
    <2>. QED BY <2>1, <1>6, <1>7, Weaker
  <1>9. Sound(session)' /\ Sound(file)'
    BY <1>2, <1>4, <1>5, <1>8 DEF Sound
  <1>10. TypeInv'
    BY <1>2, <1>6 DEF TypeInv, IInv
  <1>11. PlaceInv'
    BY <1>1, <1>2, <1>3, <1>4, RestoredFacts DEF PlaceInv
  <1>. QED BY <1>2, <1>3, <1>9, <1>10, <1>11 DEF IInv, RunInv

LEMMA BuildStepSound ==
    ASSUME IInv, Build
    PROVE  IInv'
  <1>1. PICK s, i, t, r : /\ s = session /\ i = input /\ t = Built(s, i)
                          /\ r = [NoRun EXCEPT !.state = Staged(s, i)]
    OBVIOUS
  <1>2. /\ stage = "restored" /\ stage' = "calling"
        /\ session' = t /\ file' = t /\ run' = r
        /\ kept' = kept \cup {i} /\ shown' = <<>> /\ taken' = {}
        /\ UNCHANGED <<input, followups, waiting, made, stops, crashes, joined, excused>>
    BY <1>1 DEF Build, BuildSaved, Save, Built, Staged, Own, faults
  <1>3. stage' \in Running
    BY <1>2 DEF Running
  <1>4. Outside' = waiting \cup followups
    BY <1>2, <1>3 DEF Outside
  <1>5. PICK n, X, J, sh, K, O, P, Q :
            /\ n = made /\ X = excused /\ J = joined /\ sh = shown /\ K = kept \ joined
            /\ O = Outside /\ P = (kept \cup {i}) \ joined /\ Q = waiting \cup followups
    OBVIOUS
  <1>6. /\ SoundIn(s, n, X, J, sh, K, O) /\ Closed(s) /\ n \in Nat
        /\ i \in Inputs /\ i \in O /\ i \notin K /\ Q \subseteq O \ {i} /\ P \subseteq K \cup {i}
    BY <1>1, <1>2, <1>5, RestoredFacts
  <1>7. /\ SoundIn(t, n, X, J, sh, K \cup {i}, O \ {i})
        /\ t.checkpoint = None /\ t.provider = Staged(s, i) /\ Staged(s, i) \in States
    BY <1>1, <1>6, BuildSound
  <1>8. SoundIn(t, n, X, J, <<>>, P, Q)
    <2>1. n <= n
      BY <1>6
    <2>. QED BY <2>1, <1>6, <1>7, Weaker
  <1>9. Sound(session)' /\ Sound(file)'
    BY <1>2, <1>4, <1>5, <1>8 DEF Sound
  <1>10. /\ r \in Runs /\ r.messages = <<>> /\ r.calls = 0 /\ r.boundary = 0
         /\ r.state = t.provider
    <2>1. PICK q, e : q = Staged(s, i) /\ e = <<>>
      OBVIOUS
    <2>2. q \in States /\ e \in Seq(Entries) /\ 0 \in 0 .. MaxCalls /\ 0 \in 0 .. MaxCycles
      BY <2>1, <1>7, WrittenTypes, ConstantsAssumption
    <2>3. r = [messages |-> e, calls |-> 0, cycles |-> 0, state |-> q, boundary |-> 0]
      BY <2>1, <1>1 DEF NoRun
    <2>4. /\ r \in Runs /\ r.messages = e /\ r.calls = 0 /\ r.boundary = 0 /\ r.state = q
      BY <2>2, <2>3 DEF Runs
    <2>. QED BY <2>1, <2>4, <1>7
  <1>11. t # None
    BY <1>8, ConstantsAssumption DEF SoundIn
  <1>12. TypeInv'
    <2>1. shown' \in Seq(Nat \ {0})
      BY <1>2
    <2>. QED BY <2>1, <1>1, <1>2, <1>3, <1>6, <1>10, <1>11 DEF TypeInv, IInv
  <1>13. PlaceInv'
    BY <1>1, <1>2, <1>3, <1>4, RestoredFacts DEF PlaceInv, IInv
  <1>14. RunSound(r, <<>>, t, n, X, J, <<>>, {})
    <2>0. PICK e : e = <<>>
      OBVIOUS
    <2>1. e = <<>> /\ e \in Seq(Entries) /\ Len(e) = 0
      BY <2>0
    <2>2. Paired(e) /\ Single(e, X) /\ Ids(e) = {}
      BY <2>1 DEF Paired, Single, Ids
    <2>3. StepsSound(e, t, n, X, e)
      BY <2>1, <2>2, <1>7 DEF StepsSound
    <2>4. TakenSound(e, {}, J)
      BY <2>1 DEF TakenSound, Never
    <2>5. AllItems(SubSeq(e, 1, 0)) = {}
      <3>1. SubSeq(e, 1, 0) = e
        BY <2>1
      <3>2. DOMAIN e = {}
        BY <2>1
      <3>3. AllItems(e) = {}
        BY <3>2 DEF AllItems
      <3>. QED BY <3>1, <3>3
    <2>6. StateSound(r, t.messages, J)
      BY <2>1, <2>5, <1>8, <1>10 DEF StateSound, SoundIn, Covered
    <2>. QED BY <2>1, <2>3, <2>4, <2>6, <1>10 DEF RunSound
  <1>15. RunInv'
    <2>1. Whole("calling", r, n) = <<>>
      BY <1>10 DEF Whole
    <2>2. TailSound(r.messages, "calling", n, t.checkpoint)
      BY <1>10 DEF TailSound
    <2>. QED BY <2>1, <2>2, <1>2, <1>5, <1>10, <1>14, ConstantsAssumption DEF RunInv
  <1>. QED BY <1>2, <1>9, <1>12, <1>13, <1>15 DEF IInv
-----------------------------------------------------------------------------
(* The end of a turn *)

LEMMA NoRunIs == NoRun \in Runs
  <1>1. PICK q, e : q = None /\ e = <<>>
    OBVIOUS
  <1>2. q \in States /\ e \in Seq(Entries) /\ 0 \in 0 .. MaxCalls /\ 0 \in 0 .. MaxCycles
    BY <1>1, WrittenTypes, ConstantsAssumption DEF States
  <1>3. NoRun = [messages |-> e, calls |-> 0, cycles |-> 0, state |-> q, boundary |-> 0]
    BY <1>1 DEF NoRun
  <1>. QED BY <1>2, <1>3 DEF Runs

\* The turn is left: the session becomes s, the file f.
Left(s, f) ==
    /\ stage # "idle" /\ Leave
    /\ session' = s /\ file' = f
    /\ stops' \in 0 .. MaxStops /\ crashes' = crashes
    /\ UNCHANGED <<made, shown, taken, joined>>
    /\ kept \subseteq kept'
    /\ kept' \subseteq kept \cup (IF stage \in Running THEN taken ELSE {})

\* What becomes of the inputs when a turn is left.
LEMMA LeftInputs ==
    ASSUME IInv, stage # "idle"
    PROVE  /\ waiting \cup followups \subseteq Outside /\ kept \cap Outside = {}
           /\ waiting \cup followups \subseteq Inputs
           /\ stage \in Running =>
                  /\ taken \subseteq Outside /\ taken \cap (waiting \cup followups) = {}
  BY DEF IInv, PlaceInv, TypeInv, Outside

LEMMA LeftSound ==
    ASSUME IInv, NEW s, NEW f, Left(s, f),
           SoundIn(s, made, excused', joined, shown, kept' \ joined, waiting \cup followups),
           SoundIn(f, made, excused', joined, shown, kept' \ joined, waiting \cup followups)
    PROVE  IInv'
  <1>1. /\ stage # "idle" /\ stage' = "idle" /\ input' = None /\ run' = NoRun
        /\ waiting' = waiting \cup followups /\ followups' = {}
        /\ session' = s /\ file' = f
        /\ stops' \in 0 .. MaxStops /\ crashes' = crashes
        /\ UNCHANGED <<made, shown, taken, joined>>
        /\ kept' \subseteq kept \cup (IF stage \in Running THEN taken ELSE {})
    BY DEF Left, Leave
  <1>2. stage' \notin Running
    BY <1>1 DEF Running
  <1>3. Outside' = waiting \cup followups
    BY <1>1, <1>2 DEF Outside
  <1>4. Sound(session)' /\ Sound(file)'
    BY <1>1, <1>3 DEF Sound
  <1>5. kept' \cap (waiting \cup followups) = {}
    BY <1>1, LeftInputs
  <1>6. PlaceInv'
    BY <1>1, <1>2, <1>3, <1>5 DEF PlaceInv
  <1>7. NoRun \in Runs
    BY NoRunIs
  <1>8. TypeInv'
    BY <1>1, <1>7 DEF IInv, TypeInv
  <1>. QED BY <1>1, <1>2, <1>4, <1>6, <1>8 DEF IInv, RunInv

\* A turn that ended has said something last.
LEMMA EndedFacts ==
    ASSUME IInv, stage = "ended",
           NEW t, t \in Sessions, t.messages = session.messages \o run.messages,
           t.provider = StateAfter(run),
           NEW Y, excused \subseteq Y,
           t.checkpoint # None =>
               /\ t.checkpoint = session.checkpoint
               /\ Last(run.messages).role = "notice" => t.checkpoint.id \in Y
    PROVE  /\ SoundIn(t, made, Y, joined, shown, (kept \cup taken) \ joined,
                      waiting \cup followups)
           /\ SoundIn(t, made, Y, joined, shown, kept \ joined, waiting \cup followups)
  <1>1. stage \in Running /\ stage # "idle" /\ stage # "tools"
    BY DEF Running
  <1>2. PICK s, n, X, J, sh, K, O, w, P, Q :
            /\ s = session /\ n = made /\ X = excused /\ J = joined /\ sh = shown
            /\ K = kept \ joined /\ O = Outside /\ w = run.messages
            /\ P = (kept \cup taken) \ joined /\ Q = waiting \cup followups
    OBVIOUS
  <1>3. /\ SoundIn(s, n, X, J, sh, K, O) /\ n \in Nat /\ w \in Seq(Entries)
        /\ RunSound(run, w, s, n, X, J, sh, taken) /\ run \in Runs
        /\ TailSound(w, "ended", n, s.checkpoint)
    BY <1>1, <1>2, RunFacts
  <1>4. /\ w # <<>>
        /\ \/ Last(w).role = "notice"
           \/ s.checkpoint # None /\ Ends(w, s.checkpoint) /\ Last(w).role = "assistant"
    BY <1>3 DEF TailSound, Ends, Reply
  <1>5. t.provider # None =>
            AllItems(s.messages) \cup AllItems(w) \subseteq t.provider \cup Merged(J)
    BY <1>2, <1>3, StateAfterIs DEF RunSound
  <1>6. Ended(s, w, t, J, Y)
    BY <1>2, <1>3, <1>4, <1>5 DEF Ended
  <1>7. StepsSound(w, s, n, X, sh) /\ TakenSound(w, taken, J)
    BY <1>2, <1>3 DEF RunSound
  <1>8. kept \subseteq Inputs /\ taken \subseteq Inputs
    BY DEF IInv, TypeInv
  <1>9. Moved(w, K, O, P, Q)
    BY <1>1, <1>2, <1>7, <1>8, LeftInputs DEF Moved, TakenSound
  <1>10. SoundIn(t, n, Y, J, sh, P, Q)
    BY <1>2, <1>3, <1>6, <1>7, <1>9, EndedSound
  <1>11. SoundIn(t, n, Y, J, sh, K, Q)
    <2>1. K \subseteq P /\ n <= n
      BY <1>2, <1>3
    <2>. QED BY <2>1, <1>3, <1>10, Weaker
  <1>. QED BY <1>2, <1>10, <1>11

LEMMA FinishedIs ==
    ASSUME IInv, stage = "ended", NEW b \in BOOLEAN, NEW c \in {None} \cup Checkpoints
    PROVE  /\ Finished \in Sessions /\ Finished.messages = session.messages \o run.messages
           /\ Finished.provider = StateAfter(run) /\ Finished.checkpoint = None
           /\ LET t == [Finished EXCEPT !.pending = b, !.checkpoint = c]
              IN /\ t \in Sessions /\ t.messages = session.messages \o run.messages
                 /\ t.provider = StateAfter(run) /\ t.checkpoint = c
  <1>1. stage \in Running
    BY DEF Running
  <1>2. PICK u, q : u = session.messages \o run.messages /\ q = StateAfter(run)
    OBVIOUS
  <1>3. session.messages \in Seq(Entries) /\ run.messages \in Seq(Entries) /\ run \in Runs
    BY <1>1, RunFacts, SessionFields
  <1>4. u \in Seq(Entries)
    BY <1>2, <1>3, ConcatIs
  <1>5. q \in States
    BY <1>1, <1>2, RunFacts, StateAfterIs DEF RunSound
  <1>6. PICK f : f = [messages |-> u, pending |-> FALSE, checkpoint |-> None, provider |-> q]
    OBVIOUS
  <1>7. Finished = f
    BY <1>2, <1>6 DEF Finished
  <1>8. f \in Sessions /\ f.messages = u /\ f.provider = q /\ f.checkpoint = None
    BY <1>4, <1>5, <1>6 DEF Sessions
  <1>9. PICK t : t = [f EXCEPT !.pending = b, !.checkpoint = c]
    OBVIOUS
  <1>10. t \in Sessions /\ t.messages = u /\ t.provider = q /\ t.checkpoint = c
    BY <1>8, <1>9 DEF Sessions
  <1>. QED BY <1>2, <1>7, <1>8, <1>9, <1>10

LEMMA PersistSound ==
    ASSUME IInv, Persist
    PROVE  IInv'
  <1>1. PICK t : t = Finished
    OBVIOUS
  <1>2. /\ stage = "ended" /\ Leave /\ session' = t /\ file' = t /\ kept' = kept \cup taken
        /\ UNCHANGED <<made, stops, crashes, shown, taken, joined, excused>>
    BY <1>1 DEF Persist, Save, faults
  <1>3. stage \in Running /\ stage # "idle"
    BY <1>2 DEF Running
  <1>4. /\ t \in Sessions /\ t.messages = session.messages \o run.messages
        /\ t.provider = StateAfter(run) /\ t.checkpoint = None
    <2>1. FALSE \in BOOLEAN /\ None \in {None} \cup Checkpoints
      OBVIOUS
    <2>. QED BY <2>1, <1>1, <1>2, FinishedIs
  <1>5. SoundIn(t, made, excused, joined, shown, (kept \cup taken) \ joined,
                waiting \cup followups)
    BY <1>2, <1>4, EndedFacts
  <1>6. Left(t, t)
    BY <1>2, <1>3 DEF Left, IInv, TypeInv
  <1>. QED BY <1>2, <1>5, <1>6, LeftSound

\* The file a turn leaves alone.
LEMMA FileKept ==
    ASSUME IInv, stage # "idle", NEW Y, excused \subseteq Y
    PROVE  /\ SoundIn(file, made, Y, joined, shown, kept \ joined, waiting \cup followups)
           /\ SoundIn(session, made, Y, joined, shown, kept \ joined, waiting \cup followups)
  <1>1. Sound(file) /\ Sound(session) /\ made \in Nat
    BY DEF IInv, TypeInv
  <1>2. PICK n, X, J, sh, K, O, Q :
            /\ n = made /\ X = excused /\ J = joined /\ sh = shown
            /\ K = kept \ joined /\ O = Outside /\ Q = waiting \cup followups
    OBVIOUS
  <1>3. n \in Nat /\ n <= n /\ X \subseteq Y /\ Q \subseteq O
    BY <1>1, <1>2, LeftInputs
  <1>4. SoundIn(file, n, X, J, sh, K, O) /\ SoundIn(session, n, X, J, sh, K, O)
    BY <1>1, <1>2 DEF Sound
  <1>5. SoundIn(file, n, Y, J, sh, K, Q) /\ SoundIn(session, n, Y, J, sh, K, Q)
    BY <1>3, <1>4, Weaker
  <1>. QED BY <1>2, <1>5

LEMMA PersistFailsSound ==
    ASSUME IInv, PersistFails
    PROVE  IInv'
  <1>1. PICK t : t = Finished
    OBVIOUS
  <1>2. /\ stage = "ended" /\ Leave /\ session' = t /\ file' = file
        /\ stops < MaxStops /\ stops' = stops + 1
        /\ UNCHANGED <<made, crashes, shown, taken, joined, kept, excused>>
    BY <1>1 DEF PersistFails, history
  <1>3. stage # "idle"
    BY <1>2
  <1>4. /\ t \in Sessions /\ t.messages = session.messages \o run.messages
        /\ t.provider = StateAfter(run) /\ t.checkpoint = None
    <2>1. FALSE \in BOOLEAN /\ None \in {None} \cup Checkpoints
      OBVIOUS
    <2>. QED BY <2>1, <1>1, <1>2, FinishedIs
  <1>5. SoundIn(t, made, excused, joined, shown, kept \ joined, waiting \cup followups)
    BY <1>2, <1>4, EndedFacts
  <1>6. stops' \in 0 .. MaxStops
    BY <1>2, ConstantsAssumption DEF IInv, TypeInv
  <1>7. Left(t, file)
    BY <1>2, <1>3, <1>6 DEF Left
  <1>. QED BY <1>2, <1>3, <1>5, <1>7, FileKept, LeftSound

LEMMA PersistAbortsSound ==
    ASSUME IInv, PersistAborts
    PROVE  IInv'
  <1>1. PICK t, b, c, Y :
            /\ b = session.pending /\ c = session.checkpoint
            /\ t = [Finished EXCEPT !.pending = b, !.checkpoint = c]
            /\ Y = excused'
    OBVIOUS
  <1>2. /\ stage = "ended" /\ Leave /\ session' = t /\ file' = file
        /\ stops < MaxStops /\ stops' = stops + 1
        /\ Y = IF c # None /\ run.messages # <<>> /\ Last(run.messages).role = "notice"
               THEN excused \cup {c.id} ELSE excused
        /\ UNCHANGED <<made, crashes, shown, taken, joined, kept>>
    BY <1>1 DEF PersistAborts
  <1>3. stage # "idle" /\ stage \in Running
    BY <1>2 DEF Running
  <1>4. b \in BOOLEAN /\ c \in {None} \cup Checkpoints /\ run.messages # <<>>
    BY <1>1, <1>2, <1>3, RunFacts, SessionFields DEF TailSound
  <1>5. /\ t \in Sessions /\ t.messages = session.messages \o run.messages
        /\ t.provider = StateAfter(run) /\ t.checkpoint = c
    BY <1>1, <1>2, <1>4, FinishedIs
  <1>6. excused \subseteq Y
    BY <1>2
  <1>7. t.checkpoint # None =>
            /\ t.checkpoint = session.checkpoint
            /\ Last(run.messages).role = "notice" => t.checkpoint.id \in Y
    BY <1>1, <1>2, <1>4, <1>5
  <1>8. SoundIn(t, made, Y, joined, shown, kept \ joined, waiting \cup followups)
    BY <1>2, <1>5, <1>6, <1>7, EndedFacts
  <1>9. stops' \in 0 .. MaxStops
    BY <1>2, ConstantsAssumption DEF IInv, TypeInv
  <1>10. Left(t, file)
    BY <1>2, <1>3, <1>9 DEF Left
  <1>11. SoundIn(file, made, Y, joined, shown, kept \ joined, waiting \cup followups)
    BY <1>3, <1>6, FileKept
  <1>. QED BY <1>1, <1>2, <1>8, <1>10, <1>11, LeftSound

LEMMA StopSound ==
    ASSUME IInv, Stop
    PROVE  IInv'
  <1>1. PICK s, f : /\ s = (IF session.checkpoint = None THEN session ELSE Materialize(session))
                    /\ f = (IF session.checkpoint = None THEN file ELSE Materialize(session))
    OBVIOUS
  <1>2. /\ stage # "idle" /\ Leave /\ session' = s /\ file' = f
        /\ stops < MaxStops /\ stops' = stops + 1
        /\ UNCHANGED <<made, crashes, shown, taken, joined, kept, excused>>
    BY <1>1 DEF Stop, Save, history
  <1>3. /\ SoundIn(file, made, excused, joined, shown, kept \ joined, waiting \cup followups)
        /\ SoundIn(session, made, excused, joined, shown, kept \ joined, waiting \cup followups)
    BY <1>2, FileKept
  <1>4. SoundIn(Materialize(session), made, excused, joined, shown, kept \ joined,
                waiting \cup followups)
    BY <1>3, MaterializeSound DEF IInv, TypeInv
  <1>5. stops' \in 0 .. MaxStops
    BY <1>2, ConstantsAssumption DEF IInv, TypeInv
  <1>6. Left(s, f)
    BY <1>2, <1>5 DEF Left
  <1>7. /\ SoundIn(s, made, excused', joined, shown, kept' \ joined, waiting \cup followups)
        /\ SoundIn(f, made, excused', joined, shown, kept' \ joined, waiting \cup followups)
    BY <1>1, <1>2, <1>3, <1>4
  <1>. QED BY <1>6, <1>7, LeftSound

LEMMA FailSound ==
    ASSUME IInv, Fail
    PROVE  IInv'
  <1>1. PICK s, f : s = session /\ f = file
    OBVIOUS
  <1>2. /\ stage # "idle" /\ Leave /\ session' = s /\ file' = f
        /\ stops < MaxStops /\ stops' = stops + 1
        /\ UNCHANGED <<made, crashes, shown, taken, joined, kept, excused>>
    BY <1>1 DEF Fail, history
  <1>3. /\ SoundIn(f, made, excused, joined, shown, kept \ joined, waiting \cup followups)
        /\ SoundIn(s, made, excused, joined, shown, kept \ joined, waiting \cup followups)
    BY <1>1, <1>2, FileKept
  <1>4. stops' \in 0 .. MaxStops
    BY <1>2, ConstantsAssumption DEF IInv, TypeInv
  <1>5. Left(s, f)
    BY <1>2, <1>4 DEF Left
  <1>6. /\ SoundIn(s, made, excused', joined, shown, kept' \ joined, waiting \cup followups)
        /\ SoundIn(f, made, excused', joined, shown, kept' \ joined, waiting \cup followups)
    BY <1>2, <1>3
  <1>. QED BY <1>5, <1>6, LeftSound

LEMMA CrashSound ==
    ASSUME IInv, Crash
    PROVE  IInv'
  <1>1. /\ crashes < MaxCrashes /\ crashes' = crashes + 1 /\ session' = None
        /\ stage' = "idle" /\ input' = None /\ run' = NoRun /\ followups' = {}
        /\ UNCHANGED <<file, waiting, made, stops, shown, taken, joined, kept, excused>>
    BY DEF Crash, history
  <1>2. stage' \notin Running
    BY <1>1 DEF Running
  <1>3. Outside' = waiting /\ waiting \subseteq Outside
    BY <1>1, <1>2 DEF Outside
  <1>4. Sound(file)'
    <2>1. PICK f, n, X, J, sh, K, O, Q :
              /\ f = file /\ n = made /\ X = excused /\ J = joined /\ sh = shown
              /\ K = kept \ joined /\ O = Outside /\ Q = waiting
      OBVIOUS
    <2>2. SoundIn(f, n, X, J, sh, K, O) /\ n \in Nat /\ n <= n /\ Q \subseteq O
      BY <2>1, <1>3 DEF IInv, Sound, TypeInv
    <2>3. SoundIn(f, n, X, J, sh, K, Q)
      BY <2>2, Weaker
    <2>. QED BY <2>1, <2>3, <1>1, <1>3 DEF Sound
  <1>5. NoRun \in Runs
    BY NoRunIs
  <1>6. TypeInv'
    BY <1>1, <1>5, ConstantsAssumption DEF IInv, TypeInv
  <1>7. PlaceInv'
    BY <1>1, <1>2, <1>3 DEF IInv, PlaceInv
  <1>. QED BY <1>1, <1>2, <1>4, <1>6, <1>7 DEF IInv, RunInv
-----------------------------------------------------------------------------
(* The invariant *)

LEMMA InitIInv ==
    ASSUME Init
    PROVE  IInv
  <1>1. stage \notin Running /\ stage # "restored"
    BY DEF Init, Running
  <1>2. PICK e, q : e = <<>> /\ q = None
    OBVIOUS
  <1>3. e \in Seq(Entries) /\ Len(e) = 0 /\ q \in States
    BY <1>2 DEF States
  <1>4. file = [messages |-> e, pending |-> FALSE, checkpoint |-> q, provider |-> q]
    BY <1>2 DEF Init, EmptySession
  <1>5. /\ file \in Sessions /\ file.messages = e /\ file.checkpoint = None
        /\ file.provider = None
    BY <1>2, <1>3, <1>4 DEF Sessions
  <1>6. Paired(e) /\ Single(e, {}) /\ Ids(e) = {} /\ ~Asks(e)
    BY <1>2, <1>3 DEF Paired, Single, Ids, Asks
  <1>7. /\ made = 0 /\ excused = {} /\ joined = {} /\ shown = <<>> /\ kept = {}
        /\ Outside = Inputs
    BY <1>1 DEF Init, Outside
  <1>8. \A i : Never(e, i)
    BY <1>3 DEF Never
  <1>9. Sound(file)
    BY <1>5, <1>6, <1>7, <1>8
    DEF Sound, SoundIn, Legal, Numbered, Covered, Marked, Remembers, Holds
  <1>10. TypeInv
    <2>1. shown \in Seq(Nat \ {0})
      BY <1>7
    <2>. QED BY <2>1, NoRunIs, ConstantsAssumption DEF Init, TypeInv
  <1>11. PlaceInv
    BY <1>1, <1>7 DEF Init, PlaceInv
  <1>. QED BY <1>1, <1>9, <1>10, <1>11 DEF Init, IInv, RunInv

LEMMA IdleIInv ==
    ASSUME IInv, UNCHANGED vars
    PROVE  IInv'
  <1>1. UNCHANGED <<file, session, stage, input, run, followups, waiting, made,
                    stops, crashes, shown, taken, joined, kept, excused>>
    BY DEF vars
  <1>2. Outside' = Outside
    BY <1>1 DEF Outside
  <1>3. Sound(file)' /\ (session # None => Sound(session))'
    BY <1>1, <1>2 DEF IInv, Sound
  <1>. QED BY <1>1, <1>2, <1>3 DEF IInv, TypeInv, PlaceInv, RunInv

LEMMA NextIInv ==
    ASSUME IInv, [Next]_vars
    PROVE  IInv'
  <1>1. CASE \E i \in Inputs : Restore(i) \/ FollowUp(i)
    BY <1>1, RestoreSound, FollowUpSound
  <1>2. CASE Command \/ Build
    BY <1>2, CommandStepSound, BuildStepSound
  <1>3. CASE \E b \in BOOLEAN : CallTools(b) \/ FinalAnswer(b) \/ NoAnswer(b)
    BY <1>3, CallToolsSound, FinalAnswerSound, NoAnswerSound
  <1>4. CASE ToolsDone \/ ToolsFail \/ AfterError \/ Exhausted
    BY <1>4, ToolsDoneSound, ToolsFailSound, AfterErrorSound, ExhaustedSound
  <1>5. CASE Persist \/ PersistFails \/ PersistAborts
    BY <1>5, PersistSound, PersistFailsSound, PersistAbortsSound
  <1>6. CASE Stop \/ Fail \/ Crash
    BY <1>6, StopSound, FailSound, CrashSound
  <1>7. CASE Quiescent \/ UNCHANGED vars
    BY <1>7, IdleIInv DEF Quiescent
  <1>. QED BY <1>1, <1>2, <1>3, <1>4, <1>5, <1>6, <1>7 DEF Next

\* Every session, in the file and in memory, is sound in every state.
THEOREM Invariant == Spec => []IInv
  <1>1. Init => IInv
    BY InitIInv
  <1>2. IInv /\ [Next]_vars => IInv'
    BY NextIInv
  <1>. QED BY <1>1, <1>2, PTL DEF Spec
-----------------------------------------------------------------------------
(* What follows *)

LEMMA LegalIs ==
    ASSUME IInv
    PROVE  TranscriptLegal
  <1>. SUFFICES ASSUME session # None, NEW k \in DOMAIN session.messages
       PROVE  LET s == session.messages
              IN /\ s[k].role = "call" =>
                        k < Len(s) /\ s[k + 1].role = "tool" /\ s[k + 1].id = s[k].id
                 /\ s[k].role = "tool" =>
                        k > 1 /\ s[k - 1].role = "call" /\ s[k - 1].id = s[k].id
                 /\ \A j \in Steps(s) :
                        /\ k \in Steps(s) /\ s[k].id \notin excused
                        /\ s[j].id = s[k].id /\ s[j].role = s[k].role
                        => j = k
    BY DEF TranscriptLegal
  <1>1. PICK m : m = session.messages
    OBVIOUS
  <1>2. m \in Seq(Entries) /\ Paired(m) /\ Single(m, excused)
    BY <1>1, SessionFields DEF IInv, Sound, SoundIn, Legal
  <1>3. DOMAIN m = 1 .. Len(m) /\ k \in 1 .. Len(m)
    BY <1>1, <1>2
  <1>4. PairedAt(m, k)
    BY <1>2, <1>3 DEF Paired
  <1>5. ASSUME NEW j \in Steps(m), k \in Steps(m), m[k].id \notin excused,
               m[j].id = m[k].id, m[j].role = m[k].role
        PROVE  j = k
    <2>1. j \in 1 .. Len(m) /\ m[j].id \in Ids(m) \ excused
      BY <1>3, <1>5 DEF Steps, Ids
    <2>. QED BY <2>1, <1>2, <1>3, <1>5 DEF Single
  <1>. QED BY <1>1, <1>4, <1>5 DEF PairedAt

\* What never gets into a session, and that a turn starts on a closed one.
THEOREM SessionStaysSound == Spec => []SessionSound
  <1>1. ASSUME IInv PROVE SessionSound
    <2>1. TypeOK
      <3>1. TypeInv
        BY <1>1 DEF IInv
      <3>2. stage \in Stages
        BY <3>1 DEF TypeInv, Running, Stages
      <3>3. input \in Inputs \cup {None} /\ ((stage = "idle") = (input = None))
        BY <3>1, ConstantsAssumption DEF TypeInv
      <3>4. run.calls \in 0 .. MaxCalls /\ run.cycles \in 0 .. MaxCycles
        BY <3>1, RunFields DEF TypeInv
      <3>. QED BY <3>1, <3>2, <3>3, <3>4 DEF TypeInv, TypeOK
    <2>2. TranscriptLegal
      BY <1>1, LegalIs
    <2>3. TurnClosed
      BY <1>1 DEF IInv, TurnClosed, Closed, Asks
    <2>. QED BY <2>1, <2>2, <2>3 DEF SessionSound
  <1>. QED BY <1>1, Invariant, PTL

\* An input that was written is in the file once, whatever happens after.
THEOREM InputsAreKept == Spec => []InputsKept
  <1>1. ASSUME IInv PROVE InputsKept
    <2>. SUFFICES ASSUME NEW i \in kept \ joined
         PROVE  Cardinality(Holding(file.messages, i)) = 1
      BY DEF InputsKept
    <2>1. PICK m : m = file.messages
      OBVIOUS
    <2>2. m \in Seq(Entries) /\ Once(m, i)
      BY <1>1, <2>1, SessionFields DEF IInv, Sound, SoundIn, Holds
    <2>3. PICK k \in 1 .. Len(m) : \A j \in 1 .. Len(m) : i \in m[j].has <=> j = k
      BY <2>2 DEF Once
    <2>4. DOMAIN m = 1 .. Len(m)
      BY <2>2
    <2>5. Holding(m, i) = {k}
      BY <2>3, <2>4 DEF Holding
    <2>. QED BY <2>1, <2>5, FS_Singleton
  <1>. QED BY <1>1, Invariant, PTL

\* The provider's state knows what the messages say when a turn starts.
THEOREM StateCovers == Spec => []StateCoversTranscript
  <1>1. ASSUME IInv PROVE StateCoversTranscript
    <2>. SUFFICES ASSUME stage = "restored", session.provider # None
         PROVE  AllItems(session.messages) \ {<<"input", i>> : i \in joined}
                    \subseteq session.provider
      BY DEF StateCoversTranscript
    <2>1. SoundIn(session, made, excused, joined, shown, kept \ joined, Outside)
      BY <1>1, RestoredFacts
    <2>2. AllItems(session.messages) \subseteq session.provider \cup Merged(joined)
      BY <2>1 DEF SoundIn, Covered
    <2>. QED BY <2>2 DEF Merged
  <1>. QED BY <1>1, Invariant, PTL

\* The last step that was checkpointed is in the session of the next turn.
THEOREM LastStepIsKept == Spec => []LastStepKept
  <1>1. ASSUME IInv PROVE LastStepKept
    <2>. SUFFICES ASSUME stage = "restored", shown # <<>>
         PROVE  \E k \in DOMAIN session.messages : session.messages[k].id = Last(shown)
      BY DEF LastStepKept
    <2>1. /\ SoundIn(session, made, excused, joined, shown, kept \ joined, Outside)
          /\ Closed(session) /\ session \in Sessions
      BY <1>1, RestoredFacts
    <2>2. Last(shown) \in Ids(session.messages)
      BY <2>1 DEF SoundIn, Remembers, Closed
    <2>3. DOMAIN session.messages = 1 .. Len(session.messages)
      BY <2>1, SessionFields
    <2>. QED BY <2>2, <2>3 DEF Ids
  <1>. QED BY <1>1, Invariant, PTL
=============================================================================
