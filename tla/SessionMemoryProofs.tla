------------------------ MODULE SessionMemoryProofs -------------------------
(***************************************************************************)
(* The memory of a session for every number of messages, uses of /new,     *)
(* faults, cap of the file and set of objects. As long as no object was    *)
(* overtaken, the file ends with the last message said, the batch of a job *)
(* follows its cursor, the tasks of /new hold disjoint sets of older       *)
(* messages, and the books of the history balance (Books): the inductive   *)
(* invariant. A job that loses its object, or has it trimmed, is what      *)
(* raced records; then only the types are kept.                            *)
(***************************************************************************)
EXTENDS SessionMemory, FiniteSetTheorems, SequenceTheorems, TLAPS

Sessions == [messages : Seq(Nat), cursor : Nat]

Turns == [object : Objects, stage : {"begun", "checked", "asked"}, direct : BOOLEAN]

Jobs == [kind : {"turn", "background", "idle"}, object : Objects, end : Nat,
         batch : SUBSET Nat]

\* How many messages the turn will say.
ToSay == IF turn.stage = "asked" THEN 1 ELSE 2

\* Types, also when an object was overtaken.
TypeInv ==
    /\ file \in Sessions /\ Len(file.messages) <= FileCap
    /\ heap \in [Objects -> Sessions]
    /\ cached \in Objects \cup {None}
    /\ turn # None => turn \in Turns /\ said + ToSay <= MaxSaid
    /\ job # None => /\ job \in Jobs
                     /\ job.kind = "turn" => turn # None /\ turn.stage = "begun"
    /\ said \in 0 .. MaxSaid /\ new \in 0 .. MaxNew /\ faults \in 0 .. MaxFaults
    /\ since \in Nat /\ raced \in BOOLEAN

\* A session whose messages are the last ones up to top.
EndsAt(s, top) ==
    /\ s.cursor <= Len(s.messages) /\ Len(s.messages) <= top
    /\ \A k \in 1 .. Len(s.messages) : s.messages[k] = top - Len(s.messages) + k

\* The file holds the last messages, all of them said after /new.
FileInv == EndsAt(file, said) /\ since + Len(file.messages) <= said

\* The batch of a job is what follows the cursor.
JobInv == job # None =>
    /\ job.end \in file.cursor + 1 .. Len(file.messages)
    /\ job.batch = {file.messages[k] : k \in file.cursor + 1 .. job.end}

\* What /new left are messages of before, each in one snapshot.
SnapshotInv ==
    /\ \A S \in snapshots : S \subseteq 1 .. since
    /\ \A S, T \in snapshots : S # T => S \cap T = {}

\* Of the messages 1 .. n: archived A, twice T, not archived yet U, with the
\* tasks of /new W, excused X.  Nothing is missing, nothing there twice.
Books(n, A, T, U, W, X) ==
    /\ A \subseteq 1 .. n /\ T \subseteq X
    /\ A \cap (U \cup W) \subseteq X
    /\ 1 .. n \subseteq U \cup A \cup W \cup X

HistoryInv ==
    Books(said, archived, twice, Unarchived(file), UNION snapshots, excused)

Sound == OneLiveObject /\ FileInv /\ JobInv /\ SnapshotInv /\ HistoryInv

IInv == TypeInv /\ (~raced => Sound)
-----------------------------------------------------------------------------
(* Sessions *)

LEMMA SubSeqFacts ==
    ASSUME NEW s \in Seq(Nat), NEW k \in Nat, k <= Len(s)
    PROVE  /\ SubSeq(s, k + 1, Len(s)) \in Seq(Nat)
           /\ Len(SubSeq(s, k + 1, Len(s))) = Len(s) - k
           /\ \A i \in 1 .. Len(s) - k : SubSeq(s, k + 1, Len(s))[i] = s[k + i]
           /\ Range(SubSeq(s, k + 1, Len(s))) = {s[i] : i \in k + 1 .. Len(s)}
  <1>. DEFINE m == k + 1
              n == Len(s)
              t == SubSeq(s, m, n)
  <1>0. m \in Int /\ n \in Int /\ n \in Nat /\ (\A i \in m .. n : s[i] \in Nat)
    OBVIOUS
  <1>1. /\ t \in Seq(Nat)
        /\ Len(t) = IF m <= n THEN n - m + 1 ELSE 0
        /\ \A i \in 1 .. n - m + 1 : t[i] = s[m + i - 1]
    <2>. HIDE DEF m, n
    <2>. QED BY <1>0, SubSeqProperties
  <1>. HIDE DEF t
  <1>2. Len(t) = n - k
    BY <1>0, <1>1
  <1>3. \A i \in 1 .. n - k : t[i] = s[k + i]
    BY <1>0, <1>1
  <1>4. Range(t) = {s[i] : i \in m .. n}
    <2>1. DOMAIN t = 1 .. n - k
      BY <1>1, <1>2
    <2>2. ASSUME NEW x \in Range(t) PROVE x \in {s[i] : i \in m .. n}
      <3>1. PICK i \in 1 .. n - k : x = t[i]
        BY <2>1, <2>2 DEF Range
      <3>2. k + i \in m .. n /\ x = s[k + i]
        BY <1>0, <1>3, <3>1
      <3>. QED BY <3>2
    <2>3. ASSUME NEW i \in m .. n PROVE s[i] \in Range(t)
      <3>1. i - k \in 1 .. n - k /\ k + (i - k) = i
        BY <1>0
      <3>2. t[i - k] = s[i]
        BY <1>3, <3>1
      <3>. QED BY <2>1, <3>1, <3>2 DEF Range
    <2>. QED BY <2>2, <2>3
  <1>. QED BY <1>1, <1>2, <1>3, <1>4 DEF t

\* The start of a sequence.
LEMMA PrefixFacts ==
    ASSUME NEW s \in Seq(Nat), NEW k \in Nat, k <= Len(s)
    PROVE  Range(SubSeq(s, 1, k)) = {s[i] : i \in 1 .. k}
  <1>. DEFINE t == SubSeq(s, 1, k)
  <1>0. 1 \in Int /\ k \in Int /\ (\A i \in 1 .. k : s[i] \in Nat)
    OBVIOUS
  <1>1. /\ t \in Seq(Nat)
        /\ Len(t) = IF 1 <= k THEN k - 1 + 1 ELSE 0
        /\ \A i \in 1 .. k - 1 + 1 : t[i] = s[1 + i - 1]
    BY <1>0, SubSeqProperties
  <1>. HIDE DEF t
  <1>2. DOMAIN t = 1 .. k /\ \A i \in 1 .. k : t[i] = s[i]
    BY <1>1
  <1>. QED BY <1>2 DEF Range, t

\* What is not archived yet are the numbers behind the cursor.
LEMMA UnarchivedIs ==
    ASSUME NEW s \in Sessions, NEW top \in Nat, EndsAt(s, top)
    PROVE  Unarchived(s) = top - Len(s.messages) + s.cursor + 1 .. top
  <1>1. s.messages \in Seq(Nat) /\ s.cursor \in Nat /\ s.cursor <= Len(s.messages)
        /\ Len(s.messages) \in Nat /\ Len(s.messages) <= top
    BY DEF Sessions, EndsAt
  <1>2. Unarchived(s) = {s.messages[i] : i \in s.cursor + 1 .. Len(s.messages)}
    BY <1>1, SubSeqFacts DEF Unarchived
  <1>. DEFINE n == Len(s.messages)
              c == s.cursor
  <1>3. \A i \in 1 .. n : s.messages[i] = top - n + i
    BY DEF EndsAt
  <1>. HIDE DEF n, c
  <1>4. n \in Nat /\ c \in Nat /\ c <= n /\ n <= top
    BY <1>1 DEF n, c
  <1>5. ASSUME NEW x \in top - n + c + 1 .. top PROVE x \in {s.messages[i] : i \in c + 1 .. n}
    <2>1. /\ x - top + n \in c + 1 .. n /\ x - top + n \in 1 .. n
          /\ top - n + (x - top + n) = x
      BY <1>4
    <2>. QED BY <1>3, <2>1
  <1>6. ASSUME NEW i \in c + 1 .. n PROVE s.messages[i] \in top - n + c + 1 .. top
    BY <1>3, <1>4
  <1>7. Unarchived(s) = top - n + c + 1 .. top
    BY <1>2, <1>5, <1>6 DEF n, c
  <1>. QED BY <1>7 DEF n, c

\* The cap keeps the end of a session.
LEMMA TrimmedFacts ==
    ASSUME NEW s \in Sessions
    PROVE  /\ Trimmed(s, Excess(s)) \in Sessions
           /\ Len(Trimmed(s, Excess(s)).messages) <= FileCap
           /\ Len(Trimmed(s, Excess(s)).messages) <= Len(s.messages)
           /\ Excess(s) = 0 => Trimmed(s, Excess(s)) = s
           /\ Len(s.messages) <= FileCap => Trimmed(s, Excess(s)) = s /\ Excess(s) = 0
           /\ \A top \in Nat : EndsAt(s, top) => EndsAt(Trimmed(s, Excess(s)), top)
  <1>. DEFINE n == Len(s.messages)
              k == Excess(s)
              t == Trimmed(s, k)
  <1>0. s.messages \in Seq(Nat) /\ s.cursor \in Nat /\ n \in Nat /\ FileCap \in Nat
    BY ConstantsAssumption DEF Sessions, ConstantsAssumption
  <1>1. k \in Nat /\ k <= n /\ n - k <= FileCap /\ (n <= FileCap => k = 0)
    BY <1>0 DEF Excess
  <1>. HIDE DEF k
  <1>2. /\ SubSeq(s.messages, k + 1, n) \in Seq(Nat)
        /\ Len(SubSeq(s.messages, k + 1, n)) = n - k
        /\ \A i \in 1 .. n - k : SubSeq(s.messages, k + 1, n)[i] = s.messages[k + i]
    BY <1>0, <1>1, SubSeqFacts
  <1>. DEFINE c == IF s.cursor > k THEN s.cursor - k ELSE 0
  <1>3. c \in Nat /\ (s.cursor <= n => c <= n - k) /\ (k = 0 => c = s.cursor)
    <2>. HIDE DEF n
    <2>1. CASE s.cursor > k
      BY <1>0, <1>1, <2>1
    <2>2. CASE ~(s.cursor > k)
      BY <1>0, <1>1, <2>2
    <2>. QED BY <2>1, <2>2
  <1>4. t.messages = SubSeq(s.messages, k + 1, n) /\ t.cursor = c /\ t \in Sessions
    BY <1>2, <1>3 DEF Trimmed, Sessions
  <1>5. k = 0 => t = s
    <2>. SUFFICES ASSUME k = 0 PROVE t = s
      OBVIOUS
    <2>1. SubSeq(s.messages, 1, n) = s.messages
      BY <1>0, SubSeqFull
    <2>2. t = [messages |-> s.messages, cursor |-> s.cursor]
      BY <1>3, <2>1 DEF Trimmed
    <2>. QED BY <2>2 DEF Sessions
  <1>. HIDE DEF t, c
  <1>6. ASSUME NEW top \in Nat, EndsAt(s, top) PROVE EndsAt(t, top)
    <2>1. Len(t.messages) = n - k /\ t.cursor <= n - k /\ n - k <= top /\ n <= top
      BY <1>0, <1>1, <1>2, <1>3, <1>4, <1>6 DEF EndsAt
    <2>2. ASSUME NEW i \in 1 .. n - k PROVE t.messages[i] = top - (n - k) + i
      <3>1. k + i \in 1 .. n /\ t.messages[i] = s.messages[k + i]
        BY <1>0, <1>1, <1>2, <1>4
      <3>2. s.messages[k + i] = top - n + (k + i)
        BY <1>6, <3>1 DEF EndsAt
      <3>. QED BY <1>0, <1>1, <3>1, <3>2
    <2>. QED BY <2>1, <2>2 DEF EndsAt
  <1>7. Len(t.messages) <= FileCap /\ Len(t.messages) <= n
    BY <1>0, <1>1, <1>2, <1>4
  <1>. QED BY <1>1, <1>4, <1>5, <1>6, <1>7 DEF t, k

\* What the cap drops, by number.
LEMMA DroppedIs ==
    ASSUME NEW s \in Sessions, NEW top \in Nat, EndsAt(s, top)
    PROVE  /\ Dropped(s) \subseteq Unarchived(s)
           /\ Unarchived(s) \ Dropped(s) = Unarchived(Trimmed(s, Excess(s)))
           /\ Len(s.messages) <= FileCap => Dropped(s) = {}
  <1>. DEFINE n == Len(s.messages)
              k == Excess(s)
              c == s.cursor
              t == Trimmed(s, k)
  <1>0. s.messages \in Seq(Nat) /\ c \in Nat /\ n \in Nat /\ FileCap \in Nat /\ c <= n /\ n <= top
    BY ConstantsAssumption DEF Sessions, ConstantsAssumption, EndsAt
  <1>1. k \in Nat /\ k <= n /\ (n <= FileCap => k = 0)
    BY <1>0 DEF Excess
  <1>2. Unarchived(s) = top - n + c + 1 .. top
    BY UnarchivedIs
  <1>3. t \in Sessions /\ EndsAt(t, top)
    BY TrimmedFacts
  <1>4. Unarchived(t) = top - Len(t.messages) + t.cursor + 1 .. top
    BY <1>3, UnarchivedIs
  <1>5. Len(t.messages) = n - k /\ t.cursor = IF c > k THEN c - k ELSE 0
    <2>. HIDE DEF k
    <2>. QED BY <1>0, <1>1, SubSeqFacts DEF Trimmed
  <1>6. Dropped(s) = Unarchived(s) \cap {s.messages[i] : i \in 1 .. k}
    BY <1>0, <1>1, PrefixFacts DEF Dropped
  <1>7. {s.messages[i] : i \in 1 .. k} = top - n + 1 .. top - n + k
    <2>1. \A i \in 1 .. n : s.messages[i] = top - n + i
      BY DEF EndsAt
    <2>. HIDE DEF n, k
    <2>2. ASSUME NEW x \in top - n + 1 .. top - n + k PROVE x \in {s.messages[i] : i \in 1 .. k}
      <3>1. /\ x - top + n \in 1 .. k /\ x - top + n \in 1 .. n
            /\ top - n + (x - top + n) = x
        BY <1>0, <1>1
      <3>. QED BY <2>1, <3>1
    <2>3. ASSUME NEW i \in 1 .. k PROVE s.messages[i] \in top - n + 1 .. top - n + k
      <3>1. i \in 1 .. n
        BY <1>0, <1>1
      <3>2. s.messages[i] = top - n + i
        BY <2>1, <3>1
      <3>. QED BY <1>0, <1>1, <3>2
    <2>. QED BY <2>2, <2>3
  <1>. HIDE DEF n, k, c, t
  <1>8. Dropped(s) = top - n + c + 1 .. top - n + k
    BY <1>0, <1>1, <1>2, <1>6, <1>7
  <1>9. PICK l \in Nat : l = Len(t.messages) /\ l = n - k
    BY <1>0, <1>1, <1>5
  <1>10. Unarchived(s) \ Dropped(s) = Unarchived(t)
    <2>1. PICK d \in Nat : d = t.cursor
      BY <1>3 DEF Sessions
    <2>2. Unarchived(t) = top - l + d + 1 .. top
      BY <1>4, <1>9, <2>1
    <2>3. CASE c > k
      <3>1. top - l + d + 1 = top - n + c + 1
        BY <1>0, <1>1, <1>5, <1>9, <2>1, <2>3
      <3>2. Dropped(s) = {}
        BY <1>0, <1>1, <1>8, <2>3
      <3>. QED BY <1>2, <2>2, <3>1, <3>2
    <2>4. CASE ~(c > k)
      <3>1. top - l + d + 1 = top - n + k + 1
        BY <1>0, <1>1, <1>5, <1>9, <2>1, <2>4
      <3>2. PICK a \in Nat : a = top - n
        BY <1>0
      <3>3. (a + c + 1 .. top) \ (a + c + 1 .. a + k) = a + k + 1 .. top
        BY <1>0, <1>1, <2>4, <3>2
      <3>. QED BY <1>2, <1>8, <2>2, <3>1, <3>2, <3>3
    <2>. QED BY <2>3, <2>4
  <1>11. n <= FileCap => Dropped(s) = {}
    BY <1>0, <1>1, <1>8
  <1>. QED BY <1>6, <1>10, <1>11 DEF n, k, t

LEMMA OneMore ==
    ASSUME NEW s \in Sessions, NEW t \in Sessions, NEW top \in Nat, NEW u \in Nat,
           u = top + 1, EndsAt(s, top), t.cursor = s.cursor,
           Len(t.messages) = Len(s.messages) + 1, t.messages[Len(s.messages) + 1] = u,
           \A i \in 1 .. Len(s.messages) : t.messages[i] = s.messages[i]
    PROVE  EndsAt(t, u) /\ Unarchived(t) = Unarchived(s) \cup {u}
  <1>1. PICK n \in Nat : n = Len(s.messages)
    BY DEF Sessions
  <1>2. PICK l \in Nat : l = Len(t.messages)
    BY DEF Sessions
  <1>3. PICK c \in Nat : c = s.cursor /\ c = t.cursor
    BY DEF Sessions
  <1>4. l = n + 1 /\ c <= n /\ n <= top /\ u = top + 1
    BY <1>1, <1>2, <1>3 DEF EndsAt
  <1>5. \A i \in 1 .. n : s.messages[i] = top - n + i
    BY <1>1 DEF EndsAt
  <1>6. ASSUME NEW i \in 1 .. l PROVE t.messages[i] = u - l + i
    <2>1. CASE i = l
      <3>1. Len(s.messages) + 1 = i
        BY <1>1, <1>4, <2>1
      <3>2. t.messages[i] = u
        BY <3>1
      <3>3. u - l + i = u
        BY <1>4, <2>1
      <3>. QED BY <3>2, <3>3
    <2>2. CASE i \in 1 .. n
      <3>1. t.messages[i] = s.messages[i] /\ s.messages[i] = top - n + i
        BY <1>1, <1>5, <2>2
      <3>. QED BY <1>4, <2>2, <3>1
    <2>3. i = l \/ i \in 1 .. n
      BY <1>4
    <2>. QED BY <2>1, <2>2, <2>3
  <1>7. EndsAt(t, u)
    <2>1. c <= l /\ l <= u
      BY <1>4
    <2>. QED BY <1>2, <1>3, <1>6, <2>1 DEF EndsAt
  <1>8. PICK a \in Nat : a = top - n + c + 1 /\ a = u - l + c + 1 /\ a <= u
    BY <1>4
  <1>9. Unarchived(t) = a .. u
    <2>1. Unarchived(t) = u - Len(t.messages) + t.cursor + 1 .. u
      BY <1>7, UnarchivedIs
    <2>. QED BY <1>2, <1>3, <1>8, <2>1
  <1>10. Unarchived(s) = a .. top
    <2>1. Unarchived(s) = top - Len(s.messages) + s.cursor + 1 .. top
      BY UnarchivedIs
    <2>. QED BY <1>1, <1>3, <1>8, <2>1
  <1>11. a .. u = (a .. top) \cup {u}
    BY <1>4, <1>8
  <1>. QED BY <1>7, <1>9, <1>10, <1>11

\* A message more.
Said(s, top) == [s EXCEPT !.messages = Append(@, top + 1)]

LEMMA SaidFacts ==
    ASSUME NEW s \in Sessions, NEW top \in Nat
    PROVE  /\ Said(s, top) \in Sessions /\ Said(s, top).cursor = s.cursor
           /\ Len(Said(s, top).messages) = Len(s.messages) + 1
           /\ \A i \in 1 .. Len(s.messages) : Said(s, top).messages[i] = s.messages[i]
           /\ EndsAt(s, top) => /\ EndsAt(Said(s, top), top + 1)
                                /\ Unarchived(Said(s, top)) = Unarchived(s) \cup {top + 1}
  <1>. DEFINE m == Append(s.messages, top + 1)
              t == [s EXCEPT !.messages = m]
              n == Len(s.messages)
  <1>0. s.messages \in Seq(Nat) /\ s.cursor \in Nat /\ n \in Nat /\ top + 1 \in Nat
    BY DEF Sessions
  <1>1. m \in Seq(Nat) /\ Len(m) = n + 1 /\ m[n + 1] = top + 1
        /\ \A i \in 1 .. n : m[i] = s.messages[i]
    BY <1>0
  <1>. HIDE DEF m
  <1>2. t \in Sessions /\ t.messages = m /\ t.cursor = s.cursor
    BY <1>0, <1>1 DEF Sessions
  <1>. HIDE DEF t
  <1>3. ASSUME EndsAt(s, top)
        PROVE  EndsAt(t, top + 1) /\ Unarchived(t) = Unarchived(s) \cup {top + 1}
    <2>1. PICK u \in Nat : u = top + 1
      OBVIOUS
    <2>2. /\ Len(t.messages) = Len(s.messages) + 1
          /\ t.messages[Len(s.messages) + 1] = u
          /\ \A i \in 1 .. Len(s.messages) : t.messages[i] = s.messages[i]
      BY <1>1, <1>2, <2>1
    <2>3. EndsAt(t, u) /\ Unarchived(t) = Unarchived(s) \cup {u}
      BY <1>2, <1>3, <2>1, <2>2, OneMore
    <2>. QED BY <2>1, <2>3
  <1>. QED BY <1>1, <1>2, <1>3 DEF t, m, Said

\* All of it was said after the messages that are gone.
LEMMA UnarchivedWithin ==
    ASSUME NEW s \in Sessions, NEW top \in Nat, EndsAt(s, top)
    PROVE  \A x \in Unarchived(s) : x \in 1 .. top /\ x > top - Len(s.messages)
  <1>1. PICK n \in Nat : n = Len(s.messages)
    BY DEF Sessions
  <1>2. PICK c \in Nat : c = s.cursor
    BY DEF Sessions
  <1>3. n <= top
    BY <1>1 DEF EndsAt
  <1>4. Unarchived(s) = top - n + c + 1 .. top
    BY <1>1, <1>2, UnarchivedIs
  <1>5. \A x \in top - n + c + 1 .. top : x \in 1 .. top /\ x > top - n
    BY <1>3
  <1>. QED BY <1>1, <1>4, <1>5
-----------------------------------------------------------------------------
(* Objects *)

\* Of four objects one is none of three given values.
LEMMA FreeExists ==
    ASSUME NEW a, NEW b, NEW c
    PROVE  \E o \in Objects : o # a /\ o # b /\ o # c
  <1>1. IsFiniteSet(Objects) /\ Cardinality(Objects) \in Nat /\ Cardinality(Objects) >= 4
    BY ConstantsAssumption, FS_CardinalityType DEF ConstantsAssumption
  <1>. DEFINE A == {a}
              B == A \cup {b}
              C == B \cup {c}
  <1>2. IsFiniteSet(A) /\ Cardinality(A) = 1
    BY FS_Singleton
  <1>3. IsFiniteSet(B) /\ (Cardinality(B) = 1 \/ Cardinality(B) = 2)
    <2>. HIDE DEF A
    <2>. QED BY <1>2, FS_AddElement
  <1>4. IsFiniteSet(C) /\ Cardinality(C) \in Nat /\ Cardinality(C) <= 3
    <2>. HIDE DEF B
    <2>1. IsFiniteSet(C) /\ Cardinality(C) = IF c \in B THEN Cardinality(B) ELSE Cardinality(B) + 1
      BY <1>3, FS_AddElement
    <2>. QED BY <1>3, <2>1
  <1>5. ASSUME Objects \subseteq C PROVE FALSE
    <2>1. Cardinality(Objects) <= Cardinality(C)
      BY <1>4, <1>5, FS_Subset
    <2>. QED BY <1>1, <1>4, <2>1
  <1>. HIDE DEF C
  <1>6. PICK o \in Objects : o \notin C
    BY <1>5
  <1>. USE DEF C
  <1>. QED BY <1>6

\* There is always a name for a new object.
LEMMA FreeObjectIs ==
    FreeObject \in Objects
  <1>0. PICK o \in Objects : o # cached /\ o # turn.object /\ o # job.object
    BY FreeExists
  <1>1. \E p \in Objects : p # cached /\ (turn # None => p # turn.object)
                                      /\ (job # None => p # job.object)
    BY <1>0
  <1>. QED BY <1>1 DEF FreeObject

\* get_or_create: the object it hands out says what the file says.
LEMMA LoadedIs ==
    ASSUME TypeInv
    PROVE  /\ Current \in Objects /\ Loaded \in [Objects -> Sessions]
           /\ cached # None => Current = cached /\ Loaded = heap
           /\ cached = None => Loaded[Current] = file
  <1>1. heap \in [Objects -> Sessions] /\ file \in Sessions /\ cached \in Objects \cup {None}
    BY DEF TypeInv
  <1>2. Current \in Objects
    BY <1>1, FreeObjectIs DEF Current
  <1>3. /\ Loaded \in [Objects -> Sessions]
        /\ cached # None => Loaded = heap
        /\ cached = None => Loaded[Current] = file
    BY <1>1, <1>2 DEF Loaded
  <1>. QED BY <1>2, <1>3 DEF Current

\* Where there is no cached object, none is in use.
LEMMA NoneInUse ==
    ASSUME TypeInv, OneLiveObject, ~raced, cached = None
    PROVE  turn = None /\ job = None
  BY ConstantsAssumption DEF TypeInv, Turns, Jobs, OneLiveObject, ConstantsAssumption
\* A step that loads the session: the object it hands out is the live one.
LEMMA LoadStep ==
    ASSUME IInv, heap' = Loaded, cached' = Current
    PROVE  /\ heap' \in [Objects -> Sessions] /\ cached' \in Objects
           /\ ~raced => /\ heap'[cached'] = file
                        /\ turn # None => turn.object = cached'
                        /\ job # None => job.object = cached'
  <1>1. TypeInv
    BY DEF IInv
  <1>2. /\ Current \in Objects /\ Loaded \in [Objects -> Sessions]
        /\ cached # None => Current = cached /\ Loaded = heap
        /\ cached = None => Loaded[Current] = file
    BY <1>1, LoadedIs
  <1>3. ASSUME ~raced
        PROVE  /\ heap'[cached'] = file
               /\ turn # None => turn.object = cached'
               /\ job # None => job.object = cached'
    <2>1. OneLiveObject
      BY <1>3 DEF IInv, Sound
    <2>2. CASE cached = None
      BY <1>1, <1>2, <1>3, <2>1, <2>2, NoneInUse
    <2>3. CASE cached # None
      BY <1>2, <1>3, <2>1, <2>3 DEF OneLiveObject
    <2>. QED BY <2>2, <2>3
  <1>. QED BY <1>2, <1>3

\* SessionManager.save: what becomes of the file, the cache and the history.
LEMMA SaveStep ==
    ASSUME TypeInv, NEW o \in Objects, NEW s \in Sessions, NEW S, SaveWith(o, s, S)
    PROVE  /\ heap' \in [Objects -> Sessions] /\ cached' = o /\ heap'[o] = file'
           /\ file' = Trimmed(s, Excess(s)) /\ file' \in Sessions
           /\ Len(file'.messages) <= FileCap
           /\ archived' = archived \cup S \cup Dropped(s)
           /\ twice' = twice \cup ((S \cup Dropped(s)) \cap archived)
  <1>1. heap \in [Objects -> Sessions]
    BY DEF TypeInv
  <1>2. /\ heap' = [heap EXCEPT ![o] = Trimmed(s, Excess(s))]
        /\ file' = Trimmed(s, Excess(s)) /\ cached' = o
        /\ archived' = archived \cup (S \cup Dropped(s))
        /\ twice' = twice \cup ((S \cup Dropped(s)) \cap archived)
    BY DEF SaveWith, Archive
  <1>3. file' \in Sessions /\ Len(file'.messages) <= FileCap
    BY <1>2, TrimmedFacts
  <1>. QED BY <1>1, <1>2, <1>3
-----------------------------------------------------------------------------
(* One lemma for each action *)

LEMMA BeginStep ==
    ASSUME IInv, NEW d \in BOOLEAN, Begin(d)
    PROVE  IInv'
  <1>1. /\ turn = None /\ said + 2 <= MaxSaid
        /\ heap' = Loaded /\ cached' = Current
        /\ turn' = [object |-> Current, stage |-> "begun", direct |-> d]
        /\ UNCHANGED <<file, job, snapshots, archived, said, new, faults, twice,
                       since, excused, raced>>
    BY DEF Begin, history, counts
  <1>2. /\ heap' \in [Objects -> Sessions] /\ cached' \in Objects
        /\ ~raced => /\ heap'[cached'] = file
                     /\ turn # None => turn.object = cached'
                     /\ job # None => job.object = cached'
    BY <1>1, LoadStep
  <1>3. TypeInv'
    <2>1. TypeInv
      BY DEF IInv
    <2>2. turn' \in Turns /\ turn'.stage = "begun" /\ ToSay' = 2
      BY <1>1, <1>2 DEF ToSay, Turns
    <2>3. job = None \/ job.kind # "turn"
      BY <1>1, <2>1 DEF TypeInv
    <2>. QED BY <1>1, <1>2, <2>1, <2>2, <2>3 DEF TypeInv
  <1>4. ASSUME ~raced' PROVE Sound'
    <2>1. ~raced /\ Sound
      BY <1>1, <1>4 DEF IInv
    <2>2. OneLiveObject'
      BY <1>1, <1>2, <2>1 DEF OneLiveObject
    <2>. QED BY <1>1, <2>1, <2>2
             DEF Sound, FileInv, EndsAt, JobInv, SnapshotInv, HistoryInv, Unarchived
  <1>. QED BY <1>3, <1>4 DEF IInv

LEMMA CheckStep ==
    ASSUME IInv, Check
    PROVE  IInv'
  <1>1. /\ turn # None /\ turn.stage = "begun" /\ job = None
        /\ heap' = Loaded /\ cached' = Current
        /\ turn' = [turn EXCEPT !.stage = "checked"]
        /\ UNCHANGED <<file, job, snapshots, archived, said, new, faults, twice,
                       since, excused, raced>>
    BY DEF Check, history, counts
  <1>2. /\ heap' \in [Objects -> Sessions] /\ cached' \in Objects
        /\ ~raced => /\ heap'[cached'] = file
                     /\ turn # None => turn.object = cached'
                     /\ job # None => job.object = cached'
    BY <1>1, LoadStep
  <1>3. TypeInv /\ TypeInv'
    <2>1. TypeInv
      BY DEF IInv
    <2>2. turn' \in Turns /\ turn'.object = turn.object /\ ToSay' = 2 /\ ToSay = 2
      BY <1>1, <2>1 DEF TypeInv, Turns, ToSay
    <2>. QED BY <1>1, <1>2, <2>1, <2>2 DEF TypeInv
  <1>4. ASSUME ~raced' PROVE Sound'
    <2>1. ~raced /\ Sound
      BY <1>1, <1>4 DEF IInv
    <2>2. turn'.object = turn.object
      BY <1>1, <1>3 DEF TypeInv, Turns
    <2>3. OneLiveObject'
      BY <1>1, <1>2, <2>1, <2>2 DEF OneLiveObject
    <2>. QED BY <1>1, <2>1, <2>3
             DEF Sound, FileInv, EndsAt, JobInv, SnapshotInv, HistoryInv, Unarchived
  <1>. QED BY <1>3, <1>4 DEF IInv
\* A message is appended: the books of the history stay right.
LEMMA SaidBooks ==
    ASSUME NEW n \in Nat, NEW A, NEW T, NEW U, NEW W, NEW X, NEW D,
           Books(n, A, T, U, W, X), D \subseteq U \cup {n + 1},
           U \cup {n + 1} \subseteq 1 .. n + 1, (U \cup {n + 1}) \cap W = {}
    PROVE  Books(n + 1, A \cup {} \cup D, T \cup (({} \cup D) \cap A),
                 (U \cup {n + 1}) \ D, W, X)
  <1>1. n + 1 \notin A /\ \A x \in 1 .. n + 1 : x \in 1 .. n \/ x = n + 1
    BY DEF Books
  <1>2. 1 .. n \subseteq 1 .. n + 1
    OBVIOUS
  <1>3. PICK m : m = n + 1
    OBVIOUS
  <1>4. PICK N : N = 1 .. n
    OBVIOUS
  <1>5. PICK M : M = 1 .. m
    OBVIOUS
  <1>6. /\ m \notin A /\ (\A x \in M : x \in N \/ x = m) /\ N \subseteq M
        /\ Books(n, A, T, U, W, X) /\ D \subseteq U \cup {m}
        /\ U \cup {m} \subseteq M /\ (U \cup {m}) \cap W = {}
    BY <1>1, <1>2, <1>3, <1>4, <1>5
  <1>7. /\ A \subseteq N /\ T \subseteq X /\ A \cap (U \cup W) \subseteq X
        /\ N \subseteq U \cup A \cup W \cup X
    BY <1>4, <1>6 DEF Books
  <1>8. /\ A \cup {} \cup D \subseteq M
        /\ T \cup (({} \cup D) \cap A) \subseteq X
    BY <1>6, <1>7
  <1>9. (A \cup {} \cup D) \cap (((U \cup {m}) \ D) \cup W) \subseteq X
    BY <1>6, <1>7
  <1>10. M \subseteq ((U \cup {m}) \ D) \cup (A \cup {} \cup D) \cup W \cup X
    BY <1>6, <1>7
  <1>. QED BY <1>3, <1>5, <1>8, <1>9, <1>10 DEF Books

LEMMA SayStep ==
    ASSUME IInv, NEW stage \in {"checked", "asked"}, Say(stage)
    PROVE  /\ turn \in Turns /\ turn.stage = stage
           /\ heap' \in [Objects -> Sessions] /\ cached' = turn.object
           /\ file' \in Sessions /\ Len(file'.messages) <= FileCap
           /\ raced' \in BOOLEAN
           /\ ~raced' => /\ ~raced /\ heap'[cached'] = file'
                         /\ job # None => job.object = cached'
                         /\ FileInv' /\ JobInv' /\ SnapshotInv' /\ HistoryInv'
  <1>. DEFINE o == turn.object
              s == Said(heap[o], said)
              D == Dropped(s)
  <1>1. TypeInv /\ (~raced => Sound)
    BY DEF IInv
  <1>2. /\ turn # None /\ turn.stage = stage
        /\ said' = said + 1 /\ SaveWith(o, s, {})
        /\ raced' = (raced \/ Overtaken(o, s))
        /\ UNCHANGED <<job, snapshots, since, excused>>
    BY DEF Say, Said
  <1>3. turn \in Turns /\ o \in Objects /\ heap[o] \in Sessions /\ said \in Nat
    BY <1>1, <1>2 DEF TypeInv, Turns
  <1>4. s \in Sessions
    BY <1>3, SaidFacts
  <1>. HIDE DEF s, o
  <1>5. /\ heap' \in [Objects -> Sessions] /\ cached' = o /\ heap'[o] = file'
        /\ file' = Trimmed(s, Excess(s)) /\ file' \in Sessions
        /\ Len(file'.messages) <= FileCap
        /\ archived' = archived \cup {} \cup D
        /\ twice' = twice \cup (({} \cup D) \cap archived)
    BY <1>1, <1>2, <1>3, <1>4, SaveStep
  <1>6. ASSUME ~raced'
        PROVE  /\ ~raced /\ heap'[cached'] = file'
               /\ job # None => job.object = cached'
               /\ FileInv' /\ JobInv' /\ SnapshotInv' /\ HistoryInv'
    <2>1. ~raced /\ ~Overtaken(o, s)
      BY <1>2, <1>6
    <2>2. OneLiveObject /\ FileInv /\ JobInv /\ SnapshotInv /\ HistoryInv
      BY <1>1, <2>1 DEF Sound
    <2>3. cached = o /\ heap[o] = file /\ (job # None => job.object = o)
      BY <1>2, <1>3, <2>1, <2>2, ConstantsAssumption
         DEF OneLiveObject, ConstantsAssumption, o
    <2>4. s = Said(file, said) /\ file \in Sessions /\ EndsAt(file, said)
      BY <1>1, <2>2, <2>3 DEF s, TypeInv, FileInv
    <2>5. /\ s.cursor = file.cursor
          /\ Len(s.messages) = Len(file.messages) + 1
          /\ \A i \in 1 .. Len(file.messages) : s.messages[i] = file.messages[i]
          /\ EndsAt(s, said + 1)
          /\ Unarchived(s) = Unarchived(file) \cup {said + 1}
      BY <1>3, <2>4, SaidFacts
    <2>6. /\ EndsAt(file', said + 1) /\ Len(file'.messages) <= Len(s.messages)
          /\ Excess(s) = 0 => file' = s
      BY <1>3, <1>4, <1>5, <2>5, TrimmedFacts
    <2>7. FileInv'
      <3>1. since + Len(file.messages) <= said /\ since \in Nat
        BY <1>1, <2>2 DEF FileInv, TypeInv
      <3>2. Len(file.messages) \in Nat /\ Len(file'.messages) \in Nat
        BY <1>5, <2>4 DEF Sessions
      <3>3. since + Len(file'.messages) <= said + 1
        BY <1>3, <2>5, <2>6, <3>1, <3>2
      <3>4. since' = since /\ said' = said + 1
        BY <1>2
      <3>5. EndsAt(file', said')
        BY <2>6, <3>4
      <3>6. since' + Len(file'.messages) <= said'
        BY <1>3, <3>2, <3>3, <3>4
      <3>. QED BY <3>5, <3>6 DEF FileInv
    <2>8. JobInv'
      <3>. SUFFICES ASSUME job # None
                    PROVE  /\ job.end \in file'.cursor + 1 .. Len(file'.messages)
                           /\ job.batch = {file'.messages[k] : k \in file'.cursor + 1 .. job.end}
        BY <1>2 DEF JobInv
      <3>1. file' = s
        <4>1. ~(Excess(s) > 0)
          BY <2>1, <2>3 DEF Overtaken
        <4>2. Excess(s) \in Nat
          BY <1>4, ConstantsAssumption DEF Excess, Sessions, ConstantsAssumption
        <4>. QED BY <2>6, <4>1, <4>2
      <3>2. /\ job.end \in file.cursor + 1 .. Len(file.messages)
            /\ job.batch = {file.messages[k] : k \in file.cursor + 1 .. job.end}
        BY <2>2 DEF JobInv
      <3>3. file.cursor \in Nat /\ Len(file.messages) \in Nat
        BY <2>4 DEF Sessions
      <3>4. \A k \in file.cursor + 1 .. job.end : s.messages[k] = file.messages[k]
        BY <2>5, <3>2, <3>3
      <3>5. job.end \in s.cursor + 1 .. Len(s.messages)
        BY <2>5, <3>2, <3>3
      <3>. QED BY <2>5, <3>1, <3>2, <3>4, <3>5
    <2>9. SnapshotInv'
      BY <1>2, <2>2 DEF SnapshotInv
    <2>10. HistoryInv'
      <3>. DEFINE U == Unarchived(file)
                  W == UNION snapshots
      <3>1. Books(said, archived, twice, U, W, excused)
        BY <2>2 DEF HistoryInv
      <3>2. D \subseteq U \cup {said + 1} /\ Unarchived(file') = (U \cup {said + 1}) \ D
        BY <1>3, <1>4, <1>5, <2>5, DroppedIs
      <3>3. \A x \in U : x \in 1 .. said /\ x > said - Len(file.messages)
        BY <1>3, <2>4, UnarchivedWithin
      <3>4. \A x \in W : x \in 1 .. since
        BY <2>2 DEF SnapshotInv
      <3>5. since \in Nat /\ since + Len(file.messages) <= said /\ Len(file.messages) \in Nat
        BY <1>1, <2>2, <2>4 DEF FileInv, TypeInv, Sessions
      <3>. HIDE DEF U, W, D
      <3>6. U \cup {said + 1} \subseteq 1 .. said + 1
        BY <1>3, <3>3
      <3>7. (U \cup {said + 1}) \cap W = {}
        BY <1>3, <3>3, <3>4, <3>5
      <3>8. Books(said + 1, archived \cup {} \cup D, twice \cup (({} \cup D) \cap archived),
                  (U \cup {said + 1}) \ D, W, excused)
        BY <1>3, <3>1, <3>2, <3>6, <3>7, SaidBooks
      <3>9. /\ archived' = archived \cup {} \cup D /\ said' = said + 1 /\ excused' = excused
            /\ twice' = twice \cup (({} \cup D) \cap archived)
            /\ Unarchived(file') = (U \cup {said + 1}) \ D /\ (UNION snapshots)' = W
        BY <1>2, <1>5, <3>2 DEF W
      <3>. QED BY <3>8, <3>9 DEF HistoryInv
    <2>. QED BY <1>2, <1>5, <2>1, <2>3, <2>7, <2>8, <2>9, <2>10
  <1>. QED BY <1>2, <1>3, <1>5, <1>6 DEF o, TypeInv
LEMMA AskStep ==
    ASSUME IInv, Ask
    PROVE  IInv'
  <1>1. Say("checked") /\ turn' = [turn EXCEPT !.stage = "asked"]
    BY DEF Ask
  <1>2. /\ turn \in Turns /\ turn.stage = "checked"
        /\ heap' \in [Objects -> Sessions] /\ cached' = turn.object
        /\ file' \in Sessions /\ Len(file'.messages) <= FileCap
        /\ raced' \in BOOLEAN
        /\ ~raced' => /\ ~raced /\ heap'[cached'] = file'
                      /\ job # None => job.object = cached'
                      /\ FileInv' /\ JobInv' /\ SnapshotInv' /\ HistoryInv'
    BY <1>1, SayStep
  <1>3. turn # None /\ said' = said + 1 /\ UNCHANGED <<job, new, faults, since>>
    BY <1>1 DEF Say
  <1>4. turn' \in Turns /\ turn'.stage = "asked" /\ turn'.object = turn.object
    BY <1>1, <1>2 DEF Turns
  <1>5. TypeInv'
    <2>1. TypeInv
      BY DEF IInv
    <2>2. said \in Nat /\ said + 2 <= MaxSaid /\ MaxSaid \in Nat
      BY <1>2, <1>3, <2>1, ConstantsAssumption DEF TypeInv, ToSay, ConstantsAssumption
    <2>3. said' \in 0 .. MaxSaid /\ said' + ToSay' <= MaxSaid
      BY <1>3, <1>4, <2>2 DEF ToSay
    <2>4. job # None => job \in Jobs /\ job.kind # "turn"
      BY <1>2, <2>1 DEF TypeInv
    <2>5. cached' \in Objects
      BY <1>2 DEF Turns
    <2>. QED BY <1>2, <1>3, <1>4, <2>1, <2>3, <2>4, <2>5 DEF TypeInv
  <1>6. ASSUME ~raced' PROVE Sound'
    <2>1. OneLiveObject'
      BY <1>2, <1>3, <1>4, <1>6 DEF OneLiveObject
    <2>. QED BY <1>2, <1>6, <2>1 DEF Sound
  <1>. QED BY <1>5, <1>6 DEF IInv

LEMMA AnswerStep ==
    ASSUME IInv, Answer
    PROVE  IInv'
  <1>1. Say("asked") /\ turn' = None
    BY DEF Answer
  <1>2. /\ turn \in Turns /\ turn.stage = "asked"
        /\ heap' \in [Objects -> Sessions] /\ cached' = turn.object
        /\ file' \in Sessions /\ Len(file'.messages) <= FileCap
        /\ raced' \in BOOLEAN
        /\ ~raced' => /\ ~raced /\ heap'[cached'] = file'
                      /\ job # None => job.object = cached'
                      /\ FileInv' /\ JobInv' /\ SnapshotInv' /\ HistoryInv'
    BY <1>1, SayStep
  <1>3. turn # None /\ said' = said + 1 /\ UNCHANGED <<job, new, faults, since>>
    BY <1>1 DEF Say
  <1>4. TypeInv'
    <2>1. TypeInv
      BY DEF IInv
    <2>2. said \in Nat /\ said + 1 <= MaxSaid /\ MaxSaid \in Nat
      BY <1>2, <1>3, <2>1, ConstantsAssumption DEF TypeInv, ToSay, ConstantsAssumption
    <2>3. said' \in 0 .. MaxSaid
      BY <1>3, <2>2
    <2>4. job # None => job \in Jobs /\ job.kind # "turn"
      BY <1>2, <2>1 DEF TypeInv
    <2>5. cached' \in Objects
      BY <1>2 DEF Turns
    <2>. QED BY <1>1, <1>2, <1>3, <2>1, <2>3, <2>4, <2>5 DEF TypeInv
  <1>5. ASSUME ~raced' PROVE Sound'
    <2>1. OneLiveObject'
      BY <1>1, <1>2, <1>3, <1>5 DEF OneLiveObject
    <2>. QED BY <1>2, <1>5, <2>1 DEF Sound
  <1>. QED BY <1>4, <1>5 DEF IInv

\* A job knows its object, and captures the messages up to its end.
LEMMA JobFacts ==
    ASSUME NEW kind \in {"turn", "background", "idle"}, NEW o \in Objects,
           NEW s \in Sessions, NEW e \in Nat, e <= Len(s.messages)
    PROVE  /\ Job(kind, o, s, e) \in Jobs
           /\ Job(kind, o, s, e).kind = kind /\ Job(kind, o, s, e).object = o
           /\ Job(kind, o, s, e).end = e
           /\ Job(kind, o, s, e).batch = {s.messages[k] : k \in s.cursor + 1 .. e}
  <1>. DEFINE b == {s.messages[k] : k \in s.cursor + 1 .. e}
  <1>1. \A k \in s.cursor + 1 .. e : s.messages[k] \in Nat
    BY DEF Sessions
  <1>2. b \in SUBSET Nat
    BY <1>1
  <1>3. Job(kind, o, s, e) = [kind |-> kind, object |-> o, end |-> e, batch |-> b]
    BY DEF Job
  <1>. HIDE DEF b
  <1>4. /\ Job(kind, o, s, e) \in Jobs
        /\ Job(kind, o, s, e).kind = kind /\ Job(kind, o, s, e).object = o
        /\ Job(kind, o, s, e).end = e /\ Job(kind, o, s, e).batch = b
    BY <1>2, <1>3 DEF Jobs
  <1>. QED BY <1>4 DEF b

\* A step that leaves file, history and what /new left alone.
LEMMA BooksKept ==
    ASSUME FileInv, SnapshotInv, HistoryInv,
           UNCHANGED <<file, snapshots, archived, said, twice, since, excused>>
    PROVE  FileInv' /\ SnapshotInv' /\ HistoryInv'
  BY DEF FileInv, SnapshotInv, HistoryInv

\* Consolidation takes the lock with a batch of the live object.
LEMMA ConsolidateStep ==
    ASSUME IInv, NEW kind \in {"turn", "background"}, Consolidate(kind)
    PROVE  /\ job = None /\ job' \in Jobs /\ job'.kind = kind
           /\ heap' \in [Objects -> Sessions] /\ cached' \in Objects
           /\ ~raced => /\ heap'[cached'] = file /\ job'.object = cached'
                        /\ turn # None => turn.object = cached'
                        /\ JobInv'
  <1>1. /\ job = None /\ heap' = Loaded /\ cached' = Current
        /\ UNCHANGED <<file, snapshots, archived, said, new, faults, twice,
                       since, excused, raced>>
    BY DEF Consolidate, history, counts
  <1>2. PICK e \in Boundaries(heap'[Current]) : job' = Job(kind, Current, heap'[Current], e)
    BY DEF Consolidate
  <1>3. /\ heap' \in [Objects -> Sessions] /\ cached' \in Objects
        /\ ~raced => /\ heap'[cached'] = file
                     /\ turn # None => turn.object = cached'
                     /\ job # None => job.object = cached'
    BY <1>1, LoadStep
  <1>. DEFINE s == heap'[cached']
  <1>4. s \in Sessions /\ e \in s.cursor + 1 .. Len(s.messages)
    BY <1>1, <1>2, <1>3 DEF Boundaries
  <1>5. e \in Nat /\ e <= Len(s.messages)
    BY <1>4 DEF Sessions
  <1>6. job' = Job(kind, cached', s, e)
    BY <1>1, <1>2
  <1>. HIDE DEF s
  <1>7. /\ Job(kind, cached', s, e) \in Jobs
        /\ Job(kind, cached', s, e).kind = kind /\ Job(kind, cached', s, e).object = cached'
        /\ Job(kind, cached', s, e).end = e
        /\ Job(kind, cached', s, e).batch = {s.messages[k] : k \in s.cursor + 1 .. e}
    BY <1>3, <1>4, <1>5, JobFacts
  <1>8. ASSUME ~raced PROVE JobInv'
    <2>1. s = file'
      BY <1>1, <1>3, <1>8 DEF s
    <2>. QED BY <1>4, <1>6, <1>7, <2>1 DEF JobInv
  <1>. QED BY <1>1, <1>3, <1>6, <1>7, <1>8 DEF s

LEMMA ConsolidateInTurnStep ==
    ASSUME IInv, ConsolidateInTurn
    PROVE  IInv'
  <1>1. /\ turn # None /\ turn.stage = "begun" /\ turn' = turn
        /\ Consolidate("turn")
        /\ UNCHANGED <<file, snapshots, archived, said, new, faults, twice,
                       since, excused, raced>>
    BY DEF ConsolidateInTurn, Consolidate, turnVars, history, counts
  <1>2. /\ job = None /\ job' \in Jobs /\ job'.kind = "turn"
        /\ heap' \in [Objects -> Sessions] /\ cached' \in Objects
        /\ ~raced => /\ heap'[cached'] = file /\ job'.object = cached'
                     /\ turn # None => turn.object = cached'
                     /\ JobInv'
    BY <1>1, ConsolidateStep
  <1>3. TypeInv'
    <2>1. TypeInv /\ ToSay' = ToSay
      BY <1>1 DEF IInv, ToSay
    <2>. QED BY <1>1, <1>2, <2>1 DEF TypeInv
  <1>4. ASSUME ~raced' PROVE Sound'
    <2>1. ~raced /\ Sound
      BY <1>1, <1>4 DEF IInv
    <2>2. OneLiveObject'
      BY <1>1, <1>2, <2>1 DEF OneLiveObject
    <2>3. FileInv' /\ SnapshotInv' /\ HistoryInv'
      BY <1>1, <2>1, BooksKept DEF Sound
    <2>. QED BY <1>2, <2>1, <2>2, <2>3 DEF Sound
  <1>. QED BY <1>3, <1>4 DEF IInv

LEMMA ConsolidateInBackgroundStep ==
    ASSUME IInv, ConsolidateInBackground
    PROVE  IInv'
  <1>1. /\ turn' = turn /\ Consolidate("background")
        /\ UNCHANGED <<file, snapshots, archived, said, new, faults, twice,
                       since, excused, raced>>
    BY DEF ConsolidateInBackground, Consolidate, history, counts
  <1>2. /\ job = None /\ job' \in Jobs /\ job'.kind = "background"
        /\ heap' \in [Objects -> Sessions] /\ cached' \in Objects
        /\ ~raced => /\ heap'[cached'] = file /\ job'.object = cached'
                     /\ turn # None => turn.object = cached'
                     /\ JobInv'
    BY <1>1, ConsolidateStep
  <1>3. TypeInv'
    <2>1. TypeInv /\ ToSay' = ToSay
      BY <1>1 DEF IInv, ToSay
    <2>. QED BY <1>1, <1>2, <2>1 DEF TypeInv
  <1>4. ASSUME ~raced' PROVE Sound'
    <2>1. ~raced /\ Sound
      BY <1>1, <1>4 DEF IInv
    <2>2. OneLiveObject'
      BY <1>1, <1>2, <2>1 DEF OneLiveObject
    <2>3. FileInv' /\ SnapshotInv' /\ HistoryInv'
      BY <1>1, <2>1, BooksKept DEF Sound
    <2>. QED BY <1>2, <2>1, <2>2, <2>3 DEF Sound
  <1>. QED BY <1>3, <1>4 DEF IInv

LEMMA ExpireStep ==
    ASSUME IInv, Expire
    PROVE  IInv'
  <1>1. /\ heap' = Loaded /\ cached' = Current
        /\ UNCHANGED <<file, turn, job, snapshots, archived, said, new, faults, twice,
                       since, excused, raced>>
    BY DEF Expire, history, counts
  <1>2. /\ heap' \in [Objects -> Sessions] /\ cached' \in Objects
        /\ ~raced => /\ heap'[cached'] = file
                     /\ turn # None => turn.object = cached'
                     /\ job # None => job.object = cached'
    BY <1>1, LoadStep
  <1>3. TypeInv'
    <2>1. TypeInv /\ ToSay' = ToSay
      BY <1>1 DEF IInv, ToSay
    <2>. QED BY <1>1, <1>2, <2>1 DEF TypeInv
  <1>4. ASSUME ~raced' PROVE Sound'
    <2>1. ~raced /\ Sound
      BY <1>1, <1>4 DEF IInv
    <2>2. OneLiveObject'
      BY <1>1, <1>2, <2>1 DEF OneLiveObject
    <2>3. FileInv' /\ SnapshotInv' /\ HistoryInv'
      BY <1>1, <2>1, BooksKept DEF Sound
    <2>4. JobInv'
      BY <1>1, <2>1 DEF Sound, JobInv
    <2>. QED BY <2>2, <2>3, <2>4 DEF Sound
  <1>. QED BY <1>3, <1>4 DEF IInv
\* What is not archived yet is empty only where the cursor is at the end.
LEMMA NonemptyTail ==
    ASSUME NEW s \in Sessions, s.cursor <= Len(s.messages), Unarchived(s) # {}
    PROVE  Len(s.messages) \in s.cursor + 1 .. Len(s.messages)
  <1>1. s.messages \in Seq(Nat) /\ s.cursor \in Nat /\ Len(s.messages) \in Nat
    BY DEF Sessions
  <1>2. Unarchived(s) = {s.messages[i] : i \in s.cursor + 1 .. Len(s.messages)}
    BY <1>1, SubSeqFacts DEF Unarchived
  <1>3. PICK i \in s.cursor + 1 .. Len(s.messages) : TRUE
    BY <1>2
  <1>. QED BY <1>1, <1>3

LEMMA CompactStep ==
    ASSUME IInv, Compact
    PROVE  IInv'
  <1>. DEFINE o == FreeObject
              e == Len(file.messages)
              j == Job("idle", o, file, e)
  <1>1. /\ job = None
        /\ heap' = [heap EXCEPT ![o] = file] /\ cached' = o
        /\ \/ job' = job
           \/ Unarchived(file) # {} /\ job' = j
        /\ raced' = (raced \/ turn # None)
        /\ UNCHANGED <<file, turn, snapshots, archived, said, new, faults, twice,
                       since, excused>>
    BY DEF Compact, counts
  <1>2. TypeInv /\ (~raced => Sound)
    BY DEF IInv
  <1>3. o \in Objects /\ file \in Sessions /\ e \in Nat /\ e <= Len(file.messages)
    BY <1>2, FreeObjectIs DEF TypeInv, Sessions
  <1>. HIDE DEF o, e
  <1>4. /\ j \in Jobs /\ j.kind = "idle" /\ j.object = o /\ j.end = e
        /\ j.batch = {file.messages[k] : k \in file.cursor + 1 .. e}
    BY <1>3, JobFacts
  <1>. HIDE DEF j
  <1>5. heap' \in [Objects -> Sessions] /\ heap'[o] = file
    BY <1>1, <1>2, <1>3 DEF TypeInv
  <1>6. TypeInv'
    <2>1. ToSay' = ToSay /\ raced' \in BOOLEAN
      BY <1>1, <1>2 DEF ToSay, TypeInv
    <2>2. job' # None => job' \in Jobs /\ job'.kind = "idle"
      BY <1>1, <1>4
    <2>. QED BY <1>1, <1>2, <1>3, <1>5, <2>1, <2>2 DEF TypeInv
  <1>7. ASSUME ~raced' PROVE Sound'
    <2>1. ~raced /\ turn = None /\ Sound
      BY <1>1, <1>2, <1>7
    <2>2. OneLiveObject'
      BY <1>1, <1>4, <1>5, <2>1 DEF OneLiveObject
    <2>3. FileInv' /\ SnapshotInv' /\ HistoryInv'
      BY <1>1, <2>1, BooksKept DEF Sound
    <2>4. JobInv'
      <3>. SUFFICES ASSUME job' # None
                    PROVE  /\ job'.end \in file.cursor + 1 .. Len(file.messages)
                           /\ job'.batch = {file.messages[k] : k \in file.cursor + 1 .. job'.end}
        BY <1>1 DEF JobInv
      <3>1. Unarchived(file) # {} /\ job' = j
        BY <1>1
      <3>2. file.cursor <= Len(file.messages)
        BY <2>1 DEF Sound, FileInv, EndsAt
      <3>3. e \in file.cursor + 1 .. Len(file.messages)
        BY <1>3, <3>1, <3>2, NonemptyTail DEF e
      <3>. QED BY <1>4, <3>1, <3>3
    <2>. QED BY <2>2, <2>3, <2>4 DEF Sound
  <1>. QED BY <1>6, <1>7 DEF IInv

\* A batch that follows the cursor, and what is left when the cursor passed it.
Batch(s, e) == {s.messages[k] : k \in s.cursor + 1 .. e}

LEMMA AdvancedFacts ==
    ASSUME NEW s \in Sessions, NEW top \in Nat, EndsAt(s, top),
           NEW e \in s.cursor + 1 .. Len(s.messages), NEW t \in Sessions,
           t.messages = s.messages, t.cursor = e
    PROVE  /\ EndsAt(t, top) /\ Batch(s, e) \subseteq Unarchived(s)
           /\ Unarchived(t) = Unarchived(s) \ Batch(s, e)
  <1>. DEFINE B == Batch(s, e)
  <1>1. PICK n \in Nat : n = Len(s.messages)
    BY DEF Sessions
  <1>2. PICK c \in Nat : c = s.cursor
    BY DEF Sessions
  <1>3. n <= top /\ c <= n /\ e \in c + 1 .. n /\ e \in Nat
    BY <1>1, <1>2 DEF EndsAt
  <1>5. EndsAt(t, top)
    <2>1. t.messages = s.messages /\ t.cursor <= Len(s.messages)
      BY <1>1, <1>3
    <2>. QED BY <2>1 DEF EndsAt
  <1>6. \A k \in 1 .. n : s.messages[k] = top - n + k
    BY <1>1 DEF EndsAt
  <1>7. B = top - n + c + 1 .. top - n + e
    <2>1. B = {s.messages[k] : k \in c + 1 .. e}
      BY <1>2 DEF Batch
    <2>2. ASSUME NEW k \in c + 1 .. e PROVE s.messages[k] \in top - n + c + 1 .. top - n + e
      BY <1>3, <1>6
    <2>3. ASSUME NEW x \in top - n + c + 1 .. top - n + e PROVE x \in {s.messages[k] : k \in c + 1 .. e}
      <3>1. /\ x - top + n \in c + 1 .. e /\ x - top + n \in 1 .. n
            /\ top - n + (x - top + n) = x
        BY <1>3
      <3>. QED BY <1>6, <3>1
    <2>. QED BY <2>1, <2>2, <2>3
  <1>8. Unarchived(s) = top - n + c + 1 .. top
    <2>1. Unarchived(s) = top - Len(s.messages) + s.cursor + 1 .. top
      BY UnarchivedIs
    <2>. QED BY <1>1, <1>2, <2>1
  <1>9. Unarchived(t) = top - n + e + 1 .. top
    <2>1. Unarchived(t) = top - Len(t.messages) + t.cursor + 1 .. top
      BY <1>5, UnarchivedIs
    <2>. QED BY <1>1, <2>1
  <1>10. PICK a \in Nat : a = top - n
    BY <1>3
  <1>11. a + c + 1 .. a + e \subseteq a + c + 1 .. top
    BY <1>3, <1>10
  <1>12. a + e + 1 .. top = (a + c + 1 .. top) \ (a + c + 1 .. a + e)
    BY <1>3, <1>10
  <1>. HIDE DEF B
  <1>13. B \subseteq Unarchived(s) /\ Unarchived(t) = Unarchived(s) \ B
    BY <1>7, <1>8, <1>9, <1>10, <1>11, <1>12
  <1>. QED BY <1>5, <1>13 DEF B

\* A batch is archived.
LEMMA ArchivedBooks ==
    ASSUME NEW n, NEW A, NEW T, NEW U, NEW W, NEW X, NEW B,
           Books(n, A, T, U, W, X), B \subseteq U, U \subseteq 1 .. n, U \cap W = {}
    PROVE  Books(n, A \cup B \cup {}, T \cup ((B \cup {}) \cap A), U \ B, W, X)
  <1>1. PICK N : N = 1 .. n
    OBVIOUS
  <1>2. /\ A \subseteq N /\ T \subseteq X /\ A \cap (U \cup W) \subseteq X
        /\ N \subseteq U \cup A \cup W \cup X /\ U \subseteq N
    BY <1>1 DEF Books
  <1>3. /\ A \cup B \cup {} \subseteq N
        /\ T \cup ((B \cup {}) \cap A) \subseteq X
        /\ (A \cup B \cup {}) \cap ((U \ B) \cup W) \subseteq X
        /\ N \subseteq (U \ B) \cup (A \cup B \cup {}) \cup W \cup X
    BY <1>2
  <1>. QED BY <1>1, <1>3 DEF Books
LEMMA ArchivedStep ==
    ASSUME IInv, Archived
    PROVE  IInv'
  <1>. DEFINE o == job.object
              s == Advanced(heap[o])
              D == Dropped(s)
  <1>1. /\ job # None /\ SaveWith(o, s, job.batch)
        /\ \/ job' = None /\ JobDone
           \/ /\ job.kind # "idle" /\ turn' = turn
              /\ \E e \in Boundaries(file') : job' = Job(job.kind, o, file', e)
        /\ UNCHANGED <<snapshots, said, new, faults, since, excused, raced>>
    BY DEF Archived, history, counts
  <1>2. TypeInv /\ (~raced => Sound)
    BY DEF IInv
  <1>3. /\ job \in Jobs /\ o \in Objects /\ heap[o] \in Sessions /\ job.end \in Nat
        /\ job.kind \in {"turn", "background", "idle"}
    BY <1>1, <1>2 DEF TypeInv, Jobs
  <1>4. s \in Sessions
    BY <1>3 DEF Advanced, Sessions
  <1>. HIDE DEF o, s, D
  <1>5. /\ heap' \in [Objects -> Sessions] /\ cached' = o /\ heap'[o] = file'
        /\ file' = Trimmed(s, Excess(s)) /\ file' \in Sessions
        /\ Len(file'.messages) <= FileCap
        /\ archived' = archived \cup job.batch \cup D
        /\ twice' = twice \cup ((job.batch \cup D) \cap archived)
    BY <1>1, <1>2, <1>3, <1>4, SaveStep DEF D
  <1>6. job' = None \/ /\ job' \in Jobs /\ job'.kind = job.kind /\ job'.object = o
                       /\ job'.end \in file'.cursor + 1 .. Len(file'.messages)
                       /\ job'.batch = {file'.messages[k] : k \in file'.cursor + 1 .. job'.end}
                       /\ turn' = turn
    <2>. SUFFICES ASSUME job' # None
                  PROVE  /\ job' \in Jobs /\ job'.kind = job.kind /\ job'.object = o
                         /\ job'.end \in file'.cursor + 1 .. Len(file'.messages)
                         /\ job'.batch = {file'.messages[k] : k \in file'.cursor + 1 .. job'.end}
                         /\ turn' = turn
      OBVIOUS
    <2>1. turn' = turn /\ \E e \in Boundaries(file') : job' = Job(job.kind, o, file', e)
      BY <1>1
    <2>2. PICK e \in file'.cursor + 1 .. Len(file'.messages) : job' = Job(job.kind, o, file', e)
      BY <2>1 DEF Boundaries
    <2>3. e \in Nat /\ e <= Len(file'.messages)
      BY <1>5, <2>2 DEF Sessions
    <2>4. PICK f : f = file'
      OBVIOUS
    <2>5. /\ Job(job.kind, o, f, e) \in Jobs
          /\ Job(job.kind, o, f, e).kind = job.kind /\ Job(job.kind, o, f, e).object = o
          /\ Job(job.kind, o, f, e).end = e
          /\ Job(job.kind, o, f, e).batch = {f.messages[k] : k \in f.cursor + 1 .. e}
      BY <1>3, <1>5, <2>3, <2>4, JobFacts
    <2>. QED BY <2>1, <2>2, <2>4, <2>5
  <1>7. /\ turn' # None => /\ turn # None /\ turn' \in Turns /\ turn'.object = turn.object
                           /\ ToSay' = ToSay
        /\ job' # None /\ job'.kind = "turn" => turn' # None /\ turn'.stage = "begun"
    <2>1. CASE turn' = turn
      <3>1. job.kind = "turn" => turn # None /\ turn.stage = "begun"
        BY <1>1, <1>2 DEF TypeInv
      <3>2. turn # None => turn \in Turns
        BY <1>2 DEF TypeInv
      <3>. QED BY <1>6, <2>1, <3>1, <3>2 DEF ToSay
    <2>2. CASE job' = None /\ JobDone
      <3>1. turn' = IF job.kind = "turn" THEN [turn EXCEPT !.stage = "checked"] ELSE turn
        BY <2>2 DEF JobDone
      <3>2. CASE job.kind # "turn"
        BY <1>2, <2>2, <3>1, <3>2 DEF TypeInv, ToSay
      <3>3. CASE job.kind = "turn"
        <4>1. turn # None /\ turn \in Turns /\ turn.stage = "begun"
          BY <1>1, <1>2, <3>3 DEF TypeInv
        <4>2. turn' = [turn EXCEPT !.stage = "checked"]
          BY <3>1, <3>3
        <4>3. turn' \in Turns /\ turn'.stage = "checked" /\ turn'.object = turn.object
          BY <4>1, <4>2 DEF Turns
        <4>. QED BY <2>2, <4>1, <4>3 DEF ToSay
      <3>. QED BY <3>2, <3>3
    <2>. QED BY <1>1, <2>1, <2>2
  <1>8. TypeInv'
    BY <1>1, <1>2, <1>3, <1>5, <1>6, <1>7 DEF TypeInv
  <1>9. ASSUME ~raced' PROVE Sound'
    <2>1. OneLiveObject /\ FileInv /\ JobInv /\ SnapshotInv /\ HistoryInv /\ ~raced
      BY <1>1, <1>2, <1>9 DEF Sound
    <2>2. cached = o /\ heap[o] = file /\ (turn # None => turn.object = o)
      BY <1>1, <1>3, <2>1, ConstantsAssumption DEF OneLiveObject, ConstantsAssumption, o
    <2>3. /\ job.end \in file.cursor + 1 .. Len(file.messages)
          /\ job.batch = {file.messages[k] : k \in file.cursor + 1 .. job.end}
          /\ EndsAt(file, said) /\ since + Len(file.messages) <= said
          /\ file \in Sessions /\ said \in Nat /\ since \in Nat
          /\ Len(file.messages) <= FileCap
      BY <1>1, <1>2, <2>1 DEF JobInv, FileInv, TypeInv
    <2>4. s = [file EXCEPT !.cursor = job.end]
      BY <2>2 DEF s, Advanced
    <2>5. /\ EndsAt(s, said) /\ s.messages = file.messages
          /\ job.batch \subseteq Unarchived(file)
          /\ Unarchived(s) = Unarchived(file) \ job.batch
      <3>1. PICK e \in file.cursor + 1 .. Len(file.messages) : e = job.end
        BY <2>3
      <3>2. job.batch = Batch(file, e)
        BY <2>3, <3>1 DEF Batch
      <3>3. s.messages = file.messages /\ s.cursor = e
        BY <2>3, <2>4, <3>1 DEF Sessions
      <3>4. /\ EndsAt(s, said) /\ Batch(file, e) \subseteq Unarchived(file)
            /\ Unarchived(s) = Unarchived(file) \ Batch(file, e)
        BY <1>4, <2>3, <3>3, AdvancedFacts
      <3>. QED BY <3>2, <3>3, <3>4
    <2>6. file' = s
      BY <1>4, <1>5, <2>3, <2>5, TrimmedFacts
    <2>7. D = {}
      BY <1>4, <2>3, <2>5, DroppedIs DEF D
    <2>8. OneLiveObject'
      BY <1>5, <1>6, <1>7, <2>2 DEF OneLiveObject
    <2>9. FileInv'
      <3>1. EndsAt(file', said) /\ since + Len(file'.messages) <= said
        BY <2>3, <2>5, <2>6
      <3>. QED BY <1>1, <3>1 DEF FileInv
    <2>10. JobInv'
      BY <1>6 DEF JobInv
    <2>11. SnapshotInv'
      BY <1>1, <2>1 DEF SnapshotInv
    <2>12. HistoryInv'
      <3>. DEFINE U == Unarchived(file)
                  W == UNION snapshots
      <3>1. Books(said, archived, twice, U, W, excused)
        BY <2>1 DEF HistoryInv
      <3>2. \A x \in U : x \in 1 .. said /\ x > said - Len(file.messages)
        BY <2>3, UnarchivedWithin
      <3>3. \A x \in W : x \in 1 .. since
        BY <2>1 DEF SnapshotInv
      <3>4. Len(file.messages) \in Nat
        BY <2>3 DEF Sessions
      <3>. HIDE DEF U, W
      <3>5. U \subseteq 1 .. said
        BY <3>2
      <3>6. U \cap W = {}
        BY <2>3, <3>2, <3>3, <3>4
      <3>7. job.batch \subseteq U
        BY <2>5 DEF U
      <3>8. Books(said, archived \cup job.batch \cup {},
                  twice \cup ((job.batch \cup {}) \cap archived), U \ job.batch, W, excused)
        BY <3>1, <3>5, <3>6, <3>7, ArchivedBooks
      <3>9. /\ archived' = archived \cup job.batch \cup {} /\ said' = said
            /\ twice' = twice \cup ((job.batch \cup {}) \cap archived)
            /\ Unarchived(file') = U \ job.batch /\ (UNION snapshots)' = W
            /\ excused' = excused
        BY <1>1, <1>5, <2>5, <2>6, <2>7 DEF U, W
      <3>. QED BY <3>8, <3>9 DEF HistoryInv
    <2>. QED BY <2>8, <2>9, <2>10, <2>11, <2>12 DEF Sound
  <1>. QED BY <1>8, <1>9 DEF IInv

LEMMA ArchiveFailsStep ==
    ASSUME IInv, ArchiveFails
    PROVE  IInv'
  <1>1. /\ job # None /\ faults < MaxFaults /\ faults' = faults + 1 /\ job' = None
        /\ turn' = None \/ turn' = turn
        /\ UNCHANGED <<file, heap, cached, snapshots, archived, said, new, twice,
                       since, excused, raced>>
    BY DEF ArchiveFails, history
  <1>2. TypeInv'
    <2>1. TypeInv
      BY DEF IInv
    <2>2. faults' \in 0 .. MaxFaults
      BY <1>1, <2>1, ConstantsAssumption DEF TypeInv, ConstantsAssumption
    <2>3. turn' # None => turn' = turn /\ ToSay' = ToSay
      BY <1>1 DEF ToSay
    <2>. QED BY <1>1, <2>1, <2>2, <2>3 DEF TypeInv
  <1>3. ASSUME ~raced' PROVE Sound'
    <2>1. ~raced /\ Sound
      BY <1>1, <1>3 DEF IInv
    <2>2. OneLiveObject' /\ JobInv'
      BY <1>1, <2>1 DEF Sound, OneLiveObject, JobInv
    <2>3. FileInv' /\ SnapshotInv' /\ HistoryInv'
      BY <1>1, <2>1, BooksKept DEF Sound
    <2>. QED BY <2>2, <2>3 DEF Sound
  <1>. QED BY <1>2, <1>3 DEF IInv

LEMMA EvictStep ==
    ASSUME IInv, Evict
    PROVE  IInv'
  <1>1. /\ turn = None /\ job = None /\ cached' = None
        /\ UNCHANGED <<file, heap, turn, job, snapshots, archived, said, new, faults,
                       twice, since, excused, raced>>
    BY DEF Evict, Evictable, turnVars, history, counts
  <1>2. TypeInv'
    BY <1>1 DEF IInv, TypeInv
  <1>3. ASSUME ~raced' PROVE Sound'
    <2>1. ~raced /\ Sound
      BY <1>1, <1>3 DEF IInv
    <2>2. OneLiveObject' /\ JobInv'
      BY <1>1 DEF OneLiveObject, JobInv
    <2>3. FileInv' /\ SnapshotInv' /\ HistoryInv'
      BY <1>1, <2>1, BooksKept DEF Sound
    <2>. QED BY <2>2, <2>3 DEF Sound
  <1>. QED BY <1>2, <1>3 DEF IInv
\* Books when what was not archived goes to a task of /new, ...
LEMMA NewBooks ==
    ASSUME NEW n, NEW A, NEW T, NEW U, NEW W, NEW X, Books(n, A, T, U, W, X)
    PROVE  Books(n, A, T, {}, W \cup U, X)
  <1>1. PICK N : N = 1 .. n
    OBVIOUS
  <1>2. /\ A \subseteq N /\ T \subseteq X /\ A \cap (U \cup W) \subseteq X
        /\ N \subseteq U \cup A \cup W \cup X
    BY <1>1 DEF Books
  <1>3. A \cap ({} \cup (W \cup U)) \subseteq X /\ N \subseteq {} \cup A \cup (W \cup U) \cup X
    BY <1>2
  <1>. QED BY <1>1, <1>2, <1>3 DEF Books

\* ... when such a task archived S and leaves V, ...
LEMMA TaskBooks ==
    ASSUME NEW n, NEW A, NEW T, NEW U, NEW W, NEW X, NEW S, NEW V,
           Books(n, A, T, U, W, X), W = S \cup V, S \cap V = {}, S \cap U = {},
           S \subseteq 1 .. n
    PROVE  Books(n, A \cup S, T \cup (S \cap A), U, V, X)
  <1>1. PICK N : N = 1 .. n
    OBVIOUS
  <1>2. /\ A \subseteq N /\ T \subseteq X /\ A \cap (U \cup W) \subseteq X
        /\ N \subseteq U \cup A \cup W \cup X /\ S \subseteq N
    BY <1>1 DEF Books
  <1>3. /\ A \cup S \subseteq N /\ T \cup (S \cap A) \subseteq X
        /\ (A \cup S) \cap (U \cup V) \subseteq X
        /\ N \subseteq U \cup (A \cup S) \cup V \cup X
    BY <1>2
  <1>. QED BY <1>1, <1>3 DEF Books

\* ... and when a crash ends these tasks, perhaps after B was archived.
LEMMA CrashBooks ==
    ASSUME NEW n, NEW A, NEW T, NEW U, NEW W, NEW X, NEW B, NEW V,
           Books(n, A, T, U, W, X), B \subseteq 1 .. n, V = {}
    PROVE  /\ Books(n, A, T, U, V, X \cup W)
           /\ Books(n, A \cup B, T \cup (B \cap A), U, V, X \cup B \cup W)
  <1>1. PICK N : N = 1 .. n
    OBVIOUS
  <1>2. /\ A \subseteq N /\ T \subseteq X /\ A \cap (U \cup W) \subseteq X
        /\ N \subseteq U \cup A \cup W \cup X /\ B \subseteq N
    BY <1>1 DEF Books
  <1>3. /\ T \subseteq X \cup W /\ A \cap (U \cup V) \subseteq X \cup W
        /\ N \subseteq U \cup A \cup V \cup (X \cup W)
    BY <1>2
  <1>4. /\ A \cup B \subseteq N /\ T \cup (B \cap A) \subseteq X \cup B \cup W
        /\ (A \cup B) \cap (U \cup V) \subseteq X \cup B \cup W
        /\ N \subseteq U \cup (A \cup B) \cup V \cup (X \cup B \cup W)
    BY <1>2
  <1>. QED BY <1>1, <1>2, <1>3, <1>4 DEF Books

\* An empty session ends anywhere, with nothing left to archive.
LEMMA EmptyFacts ==
    /\ Empty \in Sessions /\ Len(Empty.messages) = 0 /\ Unarchived(Empty) = {}
    /\ \A top \in Nat : EndsAt(Empty, top)
  <1>1. Empty \in Sessions /\ Empty.messages = <<>> /\ Empty.cursor = 0 /\ Len(<<>>) = 0
    BY DEF Empty, Sessions
  <1>2. \A top \in Nat : EndsAt(Empty, top)
    BY <1>1 DEF EndsAt
  <1>3. Unarchived(Empty) = 0 - Len(Empty.messages) + Empty.cursor + 1 .. 0
    BY <1>1, <1>2, UnarchivedIs
  <1>4. Unarchived(Empty) = {}
    BY <1>1, <1>3
  <1>. QED BY <1>1, <1>2, <1>4

LEMMA NewStep ==
    ASSUME IInv, New
    PROVE  IInv'
  <1>. DEFINE c == Current
              S == Unarchived(Loaded[c])
  <1>1. /\ new < MaxNew /\ new' = new + 1 /\ since' = said
        /\ heap' = [Loaded EXCEPT ![c] = Empty]
        /\ snapshots' = IF S = {} THEN snapshots ELSE snapshots \cup {S}
        /\ file' = Empty /\ cached' = None /\ turn' = None
        /\ job' = IF job # None /\ job.kind = "turn" THEN None ELSE job
        /\ raced' = (raced \/ job' # None)
        /\ UNCHANGED <<archived, said, faults, twice, excused>>
    BY DEF New, SnapshotOf, EmptiedSaved
  <1>2. TypeInv /\ (~raced => Sound)
    BY DEF IInv
  <1>3. c \in Objects /\ Loaded \in [Objects -> Sessions]
        /\ (cached # None => c = cached /\ Loaded = heap)
        /\ (cached = None => Loaded[c] = file)
    BY <1>2, LoadedIs
  <1>. HIDE DEF c, S
  <1>4. TypeInv'
    <2>1. new' \in 0 .. MaxNew
      BY <1>1, <1>2, ConstantsAssumption DEF TypeInv, ConstantsAssumption
    <2>2. heap' \in [Objects -> Sessions] /\ file' \in Sessions /\ Len(file'.messages) <= FileCap
      BY <1>1, <1>3, EmptyFacts, ConstantsAssumption DEF ConstantsAssumption
    <2>3. job' # None => job' = job /\ job.kind # "turn"
      BY <1>1
    <2>4. said \in Nat /\ raced' \in BOOLEAN
      BY <1>1, <1>2 DEF TypeInv
    <2>. QED BY <1>1, <1>2, <2>1, <2>2, <2>3, <2>4 DEF TypeInv
  <1>5. ASSUME ~raced' PROVE Sound'
    <2>1. /\ ~raced /\ job' = None
          /\ OneLiveObject /\ FileInv /\ SnapshotInv /\ HistoryInv
      BY <1>1, <1>2, <1>5 DEF Sound
    <2>2. S = Unarchived(file)
      BY <1>3, <2>1 DEF OneLiveObject, S
    <2>3. OneLiveObject' /\ JobInv'
      BY <1>1, <2>1 DEF OneLiveObject, JobInv
    <2>4. /\ file \in Sessions /\ said \in Nat /\ since \in Nat /\ Len(file.messages) \in Nat
          /\ EndsAt(file, said) /\ since + Len(file.messages) <= said
      BY <1>2, <2>1 DEF TypeInv, FileInv, Sessions
    <2>5. FileInv'
      <3>1. EndsAt(file', said') /\ since' + Len(file'.messages) <= said'
        BY <1>1, <2>4, EmptyFacts
      <3>. QED BY <3>1 DEF FileInv
    <2>6. \A x \in S : x \in 1 .. said /\ x > said - Len(file.messages)
      BY <2>2, <2>4, UnarchivedWithin
    <2>7. \A R \in snapshots : R \subseteq 1 .. since
      BY <2>1 DEF SnapshotInv
    <2>8. SnapshotInv'
      <3>1. \A R \in snapshots : R \subseteq 1 .. said /\ R \cap S = {}
        <4>. SUFFICES ASSUME NEW R \in snapshots PROVE R \subseteq 1 .. said /\ R \cap S = {}
          OBVIOUS
        <4>1. \A x \in R : x \in 1 .. since
          BY <2>7
        <4>. QED BY <2>4, <2>6, <4>1
      <3>2. S \subseteq 1 .. said
        BY <2>6
      <3>3. \A R, Q \in snapshots : R # Q => R \cap Q = {}
        BY <2>1 DEF SnapshotInv
      <3>4. snapshots' \subseteq snapshots \cup {S}
        BY <1>1
      <3>5. \A R \in snapshots' : R \subseteq 1 .. said
        BY <3>1, <3>2, <3>4
      <3>6. \A R, Q \in snapshots' : R # Q => R \cap Q = {}
        BY <3>1, <3>3, <3>4
      <3>. QED BY <1>1, <3>5, <3>6 DEF SnapshotInv
    <2>9. HistoryInv'
      <3>1. Books(said, archived, twice, Unarchived(file), UNION snapshots, excused)
        BY <2>1 DEF HistoryInv
      <3>2. Books(said, archived, twice, {}, (UNION snapshots) \cup Unarchived(file), excused)
        BY <3>1, NewBooks
      <3>3. UNION snapshots' = (UNION snapshots) \cup S
        <4>1. CASE S = {}
          BY <1>1, <4>1
        <4>2. CASE S # {}
          <5>1. snapshots' = snapshots \cup {S}
            BY <1>1, <4>2
          <5>. QED BY <5>1
        <4>. QED BY <4>1, <4>2
      <3>4. Unarchived(file') = {} /\ UNCHANGED <<archived, twice, said, excused>>
        BY <1>1, EmptyFacts
      <3>. QED BY <2>2, <3>2, <3>3, <3>4 DEF HistoryInv
    <2>. QED BY <2>1, <2>3, <2>5, <2>8, <2>9 DEF Sound
  <1>. QED BY <1>4, <1>5 DEF IInv
LEMMA SnapshotArchivedStep ==
    ASSUME IInv, SnapshotArchived
    PROVE  IInv'
  <1>1. PICK S \in snapshots :
            /\ snapshots' = snapshots \ {S}
            /\ archived' = archived \cup S /\ twice' = twice \cup (S \cap archived)
            /\ UNCHANGED <<file, heap, cached, turn, job, said, new, faults,
                           since, excused, raced>>
    BY DEF SnapshotArchived, Archive, turnVars, history, counts
  <1>2. TypeInv'
    <2>1. TypeInv /\ ToSay' = ToSay
      BY <1>1 DEF IInv, ToSay
    <2>. QED BY <1>1, <2>1 DEF TypeInv
  <1>3. ASSUME ~raced' PROVE Sound'
    <2>1. /\ ~raced /\ TypeInv
          /\ OneLiveObject /\ FileInv /\ JobInv /\ SnapshotInv /\ HistoryInv
      BY <1>1, <1>3 DEF IInv, Sound
    <2>2. OneLiveObject' /\ JobInv' /\ FileInv'
      BY <1>1, <2>1 DEF OneLiveObject, JobInv, FileInv
    <2>3. /\ \A R \in snapshots : R \subseteq 1 .. since
          /\ \A R, Q \in snapshots : R # Q => R \cap Q = {}
      BY <2>1 DEF SnapshotInv
    <2>4. SnapshotInv'
      BY <1>1, <2>3 DEF SnapshotInv
    <2>5. HistoryInv'
      <3>. DEFINE U == Unarchived(file)
                  W == UNION snapshots
                  V == UNION (snapshots \ {S})
      <3>1. Books(said, archived, twice, U, W, excused)
        BY <2>1 DEF HistoryInv
      <3>2. W = S \cup V
        OBVIOUS
      <3>3. S \cap V = {}
        BY <2>3
      <3>4. /\ file \in Sessions /\ said \in Nat /\ since \in Nat /\ Len(file.messages) \in Nat
            /\ EndsAt(file, said) /\ since + Len(file.messages) <= said
        BY <2>1 DEF TypeInv, FileInv, Sessions
      <3>5. \A x \in U : x \in 1 .. said /\ x > said - Len(file.messages)
        BY <3>4, UnarchivedWithin
      <3>6. \A x \in S : x \in 1 .. since
        BY <2>3
      <3>. HIDE DEF U, W, V
      <3>7. S \cap U = {} /\ S \subseteq 1 .. said
        BY <3>4, <3>5, <3>6
      <3>8. Books(said, archived \cup S, twice \cup (S \cap archived), U, V, excused)
        BY <3>1, <3>2, <3>3, <3>7, TaskBooks
      <3>9. /\ archived' = archived \cup S /\ twice' = twice \cup (S \cap archived)
            /\ said' = said /\ excused' = excused
            /\ Unarchived(file') = U /\ (UNION snapshots)' = V
        BY <1>1 DEF U, V
      <3>. QED BY <3>8, <3>9 DEF HistoryInv
    <2>. QED BY <2>2, <2>4, <2>5 DEF Sound
  <1>. QED BY <1>2, <1>3 DEF IInv

LEMMA CrashStep ==
    ASSUME IInv, Crash
    PROVE  IInv'
  <1>. DEFINE W == UNION snapshots
  <1>1. /\ faults < MaxFaults /\ faults' = faults + 1
        /\ heap' = [o \in Objects |-> Empty]
        /\ cached' = None /\ turn' = None /\ job' = None /\ snapshots' = {}
        /\ \/ archived' = archived /\ twice' = twice /\ excused' = excused \cup W
           \/ /\ job # None
              /\ archived' = archived \cup job.batch
              /\ twice' = twice \cup (job.batch \cap archived)
              /\ excused' = excused \cup job.batch \cup W
        /\ UNCHANGED <<file, said, new, since, raced>>
    BY DEF Crash, Archive
  <1>2. TypeInv'
    <2>1. TypeInv
      BY DEF IInv
    <2>2. faults' \in 0 .. MaxFaults
      BY <1>1, <2>1, ConstantsAssumption DEF TypeInv, ConstantsAssumption
    <2>3. heap' \in [Objects -> Sessions]
      BY <1>1, EmptyFacts
    <2>. QED BY <1>1, <2>1, <2>2, <2>3 DEF TypeInv
  <1>3. ASSUME ~raced' PROVE Sound'
    <2>1. ~raced /\ TypeInv /\ FileInv /\ JobInv /\ HistoryInv
      BY <1>1, <1>3 DEF IInv, Sound
    <2>2. OneLiveObject' /\ JobInv' /\ FileInv' /\ SnapshotInv'
      BY <1>1, <2>1 DEF OneLiveObject, JobInv, FileInv, SnapshotInv
    <2>3. HistoryInv'
      <3>. DEFINE U == Unarchived(file)
      <3>1. Books(said, archived, twice, U, W, excused)
        BY <2>1 DEF HistoryInv
      <3>2. UNION snapshots' = {}
        BY <1>1
      <3>3. CASE archived' = archived /\ twice' = twice /\ excused' = excused \cup W
        <4>1. Books(said, archived, twice, U, {}, excused \cup W)
          BY <3>1, CrashBooks
        <4>. QED BY <1>1, <3>2, <3>3, <4>1 DEF HistoryInv
      <3>4. CASE /\ job # None
                 /\ archived' = archived \cup job.batch
                 /\ twice' = twice \cup (job.batch \cap archived)
                 /\ excused' = excused \cup job.batch \cup W
        <4>1. PICK e \in file.cursor + 1 .. Len(file.messages) : e = job.end
          BY <2>1, <3>4 DEF JobInv
        <4>2. job.batch = Batch(file, e)
          BY <2>1, <3>4, <4>1 DEF JobInv, Batch
        <4>3. file \in Sessions /\ said \in Nat /\ EndsAt(file, said)
          BY <2>1 DEF TypeInv, FileInv
        <4>4. PICK t \in Sessions : t.messages = file.messages /\ t.cursor = e
          <5>1. [messages |-> file.messages, cursor |-> e] \in Sessions
            BY <4>1, <4>3 DEF Sessions
          <5>. QED BY <5>1
        <4>5. Batch(file, e) \subseteq Unarchived(file)
          BY <4>1, <4>3, <4>4, AdvancedFacts
        <4>6. Unarchived(file) \subseteq 1 .. said
          BY <4>3, UnarchivedWithin
        <4>7. PICK B : B = job.batch
          OBVIOUS
        <4>8. B \subseteq 1 .. said
          BY <4>2, <4>5, <4>6, <4>7
        <4>. HIDE DEF U, W
        <4>9. Books(said, archived \cup B, twice \cup (B \cap archived), U, {},
                    excused \cup B \cup W)
          BY <3>1, <4>8, CrashBooks
        <4>10. /\ archived' = archived \cup B /\ twice' = twice \cup (B \cap archived)
               /\ excused' = excused \cup B \cup W /\ said' = said
               /\ Unarchived(file') = U
          BY <1>1, <3>4, <4>7 DEF U
        <4>. QED BY <3>2, <4>9, <4>10 DEF HistoryInv
      <3>. QED BY <1>1, <3>3, <3>4
    <2>. QED BY <2>2, <2>3 DEF Sound
  <1>. QED BY <1>2, <1>3 DEF IInv

\* A step that changes nothing.
LEMMA StutterStep ==
    ASSUME IInv, UNCHANGED vars
    PROVE  IInv'
  <1>1. UNCHANGED <<file, heap, cached, turn, job, snapshots, archived, said, new, faults,
                    since, twice, excused, raced>>
    BY DEF vars
  <1>2. TypeInv'
    <2>1. TypeInv /\ ToSay' = ToSay
      BY <1>1 DEF IInv, ToSay
    <2>. QED BY <1>1, <2>1 DEF TypeInv
  <1>3. ASSUME ~raced' PROVE Sound'
    <2>1. ~raced /\ Sound
      BY <1>1, <1>3 DEF IInv
    <2>2. OneLiveObject' /\ JobInv'
      BY <1>1, <2>1 DEF Sound, OneLiveObject, JobInv
    <2>3. FileInv' /\ SnapshotInv' /\ HistoryInv'
      BY <1>1, <2>1, BooksKept DEF Sound
    <2>. QED BY <2>2, <2>3 DEF Sound
  <1>. QED BY <1>2, <1>3 DEF IInv
-----------------------------------------------------------------------------
(* The theorems *)

LEMMA InitInv == Init => IInv
  <1>. SUFFICES ASSUME Init PROVE IInv
    OBVIOUS
  <1>1. TypeInv
    <2>1. heap \in [Objects -> Sessions] /\ file \in Sessions /\ Len(file.messages) <= FileCap
      BY EmptyFacts, ConstantsAssumption DEF Init, ConstantsAssumption
    <2>2. said \in 0 .. MaxSaid /\ new \in 0 .. MaxNew /\ faults \in 0 .. MaxFaults
      BY ConstantsAssumption DEF Init, ConstantsAssumption
    <2>. QED BY <2>1, <2>2 DEF Init, TypeInv
  <1>2. OneLiveObject /\ JobInv /\ SnapshotInv
    BY DEF Init, OneLiveObject, JobInv, SnapshotInv
  <1>3. FileInv
    BY EmptyFacts DEF Init, FileInv
  <1>4. HistoryInv
    <2>1. Books(0, {}, {}, {}, {}, {})
      BY DEF Books
    <2>2. UNION snapshots = {} /\ Unarchived(file) = {}
      BY EmptyFacts DEF Init
    <2>. QED BY <2>1, <2>2 DEF Init, HistoryInv
  <1>. QED BY <1>1, <1>2, <1>3, <1>4 DEF IInv, Sound

LEMMA NextInv == IInv /\ [Next]_vars => IInv'
  <1>. SUFFICES ASSUME IInv, [Next]_vars PROVE IInv'
    OBVIOUS
  <1>1. ASSUME NEW d \in BOOLEAN, Begin(d) PROVE IInv'
    BY <1>1, BeginStep
  <1>2. CASE Check
    BY <1>2, CheckStep
  <1>3. CASE Ask
    BY <1>3, AskStep
  <1>4. CASE Answer
    BY <1>4, AnswerStep
  <1>5. CASE ConsolidateInTurn
    BY <1>5, ConsolidateInTurnStep
  <1>6. CASE ConsolidateInBackground
    BY <1>6, ConsolidateInBackgroundStep
  <1>7. CASE Expire
    BY <1>7, ExpireStep
  <1>8. CASE Compact
    BY <1>8, CompactStep
  <1>9. CASE Archived
    BY <1>9, ArchivedStep
  <1>10. CASE ArchiveFails
    BY <1>10, ArchiveFailsStep
  <1>11. CASE New
    BY <1>11, NewStep
  <1>12. CASE SnapshotArchived
    BY <1>12, SnapshotArchivedStep
  <1>13. CASE Evict
    BY <1>13, EvictStep
  <1>14. CASE Crash
    BY <1>14, CrashStep
  <1>15. CASE Quiescent
    BY <1>15, StutterStep DEF Quiescent
  <1>16. CASE UNCHANGED vars
    BY <1>16, StutterStep
  <1>. QED BY <1>1, <1>2, <1>3, <1>4, <1>5, <1>6, <1>7, <1>8, <1>9, <1>10, <1>11,
              <1>12, <1>13, <1>14, <1>15, <1>16 DEF Next

\* However turns, archiving, /new, eviction and crashes interleave (manager.py,
\* memory.py, autocompact.py), the inductive invariant holds.
THEOREM Invariant == Spec => []IInv
  <1>. QED BY InitInv, NextInv, PTL DEF Spec

\* get_or_create hands out one live object: as long as none was overtaken, a
\* turn and a job hold the cached one, and it says what the file says.
THEOREM TheCacheIsSound == Spec => []CacheSound
  <1>1. IInv => CacheSound
    BY DEF IInv, Sound, TypeInv, Turns, Jobs, CacheSound, TypeOK, OneLiveObject, Sessions
  <1>. QED BY Invariant, <1>1, PTL

\* archive, the file cap, /new and a crash between history and cursor: no
\* message is missing from session and history, none is in the history twice
\* unless a crash excuses it.
THEOREM EveryMessageIsKept == Spec => []ArchivedExactly
  <1>1. IInv => ArchivedExactly
    BY DEF IInv, Sound, HistoryInv, Books, ArchivedExactly, NothingLost, ArchivedOnce
  <1>. QED BY Invariant, <1>1, PTL

\* cmd_new: nothing said before it comes back into the session, also not
\* through an archiving that was awaiting its summary meanwhile.
THEOREM NewIsFresh == Spec => []FreshUnlessRaced
  <1>1. ASSUME IInv, ~raced, NEW k \in DOMAIN file.messages
        PROVE  file.messages[k] > since
    <2>1. /\ file \in Sessions /\ EndsAt(file, said) /\ since + Len(file.messages) <= said
          /\ said \in Nat /\ since \in Nat
      BY <1>1 DEF IInv, Sound, TypeInv, FileInv
    <2>2. Len(file.messages) \in Nat /\ k \in 1 .. Len(file.messages)
      BY <1>1, <2>1 DEF Sessions
    <2>3. file.messages[k] = said - Len(file.messages) + k
      BY <2>1, <2>2 DEF EndsAt
    <2>. QED BY <2>1, <2>2, <2>3
  <1>2. IInv => FreshUnlessRaced
    BY <1>1 DEF FreshUnlessRaced
  <1>. QED BY Invariant, <1>2, PTL
=============================================================================
