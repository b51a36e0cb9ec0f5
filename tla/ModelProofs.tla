----------------------------- MODULE ModelProofs -----------------------------
(***************************************************************************)
(* What a model is sent, and how often: the proofs about ModelContext and  *)
(* ModelRequest, for every value of their constants.                       *)
(* First the windows that messages pass: what each operator on a sequence  *)
(* of messages returns, that it keeps calls and results together, and the  *)
(* invariant of the session and its running turn.  Then the retry and      *)
(* failover loops: segments of one call each, the number of calls, the     *)
(* images, and the open breaker.                                           *)
(***************************************************************************)
EXTENDS ModelContext, ModelRequest, FiniteSetTheorems, SequenceTheorems,
        WellFoundedInduction, TLAPS
-----------------------------------------------------------------------------
(* Numbers *)

\* Min is the least element of a set of numbers.
LEMMA MinIs ==
    ASSUME NEW S \in SUBSET Nat, S # {}
    PROVE  Min(S) \in S /\ \A y \in S : Min(S) <= y
<1>1. IsWellFoundedOn(OpToRel(<, Nat), Nat)
    BY NatLessThanWellFounded, Zenon
<1>2. PICK x \in S : \A y \in S : ~ (<<y, x>> \in OpToRel(<, Nat))
    BY <1>1, WFMin, Zenon
<1>3. ASSUME NEW y \in S
      PROVE  x <= y
    <2>1. x \in Nat /\ y \in Nat
        BY Zenon
    <2>2. ~ (y < x)
        <3>1. SUFFICES ASSUME y < x
                       PROVE  <<y, x>> \in OpToRel(<, Nat)
            BY <1>2
        <3>. QED BY <2>1, <3>1 DEF OpToRel
    <2>. QED BY <2>1, <2>2
<1>. QED BY <1>3 DEF Min

\* Max is the greatest element of a set of numbers that has a bound.
LEMMA MaxIs ==
    ASSUME NEW S \in SUBSET Nat, S # {}, NEW n \in Nat, \A y \in S : y <= n
    PROVE  Max(S) \in S /\ \A y \in S : Max(S) >= y
<1>. DEFINE T == {n - y : y \in S}
<1>1. T \in SUBSET Nat /\ T # {}
    <2>1. \A y \in S : n - y \in Nat
        OBVIOUS
    <2>. QED BY <2>1
<1>2. Min(T) \in T /\ \A y \in T : Min(T) <= y
    <2>. HIDE DEF T
    <2>. QED BY <1>1, MinIs
<1>3. PICK x \in S : Min(T) = n - x
    BY <1>2
<1>4. \A y \in S : x >= y
    <2>1. TAKE y \in S
    <2>2. n - y \in T
        OBVIOUS
    <2>3. n - x <= n - y
        BY <1>2, <1>3, <2>2
    <2>4. x \in Nat /\ y \in Nat
        OBVIOUS
    <2>. QED BY <2>3, <2>4
<1>. QED BY <1>4 DEF Max
-----------------------------------------------------------------------------
(* Messages *)

Roles == {"system", "user", "assistant", "delivery", "placeholder", "call", "tool"}

Entries ==
    {m \in [role : Roles, calls : SUBSET (Nat \ {0}), of : Int, size : {1, Big},
            compactable : BOOLEAN] :
        /\ IsFiniteSet(m.calls)
        /\ m.role # "call" => m.calls = {}
        /\ m.role = "call" => m.of = 0
        /\ IF m.role = "tool" THEN m.of \in Nat \ {0} ELSE m.of \in {0, -1}
        /\ m.size = Big => m.role = "tool"}

\* All the calls in s.
Calls(s) == UNION {s[k].calls : k \in 1 .. Len(s)}

\* A call stands in one message, a result answers one call, and what is between
\* the two are results.
Sane(s) ==
    /\ \A j, k \in 1 .. Len(s) : j # k => s[j].calls \cap s[k].calls = {}
    /\ \A j, k \in 1 .. Len(s) :
          j # k /\ s[j].role = "tool" /\ s[k].role = "tool" => s[j].of # s[k].of
    /\ \A j, k \in 1 .. Len(s) :
          s[k].role = "tool" /\ j < k /\ s[k].of \in s[j].calls =>
              \A h \in j + 1 .. k - 1 : s[h].role = "tool"

\* And each result has its call.
Tidy(s) == Sane(s) /\ LegalFrom(s, 1)

\* Each call has its result.
Full(s) == \A k \in 1 .. Len(s) : Missing(s, k) = {}

LEMMA Fields ==
    ASSUME NEW m \in Entries
    PROVE  /\ m = [role |-> m.role, calls |-> m.calls, of |-> m.of, size |-> m.size,
                   compactable |-> m.compactable]
           /\ m.role \in Roles
           /\ m.calls \in SUBSET (Nat \ {0}) /\ IsFiniteSet(m.calls)
           /\ m.role # "call" => m.calls = {}
           /\ m.of \in Int
           /\ m.role = "call" => m.of = 0
           /\ m.role = "tool" => m.of \in Nat \ {0}
           /\ m.role # "tool" => m.of \in {0, -1}
           /\ m.size \in {1, Big}
           /\ m.size = Big => m.role = "tool"
           /\ m.compactable \in BOOLEAN
           /\ Big \in Nat /\ Big > 1
BY ConstantsAssumption DEF Entries

LEMMA LenIs ==
    ASSUME NEW s \in Seq(Entries)
    PROVE  /\ Len(s) \in Nat
           /\ DOMAIN s = 1 .. Len(s)
           /\ s \in [1 .. Len(s) -> Entries]
           /\ \A k \in 1 .. Len(s) : s[k] \in Entries
BY LenProperties, ElementOfSeq

LEMMA PartIs ==
    ASSUME NEW s \in Seq(Entries), NEW a \in 1 .. Len(s) + 1, NEW b \in a - 1 .. Len(s)
    PROVE  /\ SubSeq(s, a, b) \in Seq(Entries)
           /\ Len(SubSeq(s, a, b)) = b - a + 1
           /\ \A k \in 1 .. b - a + 1 : SubSeq(s, a, b)[k] = s[a + k - 1]
<1>1. Len(s) \in Nat /\ \A k \in 1 .. Len(s) : s[k] \in Entries
    BY LenIs
<1>2. a \in Int /\ b \in Int /\ a >= 1 /\ b <= Len(s) /\ b >= a - 1
    BY <1>1
<1>3. \A i \in a .. b : s[i] \in Entries
    BY <1>1, <1>2
<1>4. /\ SubSeq(s, a, b) \in Seq(Entries)
      /\ Len(SubSeq(s, a, b)) = IF a <= b THEN b - a + 1 ELSE 0
      /\ \A i \in 1 .. b - a + 1 : SubSeq(s, a, b)[i] = s[a + i - 1]
    BY <1>2, <1>3, SubSeqProperties
<1>5. Len(SubSeq(s, a, b)) = b - a + 1
    BY <1>2, <1>4
<1>. QED BY <1>4, <1>5

LEMMA FromIs ==
    ASSUME NEW s \in Seq(Entries), NEW f \in 1 .. Len(s) + 1
    PROVE  /\ From(s, f) \in Seq(Entries)
           /\ Len(From(s, f)) = Len(s) - f + 1
           /\ \A k \in 1 .. Len(s) - f + 1 : From(s, f)[k] = s[f + k - 1]
           /\ From(s, 1) = s
<1>1. Len(s) \in Nat
    BY LenIs
<1>2. Len(s) \in f - 1 .. Len(s)
    BY <1>1
<1>3. From(s, 1) = s
    BY SubSeqFull DEF From
<1>. QED BY <1>2, <1>3, PartIs DEF From

LEMMA PartSane ==
    ASSUME NEW s \in Seq(Entries), NEW a \in 1 .. Len(s) + 1, NEW b \in a - 1 .. Len(s),
           Sane(s)
    PROVE  Sane(SubSeq(s, a, b)) /\ Calls(SubSeq(s, a, b)) \subseteq Calls(s)
<1>. DEFINE t == SubSeq(s, a, b)
<1>1. Len(s) \in Nat
    BY LenIs
<1>2. /\ t \in Seq(Entries)
      /\ Len(t) = b - a + 1
      /\ \A k \in 1 .. b - a + 1 : t[k] = s[a + k - 1]
    BY PartIs
<1>. HIDE DEF t
<1>3. a \in Nat /\ b \in Nat /\ a >= 1 /\ b <= Len(s)
    BY <1>1
<1>4. \A k \in 1 .. Len(t) : a + k - 1 \in 1 .. Len(s) /\ t[k] = s[a + k - 1] /\ k \in Nat
    BY <1>1, <1>2, <1>3
<1>5. \A j, k \in 1 .. Len(t) : j # k => t[j].calls \cap t[k].calls = {}
    <2>1. TAKE j, k \in 1 .. Len(t)
    <2>2. HAVE j # k
    <2>3. a + j - 1 # a + k - 1
        BY <1>3, <1>4, <2>2
    <2>4. /\ a + j - 1 \in 1 .. Len(s) /\ t[j] = s[a + j - 1]
          /\ a + k - 1 \in 1 .. Len(s) /\ t[k] = s[a + k - 1]
        BY <1>4
    <2>. QED BY <2>3, <2>4, Zenon DEF Sane
<1>6. \A j, k \in 1 .. Len(t) :
          j # k /\ t[j].role = "tool" /\ t[k].role = "tool" => t[j].of # t[k].of
    <2>1. TAKE j, k \in 1 .. Len(t)
    <2>2. HAVE j # k /\ t[j].role = "tool" /\ t[k].role = "tool"
    <2>3. a + j - 1 # a + k - 1
        BY <1>3, <1>4, <2>2
    <2>4. /\ a + j - 1 \in 1 .. Len(s) /\ t[j] = s[a + j - 1]
          /\ a + k - 1 \in 1 .. Len(s) /\ t[k] = s[a + k - 1]
        BY <1>4
    <2>. QED BY <2>2, <2>3, <2>4, Zenon DEF Sane
<1>7. \A j, k \in 1 .. Len(t) :
          t[k].role = "tool" /\ j < k /\ t[k].of \in t[j].calls =>
              \A h \in j + 1 .. k - 1 : t[h].role = "tool"
    <2>1. TAKE j, k \in 1 .. Len(t)
    <2>2. HAVE t[k].role = "tool" /\ j < k /\ t[k].of \in t[j].calls
    <2>3. TAKE h \in j + 1 .. k - 1
    <2>4. h \in 1 .. Len(t)
        BY <1>4, <2>3
    <2>5. a + j - 1 < a + k - 1 /\ a + h - 1 \in (a + j - 1) + 1 .. (a + k - 1) - 1
        BY <1>3, <1>4, <2>2, <2>3
    <2>6. /\ a + j - 1 \in 1 .. Len(s) /\ a + k - 1 \in 1 .. Len(s)
          /\ s[a + k - 1].role = "tool" /\ s[a + k - 1].of \in s[a + j - 1].calls
        BY <1>4, <2>2
    <2>7. s[a + h - 1].role = "tool"
        BY <2>5, <2>6, Zenon DEF Sane
    <2>. QED BY <1>4, <2>4, <2>7
<1>8. Calls(t) \subseteq Calls(s)
    BY <1>4 DEF Calls
<1>9. Sane(t)
    BY <1>5, <1>6, <1>7 DEF Sane
<1>. QED BY <1>8, <1>9 DEF t
-----------------------------------------------------------------------------
(* Where a conversation may start *)

LEMMA LegalStartIs ==
    ASSUME NEW s \in Seq(Entries)
    PROVE  /\ LegalStart(s) \in 1 .. Len(s) + 1
           /\ LegalFrom(s, LegalStart(s))
           /\ \A f \in 1 .. Len(s) + 1 : LegalFrom(s, f) => LegalStart(s) <= f
<1>. DEFINE F == {f \in 1 .. Len(s) + 1 : LegalFrom(s, f)}
<1>1. Len(s) \in Nat
    BY LenIs
<1>2. LegalFrom(s, Len(s) + 1)
    BY <1>1 DEF LegalFrom
<1>3. F \in SUBSET Nat /\ F # {}
    BY <1>1, <1>2
<1>4. Min(F) \in F /\ \A f \in F : Min(F) <= f
    <2>. HIDE DEF F
    <2>. QED BY <1>3, MinIs
<1>. QED BY <1>4 DEF LegalStart

LEMMA FromTidy ==
    ASSUME NEW s \in Seq(Entries), NEW f \in 1 .. Len(s) + 1, Sane(s), LegalFrom(s, f)
    PROVE  Tidy(From(s, f)) /\ Calls(From(s, f)) \subseteq Calls(s)
<1>. DEFINE t == From(s, f)
<1>1. Len(s) \in Nat
    BY LenIs
<1>2. /\ Len(t) = Len(s) - f + 1
      /\ \A k \in 1 .. Len(s) - f + 1 : t[k] = s[f + k - 1]
    BY FromIs
<1>3. Sane(t) /\ Calls(t) \subseteq Calls(s)
    <2>1. Len(s) \in f - 1 .. Len(s)
        BY <1>1
    <2>. QED BY <2>1, PartSane DEF From
<1>. HIDE DEF t
<1>4. f \in Nat /\ f >= 1
    BY <1>1
<1>5. \A k \in 1 .. Len(t) :
          t[k].role = "tool" => \E j \in 1 .. k - 1 : t[k].of \in t[j].calls
    <2>1. TAKE k \in 1 .. Len(t)
    <2>2. HAVE t[k].role = "tool"
    <2>3. k \in Nat /\ f + k - 1 \in f .. Len(s) /\ t[k] = s[f + k - 1]
        BY <1>1, <1>2, <1>4, <2>1
    <2>4. PICK i \in f .. (f + k - 1) - 1 : s[f + k - 1].of \in s[i].calls
        BY <2>2, <2>3 DEF LegalFrom
    <2>5. /\ i - f + 1 \in 1 .. k - 1 /\ i - f + 1 \in 1 .. Len(s) - f + 1
          /\ f + (i - f + 1) - 1 = i
        BY <1>1, <1>4, <2>3, <2>4
    <2>6. t[i - f + 1] = s[i]
        BY <1>2, <2>5
    <2>. QED BY <2>3, <2>4, <2>5, <2>6
<1>6. LegalFrom(t, 1)
    BY <1>5 DEF LegalFrom
<1>. QED BY <1>3, <1>6 DEF t, Tidy

LEMMA LegalTidy ==
    ASSUME NEW s \in Seq(Entries), Sane(s)
    PROVE  /\ Legal(s) \in Seq(Entries)
           /\ Tidy(Legal(s))
           /\ Calls(Legal(s)) \subseteq Calls(s)
BY LegalStartIs, FromIs, FromTidy DEF Legal

\* What starts with its calls in sight stays whole.
LEMMA LegalIs ==
    ASSUME NEW s \in Seq(Entries), LegalFrom(s, 1)
    PROVE  LegalStart(s) = 1 /\ Legal(s) = s
<1>1. Len(s) \in Nat
    BY LenIs
<1>2. 1 \in 1 .. Len(s) + 1
    BY <1>1
<1>3. LegalStart(s) \in 1 .. Len(s) + 1 /\ LegalStart(s) <= 1
    BY <1>2, LegalStartIs
<1>4. LegalStart(s) = 1
    BY <1>1, <1>3
<1>. QED BY <1>2, <1>4, FromIs DEF Legal

\* The result of a call: behind it, and only results are between.
LEMMA FullIs ==
    ASSUME NEW s \in Seq(Entries), Tidy(s), Full(s),
           NEW k \in 1 .. Len(s), NEW id \in s[k].calls
    PROVE  \E j \in k + 1 .. Len(s) :
              s[j].role = "tool" /\ s[j].of = id
              /\ \A h \in k + 1 .. j : s[h].role = "tool"
<1>1. Len(s) \in Nat /\ DOMAIN s = 1 .. Len(s)
    BY LenIs
<1>2. PICK j \in 1 .. Len(s) : s[j].role = "tool" /\ s[j].of = id
    BY <1>1 DEF Full, Missing
<1>3. PICK i \in 1 .. j - 1 : s[j].of \in s[i].calls
    BY <1>2 DEF Tidy, LegalFrom
<1>4. i \in 1 .. Len(s) /\ i < j
    BY <1>1, <1>2, <1>3
<1>5. i = k
    BY <1>2, <1>3, <1>4 DEF Tidy, Sane
<1>6. \A h \in k + 1 .. j - 1 : s[h].role = "tool"
    BY <1>2, <1>4, <1>5 DEF Tidy, Sane
<1>7. j \in k + 1 .. Len(s)
    BY <1>1, <1>4, <1>5
<1>8. \A h \in k + 1 .. j : h = j \/ h \in k + 1 .. j - 1
    BY <1>1, <1>7
<1>. QED BY <1>2, <1>6, <1>7, <1>8

\* What is cut in front of anything but a result.
LEMMA SuffixTidy ==
    ASSUME NEW s \in Seq(Entries), NEW f \in 1 .. Len(s) + 1, Tidy(s),
           f <= Len(s) => s[f].role # "tool"
    PROVE  /\ From(s, f) \in Seq(Entries)
           /\ Tidy(From(s, f))
           /\ LegalFrom(s, f)
           /\ Calls(From(s, f)) \subseteq Calls(s)
           /\ Full(s) => Full(From(s, f))
<1>. DEFINE t == From(s, f)
<1>1. Len(s) \in Nat
    BY LenIs
<1>2. /\ t \in Seq(Entries)
      /\ Len(t) = Len(s) - f + 1
      /\ \A k \in 1 .. Len(s) - f + 1 : t[k] = s[f + k - 1]
    BY FromIs
<1>3. LegalFrom(s, f)
    <2>1. SUFFICES ASSUME NEW k \in f .. Len(s), s[k].role = "tool"
                   PROVE  \E j \in f .. k - 1 : s[k].of \in s[j].calls
        BY DEF LegalFrom
    <2>2. k \in 1 .. Len(s) /\ f # k
        BY <1>1, <2>1
    <2>3. PICK j \in 1 .. k - 1 : s[k].of \in s[j].calls
        BY <2>1, <2>2 DEF Tidy, LegalFrom
    <2>4. j \in 1 .. Len(s) /\ j < k
        BY <1>1, <2>2, <2>3
    <2>5. \A h \in j + 1 .. k - 1 : s[h].role = "tool"
        BY <2>1, <2>2, <2>3, <2>4 DEF Tidy, Sane
    <2>6. CASE j >= f
        BY <1>1, <2>3, <2>4, <2>6
    <2>7. CASE j < f
        <3>1. f \in j + 1 .. k - 1 /\ f <= Len(s)
            BY <1>1, <2>2, <2>4, <2>7
        <3>. QED BY <2>5, <3>1
    <2>. QED BY <1>1, <2>4, <2>6, <2>7
<1>4. Tidy(t) /\ Calls(t) \subseteq Calls(s)
    BY <1>3, FromTidy DEF Tidy
<1>5. ASSUME Full(s)
      PROVE  Full(t)
    <2>. HIDE DEF t
    <2>1. f \in Nat /\ f >= 1 /\ DOMAIN t = 1 .. Len(t)
        BY <1>1, <1>2, LenIs
    <2>2. SUFFICES ASSUME NEW k \in 1 .. Len(t), NEW id \in t[k].calls
                   PROVE  \E j \in 1 .. Len(t) : t[j].role = "tool" /\ t[j].of = id
        BY <2>1 DEF Full, Missing
    <2>3. k \in Nat /\ f + k - 1 \in 1 .. Len(s) /\ t[k] = s[f + k - 1]
        BY <1>1, <1>2, <2>1
    <2>4. PICK i \in (f + k - 1) + 1 .. Len(s) : s[i].role = "tool" /\ s[i].of = id
        BY <1>5, <2>2, <2>3, FullIs
    <2>5. i - f + 1 \in 1 .. Len(s) - f + 1 /\ f + (i - f + 1) - 1 = i
        BY <1>1, <2>1, <2>3, <2>4
    <2>6. t[i - f + 1] = s[i]
        BY <1>2, <2>5
    <2>. QED BY <1>2, <2>4, <2>5, <2>6
<1>. QED BY <1>2, <1>3, <1>4, <1>5
-----------------------------------------------------------------------------
(* Two conversations, one after the other *)

LEMMA ConcatIs ==
    ASSUME NEW a \in Seq(Entries), NEW b \in Seq(Entries)
    PROVE  /\ a \o b \in Seq(Entries)
           /\ Len(a \o b) = Len(a) + Len(b)
           /\ \A i \in 1 .. Len(a) : (a \o b)[i] = a[i]
           /\ \A i \in 1 .. Len(b) : (a \o b)[Len(a) + i] = b[i]
           /\ \A i \in 1 .. Len(a) + Len(b) :
                 i \in 1 .. Len(a) \/ (i > Len(a) /\ i - Len(a) \in 1 .. Len(b))
           /\ Calls(a \o b) = Calls(a) \cup Calls(b)
<1>1. Len(a) \in Nat /\ Len(b) \in Nat
    BY LenIs
<1>2. /\ a \o b \in Seq(Entries)
      /\ Len(a \o b) = Len(a) + Len(b)
      /\ \A i \in 1 .. Len(a) + Len(b) :
            (a \o b)[i] = IF i <= Len(a) THEN a[i] ELSE b[i - Len(a)]
    BY ConcatProperties
<1>3. \A i \in 1 .. Len(a) : i \in 1 .. Len(a) + Len(b) /\ (a \o b)[i] = a[i]
    BY <1>1, <1>2
<1>4. ASSUME NEW i \in 1 .. Len(b)
      PROVE  Len(a) + i \in 1 .. Len(a) + Len(b) /\ (a \o b)[Len(a) + i] = b[i]
    <2>1. /\ Len(a) + i \in 1 .. Len(a) + Len(b)
          /\ ~ (Len(a) + i <= Len(a))
          /\ (Len(a) + i) - Len(a) = i
        BY <1>1
    <2>. QED BY <1>2, <2>1
<1>5. \A i \in 1 .. Len(a) + Len(b) :
          i \in 1 .. Len(a)
          \/ (i > Len(a) /\ i - Len(a) \in 1 .. Len(b) /\ Len(a) + (i - Len(a)) = i)
    BY <1>1
<1>6. Calls(a \o b) \subseteq Calls(a) \cup Calls(b)
    <2>1. SUFFICES ASSUME NEW i \in 1 .. Len(a) + Len(b)
                   PROVE  (a \o b)[i].calls \subseteq Calls(a) \cup Calls(b)
        BY <1>2 DEF Calls
    <2>2. CASE i \in 1 .. Len(a)
        BY <1>3, <2>2 DEF Calls
    <2>3. CASE i - Len(a) \in 1 .. Len(b) /\ Len(a) + (i - Len(a)) = i
        <3>1. (a \o b)[i] = b[i - Len(a)]
            BY <1>4, <2>3
        <3>. QED BY <2>3, <3>1 DEF Calls
    <2>. QED BY <1>5, <2>2, <2>3
<1>7. Calls(a) \subseteq Calls(a \o b)
    BY <1>2, <1>3 DEF Calls
<1>8. Calls(b) \subseteq Calls(a \o b)
    BY <1>2, <1>4 DEF Calls
<1>. QED BY <1>2, <1>3, <1>4, <1>5, <1>6, <1>7, <1>8

LEMMA ConcatTidy ==
    ASSUME NEW a \in Seq(Entries), NEW b \in Seq(Entries), Tidy(a), Tidy(b),
           Calls(a) \cap Calls(b) = {}
    PROVE  Tidy(a \o b) /\ (Full(a) /\ Full(b) => Full(a \o b))
<1>. DEFINE t == a \o b
            n == Len(a)
<1>1. n \in Nat /\ Len(b) \in Nat
    BY LenIs
<1>2. /\ t \in Seq(Entries)
      /\ Len(t) = n + Len(b)
      /\ \A i \in 1 .. n : t[i] = a[i]
      /\ \A i \in 1 .. Len(b) : t[n + i] = b[i]
    BY ConcatIs
<1>3. \A i \in 1 .. n + Len(b) :
          i \in 1 .. n \/ (i > n /\ i - n \in 1 .. Len(b))
    BY ConcatIs
<1>13. \A i \in 1 .. n : a[i].calls \subseteq Calls(a)
    BY DEF Calls
<1>. HIDE DEF t, n
<1>4. \A i \in 1 .. Len(t) :
          \/ i \in 1 .. n /\ t[i] = a[i] /\ t[i].calls \subseteq Calls(a)
          \/ i > n /\ i - n \in 1 .. Len(b) /\ t[i] = b[i - n] /\ t[i].calls \subseteq Calls(b)
    <2>1. TAKE i \in 1 .. Len(t)
    <2>2. CASE i \in 1 .. n
        BY <1>2, <1>13, <2>2
    <2>3. CASE i > n /\ i - n \in 1 .. Len(b)
        <3>1. n + (i - n) = i
            BY <1>1, <1>2
        <3>2. t[i] = b[i - n]
            BY <1>2, <2>3, <3>1
        <3>. QED BY <2>3, <3>2 DEF Calls
    <2>. QED BY <1>2, <1>3, <2>2, <2>3
<1>5. \A i \in 1 .. n : a[i].role = "tool" =>
          \E j \in 1 .. i - 1 : j \in 1 .. n /\ a[i].of \in a[j].calls /\ a[i].of \in Calls(a)
    <2>1. TAKE i \in 1 .. n
    <2>2. HAVE a[i].role = "tool"
    <2>3. PICK j \in 1 .. i - 1 : a[i].of \in a[j].calls
        BY <2>2 DEF Tidy, LegalFrom, n
    <2>4. j \in 1 .. n
        BY <1>1, <2>3
    <2>. QED BY <2>3, <2>4 DEF n, Calls
<1>6. \A i \in 1 .. Len(b) : b[i].role = "tool" =>
          \E j \in 1 .. i - 1 : j \in 1 .. Len(b) /\ b[i].of \in b[j].calls /\ b[i].of \in Calls(b)
    <2>1. TAKE i \in 1 .. Len(b)
    <2>2. HAVE b[i].role = "tool"
    <2>3. PICK j \in 1 .. i - 1 : b[i].of \in b[j].calls
        BY <2>2 DEF Tidy, LegalFrom
    <2>4. j \in 1 .. Len(b)
        BY <1>1, <2>3
    <2>. QED BY <2>3, <2>4 DEF Calls
<1>7. \A j, k \in 1 .. Len(t) : j # k => t[j].calls \cap t[k].calls = {}
    <2>1. TAKE j, k \in 1 .. Len(t)
    <2>2. HAVE j # k
    <2>3. CASE j \in 1 .. n /\ t[j] = a[j] /\ k \in 1 .. n /\ t[k] = a[k]
        BY <2>2, <2>3 DEF Tidy, Sane, n
    <2>4. CASE /\ j > n /\ j - n \in 1 .. Len(b) /\ t[j] = b[j - n]
               /\ k > n /\ k - n \in 1 .. Len(b) /\ t[k] = b[k - n]
        <3>1. j - n # k - n
            BY <1>1, <1>2, <2>2
        <3>. QED BY <2>4, <3>1 DEF Tidy, Sane
    <2>. QED BY <1>4, <2>3, <2>4
<1>8. \A j, k \in 1 .. Len(t) :
          j # k /\ t[j].role = "tool" /\ t[k].role = "tool" => t[j].of # t[k].of
    <2>1. TAKE j, k \in 1 .. Len(t)
    <2>2. HAVE j # k /\ t[j].role = "tool" /\ t[k].role = "tool"
    <2>3. CASE j \in 1 .. n /\ t[j] = a[j] /\ k \in 1 .. n /\ t[k] = a[k]
        BY <2>2, <2>3 DEF Tidy, Sane, n
    <2>4. CASE /\ j > n /\ j - n \in 1 .. Len(b) /\ t[j] = b[j - n]
               /\ k > n /\ k - n \in 1 .. Len(b) /\ t[k] = b[k - n]
        <3>1. j - n # k - n
            BY <1>1, <1>2, <2>2
        <3>. QED BY <2>2, <2>4, <3>1 DEF Tidy, Sane
    <2>5. \A i \in {j, k} : \/ i \in 1 .. n /\ t[i] = a[i] /\ t[i].of \in Calls(a)
                            \/ i > n /\ i - n \in 1 .. Len(b) /\ t[i] = b[i - n]
                               /\ t[i].of \in Calls(b)
        BY <1>4, <1>5, <1>6, <2>2
    <2>. QED BY <2>3, <2>4, <2>5
<1>9. \A j, k \in 1 .. Len(t) :
          t[k].role = "tool" /\ j < k /\ t[k].of \in t[j].calls =>
              \A h \in j + 1 .. k - 1 : t[h].role = "tool"
    <2>1. TAKE j, k \in 1 .. Len(t)
    <2>2. HAVE t[k].role = "tool" /\ j < k /\ t[k].of \in t[j].calls
    <2>3. TAKE h \in j + 1 .. k - 1
    <2>4. h \in 1 .. Len(t)
        BY <1>1, <1>2, <2>3
    <2>5. CASE j \in 1 .. n /\ t[j] = a[j] /\ k \in 1 .. n /\ t[k] = a[k]
        <3>1. h \in 1 .. n
            BY <1>1, <2>3, <2>5
        <3>2. t[h] = a[h]
            BY <1>2, <3>1
        <3>3. a[h].role = "tool"
            BY <2>2, <2>3, <2>5 DEF Tidy, Sane, n
        <3>. QED BY <3>2, <3>3
    <2>6. CASE /\ j > n /\ j - n \in 1 .. Len(b) /\ t[j] = b[j - n]
               /\ k > n /\ k - n \in 1 .. Len(b) /\ t[k] = b[k - n]
        <3>4. j \in Int /\ k \in Int /\ h \in Int /\ h >= j + 1 /\ h <= k - 1
            BY <1>1, <1>2, <2>3
        <3>5. k <= n + Len(b)
            BY <1>1, <1>2
        <3>1. /\ j - n < k - n /\ h - n \in (j - n) + 1 .. (k - n) - 1
              /\ h - n \in 1 .. Len(b) /\ n + (h - n) = h
            BY <1>1, <2>2, <2>6, <3>4, <3>5
        <3>2. t[h] = b[h - n]
            BY <1>2, <3>1
        <3>3. b[h - n].role = "tool"
            BY <2>2, <2>6, <3>1 DEF Tidy, Sane
        <3>. QED BY <3>2, <3>3
    <2>7. CASE j \in 1 .. n /\ t[j].calls \subseteq Calls(a) /\ k > n /\ k - n \in 1 .. Len(b)
               /\ t[k] = b[k - n]
        BY <1>6, <2>2, <2>7
    <2>8. ~ (j > n /\ k \in 1 .. n)
        BY <1>1, <1>2, <2>2
    <2>. QED BY <1>4, <2>5, <2>6, <2>7, <2>8
<1>10. LegalFrom(t, 1)
    <2>1. SUFFICES ASSUME NEW k \in 1 .. Len(t), t[k].role = "tool"
                   PROVE  \E j \in 1 .. k - 1 : t[k].of \in t[j].calls
        BY DEF LegalFrom
    <2>2. CASE k \in 1 .. n /\ t[k] = a[k]
        <3>1. PICK j \in 1 .. k - 1 : j \in 1 .. n /\ a[k].of \in a[j].calls
            BY <1>5, <2>1, <2>2
        <3>. QED BY <1>2, <2>2, <3>1
    <2>3. CASE k > n /\ k - n \in 1 .. Len(b) /\ t[k] = b[k - n]
        <3>1. PICK j \in 1 .. (k - n) - 1 : j \in 1 .. Len(b) /\ b[k - n].of \in b[j].calls
            BY <1>6, <2>1, <2>3
        <3>2. n + j \in 1 .. k - 1
            BY <1>1, <1>2, <2>1, <2>3, <3>1
        <3>. QED BY <1>2, <2>3, <3>1, <3>2
    <2>. QED BY <1>4, <2>2, <2>3
<1>11. ASSUME Full(a), Full(b)
       PROVE  Full(t)
    <2>1. DOMAIN a = 1 .. n /\ DOMAIN b = 1 .. Len(b) /\ DOMAIN t = 1 .. Len(t)
        BY <1>2, LenIs DEF n
    <2>2. SUFFICES ASSUME NEW k \in 1 .. Len(t), NEW id \in t[k].calls
                   PROVE  \E j \in 1 .. Len(t) : t[j].role = "tool" /\ t[j].of = id
        BY <2>1 DEF Full, Missing
    <2>3. CASE k \in 1 .. n /\ t[k] = a[k]
        <3>1. PICK j \in 1 .. n : a[j].role = "tool" /\ a[j].of = id
            BY <1>11, <2>1, <2>2, <2>3 DEF Full, Missing, n
        <3>2. j \in 1 .. Len(t)
            BY <1>1, <1>2
        <3>. QED BY <1>2, <3>1, <3>2
    <2>4. CASE k > n /\ k - n \in 1 .. Len(b) /\ t[k] = b[k - n]
        <3>1. PICK j \in 1 .. Len(b) : b[j].role = "tool" /\ b[j].of = id
            BY <1>11, <2>1, <2>2, <2>4 DEF Full, Missing
        <3>2. n + j \in 1 .. Len(t)
            BY <1>1, <1>2
        <3>. QED BY <1>2, <3>1, <3>2
    <2>. QED BY <1>4, <2>3, <2>4
<1>12. Tidy(t)
    BY <1>7, <1>8, <1>9, <1>10 DEF Tidy, Sane
<1>. QED BY <1>11, <1>12 DEF t
-----------------------------------------------------------------------------
(* Messages in the order of their slots *)

Under(S, x) == {y \in S : Precedes(y, x)}
Place(S, x) == Cardinality(Under(S, x)) + 1
Item(s, x) == IF x[2] = 0 THEN s[x[1]] ELSE Result(x[2], "small")

LEMMA SlotOrder ==
    ASSUME NEW x \in Nat \X Nat, NEW y \in Nat \X Nat, NEW z \in Nat \X Nat
    PROVE  /\ ~ Precedes(x, x)
           /\ x = y \/ Precedes(x, y) \/ Precedes(y, x)
           /\ ~ (Precedes(x, y) /\ Precedes(y, x))
           /\ Precedes(x, y) /\ Precedes(y, z) => Precedes(x, z)
<1>1. /\ x[1] \in Nat /\ x[2] \in Nat /\ y[1] \in Nat /\ y[2] \in Nat
      /\ z[1] \in Nat /\ z[2] \in Nat
    OBVIOUS
<1>2. x[1] = y[1] /\ x[2] = y[2] => x = y
    OBVIOUS
<1>. QED BY <1>1, <1>2 DEF Precedes

\* Each slot has a place, each place a slot, and the places are ordered as the
\* slots are.
LEMMA PlaceIs ==
    ASSUME NEW S \in SUBSET (Nat \X Nat), IsFiniteSet(S)
    PROVE  /\ Cardinality(S) \in Nat
           /\ \A x \in S : Place(S, x) \in 1 .. Cardinality(S)
           /\ \A x, y \in S : Precedes(x, y) <=> Place(S, x) < Place(S, y)
           /\ \A x, y \in S : Place(S, x) = Place(S, y) => x = y
           /\ \A i \in 1 .. Cardinality(S) : \E x \in S : Place(S, x) = i
<1>. DEFINE n == Cardinality(S)
            f == [x \in S |-> Place(S, x)]
<1>1. n \in Nat
    BY FS_CardinalityType
<1>2. ASSUME NEW x \in S
      PROVE  /\ IsFiniteSet(Under(S, x)) /\ Cardinality(Under(S, x)) \in Nat
             /\ Cardinality(Under(S, x)) < n
    <2>1. Under(S, x) \in SUBSET S /\ x \notin Under(S, x)
        BY SlotOrder DEF Under
    <2>2. IsFiniteSet(Under(S, x)) /\ Cardinality(Under(S, x)) <= n
          /\ (n = Cardinality(Under(S, x)) => S = Under(S, x))
        BY <2>1, FS_Subset
    <2>3. Cardinality(Under(S, x)) \in Nat
        BY <2>2, FS_CardinalityType
    <2>. QED BY <1>1, <2>1, <2>2, <2>3
<1>3. ASSUME NEW x \in S, NEW y \in S, Precedes(x, y)
      PROVE  Place(S, x) < Place(S, y)
    <2>1. Under(S, x) \in SUBSET Under(S, y)
        <3>1. SUFFICES ASSUME NEW z \in S, Precedes(z, x)
                       PROVE  Precedes(z, y)
            BY DEF Under
        <3>2. x \in Nat \X Nat /\ y \in Nat \X Nat /\ z \in Nat \X Nat
            OBVIOUS
        <3>. QED BY <1>3, <3>1, <3>2, SlotOrder
    <2>2. x \in Under(S, y) /\ x \notin Under(S, x)
        BY <1>3, SlotOrder DEF Under
    <2>3. Cardinality(Under(S, x)) <= Cardinality(Under(S, y))
          /\ Cardinality(Under(S, x)) # Cardinality(Under(S, y))
        BY <1>2, <2>1, <2>2, FS_Subset
    <2>. QED BY <1>2, <2>3 DEF Place
<1>4. \A x \in S : Place(S, x) \in 1 .. n
    BY <1>1, <1>2 DEF Place
<1>5. \A x, y \in S : Precedes(x, y) <=> Place(S, x) < Place(S, y)
    <2>1. TAKE x, y \in S
    <2>2. x = y \/ Precedes(x, y) \/ Precedes(y, x)
        BY SlotOrder
    <2>3. ~ Precedes(x, x)
        BY SlotOrder
    <2>4. Place(S, x) \in Nat /\ Place(S, y) \in Nat
        BY <1>2 DEF Place
    <2>. QED BY <1>3, <2>2, <2>3, <2>4
<1>6. \A x, y \in S : Place(S, x) = Place(S, y) => x = y
    <2>1. TAKE x, y \in S
    <2>2. x = y \/ Precedes(x, y) \/ Precedes(y, x)
        BY SlotOrder
    <2>3. Place(S, x) \in Nat /\ Place(S, y) \in Nat
        BY <1>2 DEF Place
    <2>. QED BY <1>3, <2>2, <2>3
<1>7. IsFiniteSet(1 .. n) /\ Cardinality(1 .. n) = n
    <2>. HIDE DEF n
    <2>1. n \in Int /\ 1 \in Int
        BY <1>1
    <2>2. IsFiniteSet(1 .. n) /\ Cardinality(1 .. n) = IF 1 > n THEN 0 ELSE n - 1 + 1
        BY <2>1, FS_Interval
    <2>. QED BY <1>1, <2>2
<1>8. f \in Injection(S, 1 .. n)
    <2>. HIDE DEF n
    <2>1. f \in [S -> 1 .. n]
        BY <1>4
    <2>2. \A x, y \in S : f[x] = f[y] => x = y
        BY <1>6
    <2>. QED BY <2>1, <2>2 DEF Injection, IsInjective
<1>9. f \in Surjection(S, 1 .. n)
    <2>. HIDE DEF f
    <2>. QED BY <1>7, <1>8, FS_Injection
<1>10. \A i \in 1 .. n : \E x \in S : Place(S, x) = i
    <2>1. TAKE i \in 1 .. n
    <2>2. PICK x \in S : f[x] = i
        BY <1>9 DEF Surjection
    <2>. QED BY <2>2
<1>. QED BY <1>1, <1>4, <1>5, <1>6, <1>10

LEMMA ArrangedAt ==
    ASSUME NEW s, NEW S \in SUBSET (Nat \X Nat), IsFiniteSet(S)
    PROVE  /\ DOMAIN Arranged(s, S) = 1 .. Cardinality(S)
           /\ Arranged(s, S) = [i \in 1 .. Cardinality(S) |-> Arranged(s, S)[i]]
           /\ \A x \in S : Arranged(s, S)[Place(S, x)] = Item(s, x)
<1>. DEFINE place == [x \in S |-> Cardinality({y \in S : Precedes(y, x)}) + 1]
            at(i) == CHOOSE x \in S : place[x] = i
            q == [i \in 1 .. Cardinality(S) |->
                     IF at(i)[2] = 0 THEN s[at(i)[1]] ELSE Result(at(i)[2], "small")]
<1>1. Arranged(s, S) = q
    BY DEF Arranged
<1>2. \A x \in S : place[x] = Place(S, x)
    BY DEF Place, Under
<1>3. ASSUME NEW x \in S
      PROVE  at(Place(S, x)) = x
    <2>. HIDE DEF place
    <2>1. \E y \in S : place[y] = Place(S, x)
        BY <1>2
    <2>2. at(Place(S, x)) \in S /\ place[at(Place(S, x))] = Place(S, x)
        BY <2>1
    <2>3. Place(S, at(Place(S, x))) = Place(S, x)
        BY <1>2, <2>2
    <2>. QED BY <2>2, <2>3, PlaceIs
<1>. HIDE DEF at
<1>4. \A x \in S : q[Place(S, x)] = Item(s, x)
    <2>1. TAKE x \in S
    <2>2. Place(S, x) \in 1 .. Cardinality(S)
        BY PlaceIs
    <2>. QED BY <1>3, <2>2 DEF Item
<1>. QED BY <1>1, <1>4

LEMMA MessageIs ==
    ASSUME NEW id \in Nat \ {0}, NEW outcome \in Outcomes
    PROVE  /\ Result(id, outcome) \in Entries
           /\ Result(id, outcome).role = "tool" /\ Result(id, outcome).of = id
           /\ Result(id, outcome).calls = {}
           /\ Result(id, outcome).size = IF outcome = "small" THEN 1 ELSE Big
           /\ Result(id, outcome).compactable = (outcome = "large")
<1>1. IsFiniteSet({})
    BY FS_EmptySet
<1>2. outcome = "small" \/ outcome # "small"
    OBVIOUS
<1>. QED BY <1>1, <1>2 DEF Entries, Roles, Result

LEMMA ShortIs ==
    ASSUME NEW id \in Nat \ {0}
    PROVE  /\ Result(id, "small") \in Entries
           /\ Result(id, "small").role = "tool" /\ Result(id, "small").of = id
           /\ Result(id, "small").calls = {} /\ Result(id, "small").size = 1
<1>1. "small" \in Outcomes
    BY DEF Outcomes
<1>. QED BY <1>1, MessageIs

LEMMA ItemIs ==
    ASSUME NEW s \in Seq(Entries), NEW x \in (1 .. Len(s)) \X Nat
    PROVE  /\ Item(s, x) \in Entries
           /\ x[2] = 0 => x[1] \in 1 .. Len(s) /\ Item(s, x) = s[x[1]]
           /\ x[2] # 0 => x[2] \in Nat \ {0} /\ Item(s, x) = Result(x[2], "small")
<1>1. x[1] \in 1 .. Len(s) /\ x[2] \in Nat
    OBVIOUS
<1>2. s[x[1]] \in Entries
    BY <1>1, LenIs
<1>3. x[2] # 0 => Result(x[2], "small") \in Entries
    BY <1>1, ShortIs
<1>. QED BY <1>1, <1>2, <1>3 DEF Item

\* The slots in their order, and the message of each.
LEMMA ArrangedIs ==
    ASSUME NEW s \in Seq(Entries), NEW S \in SUBSET ((1 .. Len(s)) \X Nat),
           IsFiniteSet(S)
    PROVE  /\ Arranged(s, S) \in Seq(Entries)
           /\ Len(Arranged(s, S)) = Cardinality(S)
           /\ Cardinality(S) \in Nat
           /\ \E e \in [1 .. Cardinality(S) -> S] :
                 /\ \A i, j \in 1 .. Cardinality(S) : i < j <=> Precedes(e[i], e[j])
                 /\ \A x \in S : \E i \in 1 .. Cardinality(S) : e[i] = x
                 /\ \A i \in 1 .. Cardinality(S) : Arranged(s, S)[i] = Item(s, e[i])
<1>. DEFINE n == Cardinality(S)
            q == Arranged(s, S)
            e == [i \in 1 .. n |-> CHOOSE x \in S : Place(S, x) = i]
<1>1. S \in SUBSET (Nat \X Nat)
    <2>1. Len(s) \in Nat
        BY LenIs
    <2>. QED BY <2>1
<1>2. /\ n \in Nat
      /\ \A x \in S : Place(S, x) \in 1 .. n
      /\ \A x, y \in S : Precedes(x, y) <=> Place(S, x) < Place(S, y)
      /\ \A x, y \in S : Place(S, x) = Place(S, y) => x = y
      /\ \A i \in 1 .. n : \E x \in S : Place(S, x) = i
    BY <1>1, PlaceIs
<1>3. /\ DOMAIN q = 1 .. n
      /\ q = [i \in 1 .. n |-> q[i]]
      /\ \A x \in S : q[Place(S, x)] = Item(s, x)
    BY <1>1, ArrangedAt
<1>. HIDE DEF n, q
<1>4. \A i \in 1 .. n : e[i] \in S /\ Place(S, e[i]) = i
    BY <1>2
<1>5. e \in [1 .. n -> S]
    BY <1>4
<1>. HIDE DEF e
<1>6. \A i \in 1 .. n : q[i] = Item(s, e[i])
    BY <1>3, <1>4
<1>7. \A i \in 1 .. n : q[i] \in Entries
    BY <1>4, <1>6, ItemIs
<1>8. q \in [1 .. n -> Entries]
    BY <1>3, <1>7
<1>9. q \in Seq(Entries) /\ Len(q) = n
    BY <1>2, <1>8
<1>10. \A i, j \in 1 .. n : i < j <=> Precedes(e[i], e[j])
    <2>1. TAKE i, j \in 1 .. n
    <2>2. e[i] \in S /\ e[j] \in S /\ Place(S, e[i]) = i /\ Place(S, e[j]) = j
        BY <1>4
    <2>3. Precedes(e[i], e[j]) <=> Place(S, e[i]) < Place(S, e[j])
        BY <1>2, <2>2
    <2>. QED BY <2>2, <2>3
<1>11. \A x \in S : \E i \in 1 .. n : e[i] = x
    <2>1. TAKE x \in S
    <2>2. Place(S, x) \in 1 .. n
        BY <1>2
    <2>3. e[Place(S, x)] \in S /\ Place(S, e[Place(S, x)]) = Place(S, x)
        BY <1>4, <2>2
    <2>4. e[Place(S, x)] = x
        BY <1>2, <2>3
    <2>. QED BY <2>2, <2>4
<1>. QED BY <1>2, <1>5, <1>6, <1>9, <1>10, <1>11 DEF n, q

LEMMA ArrangedEquals ==
    ASSUME NEW s \in Seq(Entries), NEW S \in SUBSET ((1 .. Len(s)) \X Nat),
           IsFiniteSet(S), NEW q \in Seq(Entries), Len(q) = Cardinality(S),
           \A x \in S : q[Place(S, x)] = Item(s, x)
    PROVE  Arranged(s, S) = q
<1>1. S \in SUBSET (Nat \X Nat)
    <2>1. Len(s) \in Nat
        BY LenIs
    <2>. QED BY <2>1
<1>2. Arranged(s, S) \in Seq(Entries) /\ Len(Arranged(s, S)) = Cardinality(S)
    BY ArrangedIs
<1>3. \A i \in 1 .. Cardinality(S) : Arranged(s, S)[i] = q[i]
    <2>1. TAKE i \in 1 .. Cardinality(S)
    <2>2. PICK x \in S : Place(S, x) = i
        BY <1>1, PlaceIs
    <2>3. Arranged(s, S)[Place(S, x)] = Item(s, x)
        BY <1>1, ArrangedAt
    <2>. QED BY <2>2, <2>3
<1>. QED BY <1>2, <1>3, SeqEqual
-----------------------------------------------------------------------------
(* Two arrangements, one after the other *)

Shifted(S, n) == {<<n + x[1], x[2]>> : x \in S}

LEMMA ShiftedIs ==
    ASSUME NEW S \in SUBSET (Nat \X Nat), IsFiniteSet(S), NEW n \in Nat
    PROVE  /\ Shifted(S, n) \in SUBSET (Nat \X Nat)
           /\ IsFiniteSet(Shifted(S, n))
           /\ Cardinality(Shifted(S, n)) = Cardinality(S)
<1>. DEFINE f == [x \in S |-> <<n + x[1], x[2]>>]
<1>1. \A x \in S : x[1] \in Nat /\ x[2] \in Nat /\ x = <<x[1], x[2]>>
    OBVIOUS
<1>2. Shifted(S, n) \in SUBSET (Nat \X Nat)
    BY <1>1 DEF Shifted
<1>3. f \in [S -> Shifted(S, n)]
    BY DEF Shifted
<1>4. \A x, y \in S : f[x] = f[y] => x = y
    <2>1. TAKE x, y \in S
    <2>2. HAVE f[x] = f[y]
    <2>3. n + x[1] = n + y[1] /\ x[2] = y[2]
        BY <2>2
    <2>4. x[1] = y[1]
        BY <1>1, <2>3
    <2>. QED BY <1>1, <2>3, <2>4
<1>5. \A y \in Shifted(S, n) : \E x \in S : f[x] = y
    BY DEF Shifted
<1>. HIDE DEF f
<1>6. f \in Injection(S, Shifted(S, n))
    BY <1>3, <1>4 DEF Injection, IsInjective
<1>7. f \in Surjection(S, Shifted(S, n))
    BY <1>3, <1>5 DEF Surjection
<1>8. ExistsBijection(S, Shifted(S, n))
    BY <1>6, <1>7 DEF ExistsBijection, Bijection
<1>. QED BY <1>2, <1>8, FS_Bijection

LEMMA ArrangedConcat ==
    ASSUME NEW a \in Seq(Entries), NEW b \in Seq(Entries),
           NEW S \in SUBSET ((1 .. Len(a)) \X Nat), IsFiniteSet(S),
           NEW T \in SUBSET ((1 .. Len(b)) \X Nat), IsFiniteSet(T)
    PROVE  Arranged(a \o b, S \cup Shifted(T, Len(a))) = Arranged(a, S) \o Arranged(b, T)
<1>. DEFINE n == Len(a)
            U == S \cup Shifted(T, n)
            q == Arranged(a, S) \o Arranged(b, T)
<1>1. n \in Nat /\ Len(b) \in Nat
    BY LenIs
<1>2. S \in SUBSET (Nat \X Nat) /\ T \in SUBSET (Nat \X Nat)
    BY <1>1
<1>3. /\ Shifted(T, n) \in SUBSET (Nat \X Nat)
      /\ IsFiniteSet(Shifted(T, n))
      /\ Cardinality(Shifted(T, n)) = Cardinality(T)
    BY <1>1, <1>2, ShiftedIs
<1>4. /\ a \o b \in Seq(Entries) /\ Len(a \o b) = n + Len(b)
      /\ \A i \in 1 .. n : (a \o b)[i] = a[i]
      /\ \A i \in 1 .. Len(b) : (a \o b)[n + i] = b[i]
    BY ConcatIs
<1>5. /\ Arranged(a, S) \in Seq(Entries) /\ Len(Arranged(a, S)) = Cardinality(S)
      /\ Cardinality(S) \in Nat
    BY ArrangedIs
<1>6. /\ Arranged(b, T) \in Seq(Entries) /\ Len(Arranged(b, T)) = Cardinality(T)
      /\ Cardinality(T) \in Nat
    BY ArrangedIs
<1>7. /\ q \in Seq(Entries) /\ Len(q) = Cardinality(S) + Cardinality(T)
      /\ \A i \in 1 .. Cardinality(S) : q[i] = Arranged(a, S)[i]
      /\ \A i \in 1 .. Cardinality(T) : q[Cardinality(S) + i] = Arranged(b, T)[i]
    <2>1. LET A == Arranged(a, S)
              B == Arranged(b, T)
          IN  /\ A \o B \in Seq(Entries)
              /\ Len(A \o B) = Len(A) + Len(B)
              /\ \A i \in 1 .. Len(A) : (A \o B)[i] = A[i]
              /\ \A i \in 1 .. Len(B) : (A \o B)[Len(A) + i] = B[i]
        BY <1>5, <1>6, ConcatIs
    <2>. QED BY <1>5, <1>6, <2>1
<1>. HIDE DEF n, q
<1>8. \A x \in S : x[1] \in 1 .. n /\ x[2] \in Nat
    BY DEF n
<1>9. \A x \in T : x[1] \in 1 .. Len(b) /\ x[2] \in Nat
    OBVIOUS
<1>10. \A y \in Shifted(T, n) : y[1] > n
    <2>1. SUFFICES ASSUME NEW x \in T
                   PROVE  <<n + x[1], x[2]>>[1] > n
        BY DEF Shifted
    <2>. QED BY <1>1, <1>9
<1>11. S \cap Shifted(T, n) = {}
    <2>1. \A x \in S : x[1] <= n /\ x[1] \in Nat
        BY <1>1, <1>8
    <2>. QED BY <1>1, <1>10, <2>1
<1>12. IsFiniteSet(U) /\ Cardinality(U) = Cardinality(S) + Cardinality(T)
    <2>1. IsFiniteSet(U)
          /\ Cardinality(U) = Cardinality(S) + Cardinality(Shifted(T, n))
                                 - Cardinality(S \cap Shifted(T, n))
        BY <1>3, FS_Union
    <2>2. Cardinality(S \cap Shifted(T, n)) = 0
        BY <1>11, FS_EmptySet
    <2>. QED BY <1>3, <1>5, <1>6, <2>1, <2>2
<1>13. U \in SUBSET ((1 .. Len(a \o b)) \X Nat)
    <2>1. \A x \in S : x[1] \in 1 .. n + Len(b)
        BY <1>1, <1>8
    <2>2. \A x \in T : n + x[1] \in 1 .. n + Len(b)
        BY <1>1, <1>9
    <2>3. Shifted(T, n) \subseteq (1 .. n + Len(b)) \X Nat
        BY <1>9, <2>2 DEF Shifted
    <2>4. S \subseteq (1 .. n + Len(b)) \X Nat
        BY <1>8, <2>1
    <2>. QED BY <1>4, <2>3, <2>4
<1>14. ASSUME NEW x \in S
       PROVE  q[Place(U, x)] = Item(a \o b, x)
    <2>1. Under(U, x) = Under(S, x)
        <3>1. ASSUME NEW y \in Shifted(T, n)
              PROVE  ~ Precedes(y, x)
            <4>1. y[1] \in Nat /\ y[1] > n /\ x[1] \in Nat /\ x[1] <= n
                BY <1>1, <1>3, <1>8, <1>10
            <4>. QED BY <1>1, <4>1 DEF Precedes
        <3>. QED BY <3>1 DEF Under
    <2>2. Place(U, x) = Place(S, x)
        BY <2>1 DEF Place
    <2>3. Place(S, x) \in 1 .. Cardinality(S)
        BY <1>2, PlaceIs
    <2>4. Arranged(a, S)[Place(S, x)] = Item(a, x)
        BY <1>2, ArrangedAt
    <2>5. Item(a \o b, x) = Item(a, x)
        BY <1>4, <1>8 DEF Item
    <2>. QED BY <1>7, <2>2, <2>3, <2>4, <2>5
<1>15. ASSUME NEW x \in T
       PROVE  q[Place(U, <<n + x[1], x[2]>>)] = Item(a \o b, <<n + x[1], x[2]>>)
    <2>. DEFINE z == <<n + x[1], x[2]>>
    <2>1. z \in Shifted(T, n) /\ z[1] = n + x[1] /\ z[2] = x[2]
        BY DEF Shifted
    <2>2. Under(T, x) \in SUBSET T /\ IsFiniteSet(Under(T, x))
          /\ Under(T, x) \in SUBSET (Nat \X Nat)
        <3>1. Under(T, x) \in SUBSET T
            BY DEF Under
        <3>. QED BY <1>2, <3>1, FS_Subset
    <2>3. /\ IsFiniteSet(Shifted(Under(T, x), n))
          /\ Cardinality(Shifted(Under(T, x), n)) = Cardinality(Under(T, x))
        BY <1>1, <2>2, ShiftedIs
    <2>4. \A y \in S : Precedes(y, z)
        <3>1. TAKE y \in S
        <3>2. y[1] \in 1 .. n /\ x[1] \in 1 .. Len(b)
            BY <1>8, <1>9
        <3>3. y[1] < n + x[1]
            BY <1>1, <3>2
        <3>. QED BY <2>1, <3>3 DEF Precedes
    <2>. HIDE DEF z
    <2>5. \A y \in T : Precedes(<<n + y[1], y[2]>>, z) <=> Precedes(y, x)
        <3>1. TAKE y \in T
        <3>2. y[1] \in Nat /\ y[2] \in Nat /\ x[1] \in Nat /\ x[2] \in Nat
            BY <1>1, <1>9
        <3>3. n + y[1] < n + x[1] <=> y[1] < x[1]
            BY <1>1, <3>2
        <3>4. n + y[1] = n + x[1] <=> y[1] = x[1]
            BY <1>1, <3>2
        <3>. QED BY <2>1, <3>3, <3>4 DEF Precedes
    <2>6. Under(U, z) = S \cup Shifted(Under(T, x), n)
        <3>1. Under(Shifted(T, n), z) = Shifted(Under(T, x), n)
            <4>1. Under(Shifted(T, n), z) \subseteq Shifted(Under(T, x), n)
                <5>1. SUFFICES ASSUME NEW y \in T, Precedes(<<n + y[1], y[2]>>, z)
                               PROVE  <<n + y[1], y[2]>> \in Shifted(Under(T, x), n)
                    BY DEF Under, Shifted
                <5>2. y \in Under(T, x)
                    BY <2>5, <5>1 DEF Under
                <5>. QED BY <5>2 DEF Shifted
            <4>2. Shifted(Under(T, x), n) \subseteq Under(Shifted(T, n), z)
                <5>1. SUFFICES ASSUME NEW y \in Under(T, x)
                               PROVE  <<n + y[1], y[2]>> \in Under(Shifted(T, n), z)
                    BY DEF Shifted
                <5>2. y \in T /\ Precedes(<<n + y[1], y[2]>>, z)
                    BY <2>5, <5>1 DEF Under
                <5>. QED BY <5>2 DEF Under, Shifted
            <4>. QED BY <4>1, <4>2
        <3>2. Under(U, z) = Under(S, z) \cup Under(Shifted(T, n), z)
            BY DEF Under
        <3>3. Under(S, z) = S
            BY <2>4 DEF Under
        <3>. QED BY <3>1, <3>2, <3>3
    <2>7. S \cap Shifted(Under(T, x), n) = {}
        <3>1. Shifted(Under(T, x), n) \subseteq Shifted(T, n)
            BY <2>2 DEF Shifted
        <3>. QED BY <1>11, <3>1
    <2>8. Cardinality(Under(U, z)) = Cardinality(S) + Cardinality(Under(T, x))
        <3>1. Cardinality(S \cup Shifted(Under(T, x), n))
                 = Cardinality(S) + Cardinality(Shifted(Under(T, x), n))
                       - Cardinality(S \cap Shifted(Under(T, x), n))
            BY <2>3, FS_Union
        <3>2. Cardinality(S \cap Shifted(Under(T, x), n)) = 0
            BY <2>7, FS_EmptySet
        <3>3. Cardinality(Under(T, x)) \in Nat
            BY <2>2, FS_CardinalityType
        <3>4. Cardinality(S \cup Shifted(Under(T, x), n))
                 = Cardinality(S) + Cardinality(Under(T, x)) - 0
            BY <2>3, <3>1, <3>2
        <3>5. Cardinality(S) + Cardinality(Under(T, x)) - 0
                 = Cardinality(S) + Cardinality(Under(T, x))
            BY <1>5, <3>3
        <3>. QED BY <2>6, <3>4, <3>5
    <2>9. Cardinality(Under(T, x)) \in Nat
        BY <2>2, FS_CardinalityType
    <2>10. Place(U, z) = Cardinality(S) + Place(T, x)
        BY <1>5, <2>8, <2>9 DEF Place
    <2>11. Place(T, x) \in 1 .. Cardinality(T)
        BY <1>2, PlaceIs
    <2>12. Arranged(b, T)[Place(T, x)] = Item(b, x)
        BY <1>2, ArrangedAt
    <2>13. Item(a \o b, z) = Item(b, x)
        BY <1>4, <1>9, <2>1 DEF Item
    <2>14. q[Place(U, z)] = Item(a \o b, z)
        BY <1>7, <2>10, <2>11, <2>12, <2>13
    <2>. QED BY <2>14 DEF z
<1>16. \A x \in U : q[Place(U, x)] = Item(a \o b, x)
    BY <1>14, <1>15 DEF Shifted
<1>17. Arranged(a \o b, U) = q
    <2>. DEFINE t == a \o b
    <2>1. /\ t \in Seq(Entries) /\ U \in SUBSET ((1 .. Len(t)) \X Nat)
          /\ IsFiniteSet(U) /\ q \in Seq(Entries) /\ Len(q) = Cardinality(U)
          /\ \A x \in U : q[Place(U, x)] = Item(t, x)
        BY <1>4, <1>7, <1>12, <1>13, <1>16
    <2>. HIDE DEF t, U
    <2>2. Arranged(t, U) = q
        BY <2>1, ArrangedEquals
    <2>. QED BY <2>2 DEF t
<1>. QED BY <1>17 DEF q, n
-----------------------------------------------------------------------------
(* Some of the messages, in their order *)

LEMMA ColumnIs ==
    ASSUME NEW K, IsFiniteSet(K)
    PROVE  IsFiniteSet(K \X {0}) /\ Cardinality(K \X {0}) = Cardinality(K)
<1>. DEFINE f == [k \in K |-> <<k, 0>>]
<1>1. f \in [K -> K \X {0}]
    OBVIOUS
<1>2. \A j, k \in K : f[j] = f[k] => j = k
    OBVIOUS
<1>3. \A x \in K \X {0} : \E k \in K : f[k] = x
    OBVIOUS
<1>. HIDE DEF f
<1>4. f \in Injection(K, K \X {0})
    BY <1>1, <1>2 DEF Injection, IsInjective
<1>5. f \in Surjection(K, K \X {0})
    BY <1>1, <1>3 DEF Surjection
<1>6. ExistsBijection(K, K \X {0})
    BY <1>4, <1>5 DEF ExistsBijection, Bijection
<1>. QED BY <1>6, FS_Bijection

LEMMA PickedFinite ==
    ASSUME NEW s \in Seq(Entries), NEW K \in SUBSET (1 .. Len(s))
    PROVE  /\ IsFiniteSet(K) /\ Cardinality(K) \in Nat
           /\ K \X {0} \in SUBSET ((1 .. Len(s)) \X Nat)
           /\ IsFiniteSet(K \X {0}) /\ Cardinality(K \X {0}) = Cardinality(K)
<1>. DEFINE n == Len(s)
<1>1. n \in Int /\ 1 \in Int
    BY LenIs
<1>2. IsFiniteSet(1 .. n)
    <2>. HIDE DEF n
    <2>. QED BY <1>1, FS_Interval
<1>3. IsFiniteSet(K) /\ Cardinality(K) \in Nat
    BY <1>2, FS_Subset, FS_CardinalityType
<1>4. K \X {0} \in SUBSET ((1 .. Len(s)) \X Nat)
    <2>1. SUFFICES ASSUME NEW k \in K
                   PROVE  <<k, 0>> \in (1 .. Len(s)) \X Nat
        OBVIOUS
    <2>2. k \in 1 .. Len(s) /\ 0 \in Nat
        OBVIOUS
    <2>. QED BY <2>2
<1>. QED BY <1>3, <1>4, ColumnIs

\* All the slots of the messages hold the messages.
LEMMA ColumnAll ==
    ASSUME NEW s \in Seq(Entries)
    PROVE  Arranged(s, (1 .. Len(s)) \X {0}) = s
<1>. DEFINE n == Len(s)
            S == (1 .. n) \X {0}
<1>1. n \in Nat
    BY LenIs
<1>2. /\ S \in SUBSET ((1 .. n) \X Nat)
      /\ IsFiniteSet(S) /\ Cardinality(S) = Cardinality(1 .. n)
    BY PickedFinite
<1>. HIDE DEF n
<1>3. \A m \in Nat : IsFiniteSet(1 .. m) /\ Cardinality(1 .. m) = m
    <2>1. TAKE m \in Nat
    <2>2. 1 \in Int /\ m \in Int
        OBVIOUS
    <2>3. IsFiniteSet(1 .. m) /\ Cardinality(1 .. m) = IF 1 > m THEN 0 ELSE m - 1 + 1
        BY <2>2, FS_Interval
    <2>. QED BY <2>1, <2>3
<1>4. ASSUME NEW k \in 1 .. n
      PROVE  Place(S, <<k, 0>>) = k
    <2>1. k \in Nat /\ k - 1 \in Nat
        BY <1>1
    <2>2. Under(S, <<k, 0>>) = (1 .. k - 1) \X {0}
        <3>1. \A j \in 1 .. n : j < k <=> j \in 1 .. k - 1
            BY <1>1, <2>1
        <3>2. \A j \in 1 .. k - 1 : j \in 1 .. n
            BY <1>1, <2>1
        <3>3. \A j \in 1 .. n : Precedes(<<j, 0>>, <<k, 0>>) <=> j < k
            BY <1>1, <2>1 DEF Precedes
        <3>4. \A j : <<j, 0>> \in Under(S, <<k, 0>>) <=> j \in 1 .. k - 1
            BY <3>1, <3>2, <3>3 DEF Under
        <3>5. \A x \in Under(S, <<k, 0>>) : x = <<x[1], 0>>
            BY DEF Under
        <3>6. \A x \in (1 .. k - 1) \X {0} : x = <<x[1], 0>> /\ x[1] \in 1 .. k - 1
            OBVIOUS
        <3>7. Under(S, <<k, 0>>) \subseteq (1 .. k - 1) \X {0}
            <4>1. SUFFICES ASSUME NEW x \in Under(S, <<k, 0>>)
                           PROVE  x \in (1 .. k - 1) \X {0}
                OBVIOUS
            <4>2. x = <<x[1], 0>>
                BY <3>5
            <4>3. x[1] \in 1 .. k - 1
                BY <3>4, <4>1, <4>2
            <4>4. <<x[1], 0>> \in (1 .. k - 1) \X {0}
                BY <4>3
            <4>. QED BY <4>2, <4>4
        <3>8. (1 .. k - 1) \X {0} \subseteq Under(S, <<k, 0>>)
            BY <3>4, <3>6
        <3>. QED BY <3>7, <3>8
    <2>3. Cardinality((1 .. k - 1) \X {0}) = k - 1
        BY <1>3, <2>1, ColumnIs
    <2>4. Place(S, <<k, 0>>) = (k - 1) + 1
        BY <2>2, <2>3 DEF Place
    <2>. QED BY <2>1, <2>4
<1>5. \A x \in S : s[Place(S, x)] = Item(s, x)
    <2>1. TAKE x \in S
    <2>2. PICK k \in 1 .. n : x = <<k, 0>>
        OBVIOUS
    <2>. QED BY <1>4, <2>2 DEF Item
<1>6. Len(s) = Cardinality(S)
    BY <1>1, <1>2, <1>3 DEF n
<1>7. Arranged(s, S) = s
    <2>1. S \in SUBSET ((1 .. Len(s)) \X Nat)
        BY <1>2 DEF n
    <2>. HIDE DEF S
    <2>. QED BY <1>2, <1>5, <1>6, <2>1, ArrangedEquals
<1>. QED BY <1>7 DEF n

LEMMA PickedArranged ==
    ASSUME NEW s \in Seq(Entries), NEW K \in SUBSET (1 .. Len(s))
    PROVE  Picked(s, K) = Arranged(s, K \X {0})
<1>1. DOMAIN s = 1 .. Len(s)
    BY LenIs
<1>2. CASE K = 1 .. Len(s)
    BY <1>1, <1>2, ColumnAll DEF Picked
<1>3. CASE K # 1 .. Len(s)
    BY <1>1, <1>3 DEF Picked
<1>. QED BY <1>2, <1>3

LEMMA PickedAll ==
    ASSUME NEW s \in Seq(Entries)
    PROVE  Picked(s, 1 .. Len(s)) = s
BY LenIs DEF Picked

LEMMA PickedIs ==
    ASSUME NEW s \in Seq(Entries), NEW K \in SUBSET (1 .. Len(s))
    PROVE  /\ Picked(s, K) \in Seq(Entries)
           /\ Len(Picked(s, K)) = Cardinality(K)
           /\ Cardinality(K) \in Nat
           /\ \E e \in [1 .. Cardinality(K) -> K] :
                 /\ \A i, j \in 1 .. Cardinality(K) : i < j <=> e[i] < e[j]
                 /\ \A k \in K : \E i \in 1 .. Cardinality(K) : e[i] = k
                 /\ \A i \in 1 .. Cardinality(K) : Picked(s, K)[i] = s[e[i]]
<1>. DEFINE S == K \X {0}
            n == Cardinality(K)
<1>1. /\ Cardinality(S) = n
      /\ n \in Nat /\ S \in SUBSET ((1 .. Len(s)) \X Nat)
      /\ IsFiniteSet(S)
    BY PickedFinite
<1>2. Picked(s, K) = Arranged(s, S)
    BY PickedArranged
<1>3. \A x \in S : x[1] \in K /\ x[2] = 0 /\ x[1] \in Nat
    <2>1. Len(s) \in Nat
        BY LenIs
    <2>2. \A x \in S : x[1] \in K /\ x[2] = 0
        OBVIOUS
    <2>3. \A k \in K : k \in Nat
        BY <2>1
    <2>. QED BY <2>2, <2>3
<1>4. \A k \in K : <<k, 0>> \in S
    OBVIOUS
<1>. HIDE DEF S, n
<1>5. /\ Arranged(s, S) \in Seq(Entries) /\ Len(Arranged(s, S)) = n
      /\ \E e \in [1 .. n -> S] :
            /\ \A i, j \in 1 .. n : i < j <=> Precedes(e[i], e[j])
            /\ \A x \in S : \E i \in 1 .. n : e[i] = x
            /\ \A i \in 1 .. n : Arranged(s, S)[i] = Item(s, e[i])
    <2>. DEFINE m == Cardinality(S)
    <2>1. /\ Arranged(s, S) \in Seq(Entries) /\ Len(Arranged(s, S)) = m
          /\ \E e \in [1 .. m -> S] :
                /\ \A i, j \in 1 .. m : i < j <=> Precedes(e[i], e[j])
                /\ \A x \in S : \E i \in 1 .. m : e[i] = x
                /\ \A i \in 1 .. m : Arranged(s, S)[i] = Item(s, e[i])
        BY <1>1, ArrangedIs
    <2>2. m = n
        BY <1>1
    <2>. HIDE DEF m
    <2>. QED BY <2>1, <2>2
<1>6. PICK d \in [1 .. n -> S] :
            /\ \A i, j \in 1 .. n : i < j <=> Precedes(d[i], d[j])
            /\ \A x \in S : \E i \in 1 .. n : d[i] = x
            /\ \A i \in 1 .. n : Arranged(s, S)[i] = Item(s, d[i])
    BY <1>5
<1>. DEFINE e == [i \in 1 .. n |-> d[i][1]]
<1>7. \A i \in 1 .. n : d[i] \in S /\ e[i] = d[i][1] /\ d[i][2] = 0 /\ e[i] \in K
    BY <1>3
<1>8. e \in [1 .. n -> K]
    BY <1>7
<1>. HIDE DEF e
<1>9. \A i, j \in 1 .. n : i < j <=> e[i] < e[j]
    <2>1. TAKE i, j \in 1 .. n
    <2>2. Precedes(d[i], d[j]) <=> e[i] < e[j]
        BY <1>3, <1>7 DEF Precedes
    <2>. QED BY <1>6, <2>2
<1>10. \A k \in K : \E i \in 1 .. n : e[i] = k
    <2>1. TAKE k \in K
    <2>2. PICK i \in 1 .. n : d[i] = <<k, 0>>
        BY <1>4, <1>6
    <2>. QED BY <1>7, <2>2
<1>11. \A i \in 1 .. n : Arranged(s, S)[i] = s[e[i]]
    BY <1>6, <1>7 DEF Item
<1>12. /\ Picked(s, K) \in Seq(Entries)
       /\ Len(Picked(s, K)) = n
       /\ n \in Nat
       /\ \E h \in [1 .. n -> K] :
             /\ \A i, j \in 1 .. n : i < j <=> h[i] < h[j]
             /\ \A k \in K : \E i \in 1 .. n : h[i] = k
             /\ \A i \in 1 .. n : Picked(s, K)[i] = s[h[i]]
    <2>1. \A i \in 1 .. n : Picked(s, K)[i] = s[e[i]]
        BY <1>2, <1>11
    <2>2. \E h \in [1 .. n -> K] :
             /\ \A i, j \in 1 .. n : i < j <=> h[i] < h[j]
             /\ \A k \in K : \E i \in 1 .. n : h[i] = k
             /\ \A i \in 1 .. n : Picked(s, K)[i] = s[h[i]]
        <3>1. WITNESS e \in [1 .. n -> K]
        <3>. QED BY <1>9, <1>10, <2>1
    <2>. QED BY <1>1, <1>2, <1>5, <2>2
<1>. QED BY <1>12 DEF n

LEMMA PickedConcat ==
    ASSUME NEW a \in Seq(Entries), NEW b \in Seq(Entries),
           NEW K \in SUBSET (1 .. Len(a)), NEW J \in SUBSET (1 .. Len(b))
    PROVE  Picked(a \o b, K \cup {Len(a) + j : j \in J}) = Picked(a, K) \o Picked(b, J)
<1>. DEFINE S == K \X {0}
            T == J \X {0}
<1>1. /\ S \in SUBSET ((1 .. Len(a)) \X Nat) /\ IsFiniteSet(S)
      /\ T \in SUBSET ((1 .. Len(b)) \X Nat) /\ IsFiniteSet(T)
    BY PickedFinite
<1>2. (K \cup {Len(a) + j : j \in J}) \X {0} = S \cup Shifted(T, Len(a))
    <2>1. Shifted(T, Len(a)) \subseteq {Len(a) + j : j \in J} \X {0}
        <3>1. SUFFICES ASSUME NEW x \in T
                       PROVE  <<Len(a) + x[1], x[2]>> \in {Len(a) + j : j \in J} \X {0}
            BY DEF Shifted
        <3>2. x[1] \in J /\ x[2] = 0
            OBVIOUS
        <3>. HIDE DEF T
        <3>. QED BY <3>2
    <2>2. {Len(a) + j : j \in J} \X {0} \subseteq Shifted(T, Len(a))
        <3>1. ASSUME NEW j \in J
              PROVE  <<Len(a) + j, 0>> \in Shifted(T, Len(a))
            <4>1. <<j, 0>> \in T /\ <<Len(a) + j, 0>> = <<Len(a) + <<j, 0>>[1], <<j, 0>>[2]>>
                OBVIOUS
            <4>. HIDE DEF T
            <4>. QED BY <4>1 DEF Shifted
        <3>. HIDE DEF T
        <3>2. ASSUME NEW x \in {Len(a) + j : j \in J} \X {0}
              PROVE  x \in Shifted(T, Len(a))
            <4>1. PICK j \in J : x[1] = Len(a) + j
                OBVIOUS
            <4>2. x = <<Len(a) + j, 0>>
                BY <4>1
            <4>. QED BY <3>1, <4>2
        <3>. QED BY <3>2
    <2>. QED BY <2>1, <2>2
<1>. HIDE DEF S, T
<1>3. Arranged(a \o b, S \cup Shifted(T, Len(a))) = Arranged(a, S) \o Arranged(b, T)
    BY <1>1, ArrangedConcat, SMTT(60)
<1>. DEFINE Q == K \cup {Len(a) + j : j \in J}
<1>4. Q \in SUBSET (1 .. Len(a \o b)) /\ a \o b \in Seq(Entries)
    <2>1. a \o b \in Seq(Entries) /\ Len(a \o b) = Len(a) + Len(b)
        BY ConcatIs
    <2>2. Len(a) \in Nat /\ Len(b) \in Nat
        BY LenIs
    <2>3. \A j \in J : Len(a) + j \in 1 .. Len(a) + Len(b)
        BY <2>2
    <2>4. \A k \in K : k \in 1 .. Len(a) + Len(b)
        BY <2>2
    <2>. QED BY <2>1, <2>3, <2>4
<1>5. Picked(a \o b, Q) = Arranged(a \o b, Q \X {0})
    <2>. HIDE DEF Q
    <2>. QED BY <1>4, PickedArranged
<1>6. Picked(a, K) = Arranged(a, S) /\ Picked(b, J) = Arranged(b, T)
    BY PickedArranged DEF S, T
<1>. QED BY <1>2, <1>3, <1>5, <1>6

\* A conversation without some messages that are neither a call nor a result.
LEMMA PickedTidy ==
    ASSUME NEW s \in Seq(Entries), NEW K \in SUBSET (1 .. Len(s)), Tidy(s),
           \A k \in 1 .. Len(s) : s[k].role \in {"call", "tool"} => k \in K
    PROVE  /\ Picked(s, K) \in Seq(Entries)
           /\ Tidy(Picked(s, K))
           /\ Calls(Picked(s, K)) = Calls(s)
           /\ Full(s) => Full(Picked(s, K))
<1>. DEFINE p == Picked(s, K)
            n == Cardinality(K)
<1>1. p \in Seq(Entries) /\ Len(p) = n /\ n \in Nat
    BY PickedIs
<1>2. PICK e \in [1 .. n -> K] :
            /\ \A i, j \in 1 .. n : i < j <=> e[i] < e[j]
            /\ \A k \in K : \E i \in 1 .. n : e[i] = k
            /\ \A i \in 1 .. n : p[i] = s[e[i]]
    BY PickedIs
<1>. HIDE DEF p, n
<1>3. Len(s) \in Nat /\ DOMAIN s = 1 .. Len(s) /\ DOMAIN p = 1 .. Len(p)
    BY <1>1, LenIs
<1>4. \A i \in 1 .. n : e[i] \in K /\ e[i] \in 1 .. Len(s) /\ p[i] = s[e[i]]
    BY <1>2
<1>5. \A i, j \in 1 .. n : i # j => e[i] # e[j]
    <2>1. TAKE i, j \in 1 .. n
    <2>2. HAVE i # j
    <2>3. i < j \/ j < i
        BY <2>2, <1>1
    <2>4. e[i] < e[j] \/ e[j] < e[i]
        BY <1>2, <2>3
    <2>. QED BY <1>3, <1>4, <2>4
<1>6. \A k \in 1 .. Len(s) : s[k].calls # {} => s[k].role = "call" /\ k \in K
    BY LenIs, Fields
<1>7. \A j, k \in 1 .. Len(p) : j # k => p[j].calls \cap p[k].calls = {}
    <2>1. TAKE j, k \in 1 .. Len(p)
    <2>2. HAVE j # k
    <2>3. /\ e[j] \in 1 .. Len(s) /\ e[k] \in 1 .. Len(s) /\ e[j] # e[k]
          /\ p[j] = s[e[j]] /\ p[k] = s[e[k]]
        BY <1>1, <1>4, <1>5, <2>2
    <2>. QED BY <2>3 DEF Tidy, Sane
<1>8. \A j, k \in 1 .. Len(p) :
          j # k /\ p[j].role = "tool" /\ p[k].role = "tool" => p[j].of # p[k].of
    <2>1. TAKE j, k \in 1 .. Len(p)
    <2>2. HAVE j # k /\ p[j].role = "tool" /\ p[k].role = "tool"
    <2>3. /\ e[j] \in 1 .. Len(s) /\ e[k] \in 1 .. Len(s) /\ e[j] # e[k]
          /\ p[j] = s[e[j]] /\ p[k] = s[e[k]]
        BY <1>1, <1>4, <1>5, <2>2
    <2>. QED BY <2>2, <2>3 DEF Tidy, Sane
<1>9. \A j, k \in 1 .. Len(p) :
          p[k].role = "tool" /\ j < k /\ p[k].of \in p[j].calls =>
              \A h \in j + 1 .. k - 1 : p[h].role = "tool"
    <2>1. TAKE j, k \in 1 .. Len(p)
    <2>2. HAVE p[k].role = "tool" /\ j < k /\ p[k].of \in p[j].calls
    <2>3. TAKE h \in j + 1 .. k - 1
    <2>4. h \in 1 .. n /\ j < h /\ h < k /\ j \in 1 .. n /\ k \in 1 .. n
        BY <1>1, <2>1, <2>2, <2>3
    <2>5. e[j] < e[h] /\ e[h] < e[k] /\ e[j] < e[k]
        BY <1>2, <2>2, <2>4
    <2>6. e[j] \in 1 .. Len(s) /\ e[k] \in 1 .. Len(s) /\ e[h] \in 1 .. Len(s)
        BY <1>4, <2>4
    <2>7. e[h] \in e[j] + 1 .. e[k] - 1
        BY <1>3, <2>5, <2>6
    <2>8. s[e[h]].role = "tool"
        <3>1. s[e[k]].role = "tool" /\ s[e[k]].of \in s[e[j]].calls
            BY <1>4, <2>2, <2>4
        <3>. QED BY <2>5, <2>6, <2>7, <3>1 DEF Tidy, Sane
    <2>. QED BY <1>4, <2>4, <2>8
<1>10. LegalFrom(p, 1)
    <2>1. SUFFICES ASSUME NEW k \in 1 .. Len(p), p[k].role = "tool"
                   PROVE  \E j \in 1 .. k - 1 : p[k].of \in p[j].calls
        BY DEF LegalFrom
    <2>2. e[k] \in 1 .. Len(s) /\ p[k] = s[e[k]]
        BY <1>1, <1>4
    <2>3. PICK i \in 1 .. e[k] - 1 : s[e[k]].of \in s[i].calls
        BY <2>1, <2>2 DEF Tidy, LegalFrom
    <2>4. i \in 1 .. Len(s) /\ i < e[k]
        BY <1>3, <2>2, <2>3
    <2>5. i \in K
        BY <1>6, <2>3, <2>4
    <2>6. PICK j \in 1 .. n : e[j] = i
        BY <1>2, <2>5
    <2>7. j < k
        BY <1>1, <1>2, <2>4, <2>6
    <2>8. j \in 1 .. k - 1
        BY <1>1, <2>7
    <2>. QED BY <1>4, <2>2, <2>3, <2>6, <2>8
<1>11. Calls(p) = Calls(s)
    <2>1. Calls(p) \subseteq Calls(s)
        BY <1>1, <1>4 DEF Calls
    <2>2. ASSUME NEW k \in 1 .. Len(s), NEW id \in s[k].calls
          PROVE  \E i \in 1 .. Len(p) : id \in p[i].calls
        <3>1. k \in K
            BY <1>6, <2>2
        <3>2. PICK i \in 1 .. n : e[i] = k
            BY <1>2, <3>1
        <3>. QED BY <1>1, <1>4, <2>2, <3>2
    <2>. QED BY <2>1, <2>2 DEF Calls
<1>12. ASSUME Full(s)
       PROVE  Full(p)
    <2>1. SUFFICES ASSUME NEW k \in 1 .. Len(p), NEW id \in p[k].calls
                   PROVE  \E j \in 1 .. Len(p) : p[j].role = "tool" /\ p[j].of = id
        BY <1>3 DEF Full, Missing
    <2>2. e[k] \in 1 .. Len(s) /\ id \in s[e[k]].calls
        BY <1>1, <1>4, <2>1
    <2>3. PICK i \in e[k] + 1 .. Len(s) : s[i].role = "tool" /\ s[i].of = id
        BY <1>12, <2>2, FullIs
    <2>4. i \in 1 .. Len(s)
        BY <1>3, <2>2, <2>3
    <2>5. PICK j \in 1 .. n : e[j] = i
        BY <1>2, <2>3, <2>4
    <2>. QED BY <1>1, <1>4, <2>3, <2>5
<1>13. Tidy(p)
    BY <1>7, <1>8, <1>9, <1>10 DEF Tidy, Sane
<1>. QED BY <1>1, <1>11, <1>12, <1>13 DEF p
-----------------------------------------------------------------------------
(* Results that are put in *)

\* Between k and m, and at m, are results only.
Between(s, k, m) == \A h \in k + 1 .. m : s[h].role = "tool"

LEMMA RunEndIs ==
    ASSUME NEW s \in Seq(Entries), NEW k \in 1 .. Len(s)
    PROVE  /\ RunEnd(s, k) \in k .. Len(s)
           /\ Between(s, k, RunEnd(s, k))
           /\ \A j \in k .. Len(s) : Between(s, k, j) => j <= RunEnd(s, k)
<1>. DEFINE R == {j \in k .. Len(s) : Between(s, k, j)}
<1>1. Len(s) \in Nat /\ k \in Nat
    BY LenIs
<1>2. RunEnd(s, k) = Max(R)
    BY DEF RunEnd, Between
<1>3. R \in SUBSET Nat /\ \A j \in R : j <= Len(s)
    BY <1>1
<1>4. k \in R
    BY <1>1 DEF Between
<1>5. Max(R) \in R /\ \A j \in R : Max(R) >= j
    <2>1. R # {}
        BY <1>4
    <2>. HIDE DEF R
    <2>. QED BY <1>1, <1>3, <2>1, MaxIs
<1>6. \A j \in R : j <= Max(R)
    <2>. HIDE DEF R
    <2>. QED BY <1>3, <1>5
<1>. QED BY <1>2, <1>5, <1>6

\* The run of the message at k ends where one says.
LEMMA RunEndEquals ==
    ASSUME NEW s \in Seq(Entries), NEW k \in 1 .. Len(s), NEW m \in k .. Len(s),
           Between(s, k, m), m < Len(s) => s[m + 1].role # "tool"
    PROVE  RunEnd(s, k) = m
<1>1. Len(s) \in Nat /\ k \in Nat /\ m \in Nat
    BY LenIs
<1>2. /\ RunEnd(s, k) \in k .. Len(s) /\ m <= RunEnd(s, k)
      /\ Between(s, k, RunEnd(s, k))
    BY RunEndIs
<1>3. ASSUME m < RunEnd(s, k)
      PROVE  FALSE
    <2>1. m < Len(s) /\ m + 1 \in k + 1 .. RunEnd(s, k)
        BY <1>1, <1>2, <1>3
    <2>. QED BY <1>2, <2>1 DEF Between
<1>. QED BY <1>1, <1>2, <1>3

Added(s, k) == {RunEnd(s, k)} \X Missing(s, k)
Filled(s) == ((1 .. Len(s)) \X {0}) \cup UNION {Added(s, k) : k \in 1 .. Len(s)}

LEMMA MissingIs ==
    ASSUME NEW s \in Seq(Entries), NEW k \in 1 .. Len(s)
    PROVE  /\ Missing(s, k) \subseteq s[k].calls
           /\ Missing(s, k) \subseteq Nat \ {0} /\ IsFiniteSet(Missing(s, k))
           /\ \A id \in s[k].calls :
                 id \in Missing(s, k) <=>
                     \A j \in 1 .. Len(s) : s[j].role = "tool" => s[j].of # id
<1>1. DOMAIN s = 1 .. Len(s) /\ s[k] \in Entries
    BY LenIs
<1>2. s[k].calls \in SUBSET (Nat \ {0}) /\ IsFiniteSet(s[k].calls)
    BY <1>1, Fields
<1>3. Missing(s, k) \subseteq s[k].calls
    BY DEF Missing
<1>4. IsFiniteSet(Missing(s, k))
    BY <1>2, <1>3, FS_Subset
<1>5. \A id \in s[k].calls :
          id \in Missing(s, k) <=>
              \A j \in 1 .. Len(s) : s[j].role = "tool" => s[j].of # id
    BY <1>1 DEF Missing
<1>. QED BY <1>2, <1>3, <1>4, <1>5

LEMMA FilledFull ==
    ASSUME NEW s \in Seq(Entries), Full(s)
    PROVE  Arranged(s, Filled(s)) = s
<1>1. \A k \in 1 .. Len(s) : Added(s, k) = {}
    BY DEF Full, Added
<1>2. Filled(s) = (1 .. Len(s)) \X {0}
    BY <1>1 DEF Filled
<1>3. Arranged(s, (1 .. Len(s)) \X {0}) = s
    BY ColumnAll
<1>. QED BY <1>2, <1>3

LEMMA FilledIs ==
    ASSUME NEW s \in Seq(Entries)
    PROVE  /\ Backfilled(s) = Arranged(s, Filled(s))
           /\ Filled(s) \in SUBSET ((1 .. Len(s)) \X Nat)
           /\ IsFiniteSet(Filled(s))
           /\ \A k \in 1 .. Len(s) : <<k, 0>> \in Filled(s)
           /\ \A k \in 1 .. Len(s), id \in Nat :
                 id \in Missing(s, k) => <<RunEnd(s, k), id>> \in Filled(s)
           /\ \A x \in Filled(s) :
                 \/ x[1] \in 1 .. Len(s) /\ x[2] = 0 /\ x = <<x[1], 0>>
                 \/ x[2] # 0 /\ \E k \in 1 .. Len(s) :
                        x[2] \in Missing(s, k) /\ x = <<RunEnd(s, k), x[2]>>
<1>. DEFINE n == Len(s)
<1>1. n \in Nat /\ DOMAIN s = 1 .. n
    BY LenIs
<1>2. Backfilled(s) = Arranged(s, Filled(s))
    <2>1. CASE Full(s)
        <3>1. Arranged(s, Filled(s)) = s
            BY <2>1, FilledFull
        <3>. QED BY <1>1, <2>1, <3>1 DEF Backfilled, Full
    <2>2. CASE ~ Full(s)
        BY <1>1, <2>2 DEF Backfilled, Filled, Added, Full
    <2>. QED BY <2>1, <2>2
<1>3. ASSUME NEW k \in 1 .. n
      PROVE  Added(s, k) \subseteq (1 .. n) \X Nat /\ IsFiniteSet(Added(s, k))
    <2>1. RunEnd(s, k) \in 1 .. n
        <3>1. RunEnd(s, k) \in k .. n
            BY RunEndIs
        <3>. QED BY <1>1, <3>1
    <2>2. Missing(s, k) \subseteq Nat /\ IsFiniteSet(Missing(s, k))
        BY MissingIs
    <2>3. Added(s, k) \subseteq (1 .. n) \X Nat
        BY <2>1, <2>2 DEF Added
    <2>4. IsFiniteSet(Added(s, k))
        <3>. DEFINE M == Missing(s, k)
                    r == RunEnd(s, k)
                    f == [id \in M |-> <<r, id>>]
        <3>. HIDE DEF M, r
        <3>1. f \in [M -> {r} \X M]
            OBVIOUS
        <3>2. \A x \in {r} \X M : \E id \in M : f[id] = x
            OBVIOUS
        <3>. HIDE DEF f
        <3>3. f \in Surjection(M, {r} \X M)
            BY <3>1, <3>2 DEF Surjection
        <3>4. IsFiniteSet({r} \X M)
            BY <2>2, <3>3, FS_Surjection DEF M
        <3>. QED BY <3>4 DEF M, r, Added
    <2>. QED BY <2>3, <2>4
<1>4. (1 .. n) \X {0} \in SUBSET ((1 .. n) \X Nat) /\ IsFiniteSet((1 .. n) \X {0})
    BY PickedFinite
<1>5. Filled(s) = ((1 .. n) \X {0}) \cup UNION {Added(s, k) : k \in 1 .. n}
    BY DEF Filled
<1>. HIDE DEF n
<1>6. Filled(s) \in SUBSET ((1 .. n) \X Nat)
    BY <1>3, <1>4, <1>5
<1>7. IsFiniteSet(Filled(s))
    <2>. DEFINE A == {Added(s, k) : k \in 1 .. n}
                f == [k \in 1 .. n |-> Added(s, k)]
    <2>1. f \in Surjection(1 .. n, A)
        BY DEF Surjection
    <2>2. IsFiniteSet(1 .. n)
        <3>1. 1 \in Int /\ n \in Int
            BY <1>1
        <3>. QED BY <3>1, FS_Interval
    <2>3. \A T \in A : IsFiniteSet(T)
        BY <1>3
    <2>. HIDE DEF A, f
    <2>4. IsFiniteSet(A)
        BY <2>1, <2>2, FS_Surjection
    <2>5. IsFiniteSet(UNION A)
        BY <2>3, <2>4, FS_UNION
    <2>6. Filled(s) = ((1 .. n) \X {0}) \cup UNION A
        BY <1>5 DEF A
    <2>. DEFINE B == UNION A
                C == (1 .. n) \X {0}
    <2>7. IsFiniteSet(B) /\ IsFiniteSet(C) /\ Filled(s) = C \cup B
        BY <1>4, <2>5, <2>6
    <2>. HIDE DEF B, C
    <2>8. IsFiniteSet(C \cup B)
        BY <2>7, FS_Union
    <2>. QED BY <2>7, <2>8
<1>8. \A k \in 1 .. n : <<k, 0>> \in Filled(s)
    BY <1>5
<1>9. \A k \in 1 .. n, id \in Nat :
          id \in Missing(s, k) => <<RunEnd(s, k), id>> \in Filled(s)
    BY <1>5 DEF Added
<1>10. ASSUME NEW x \in Filled(s)
       PROVE  \/ x[1] \in 1 .. n /\ x[2] = 0 /\ x = <<x[1], 0>>
              \/ x[2] # 0 /\ \E k \in 1 .. n :
                     x[2] \in Missing(s, k) /\ x = <<RunEnd(s, k), x[2]>>
    <2>1. CASE x \in (1 .. n) \X {0}
        BY <2>1
    <2>2. CASE \E k \in 1 .. n : x \in Added(s, k)
        <3>1. PICK k \in 1 .. n : x \in Added(s, k)
            BY <2>2
        <3>2. x[2] \in Missing(s, k) /\ x = <<RunEnd(s, k), x[2]>>
            BY <3>1 DEF Added
        <3>3. x[2] # 0
            BY <3>2, MissingIs DEF n
        <3>. QED BY <3>2, <3>3
    <2>. QED BY <1>5, <2>1, <2>2
<1>. QED BY <1>2, <1>6, <1>7, <1>8, <1>9, <1>10 DEF n

\* Nothing is put in where nothing is missing.
LEMMA BackfilledFull ==
    ASSUME NEW s \in Seq(Entries), Full(s)
    PROVE  Backfilled(s) = s
BY FilledFull, FilledIs

\* With the missing results a conversation is still one, and each call has its
\* result.
LEMMA BackfilledTidy ==
    ASSUME NEW s \in Seq(Entries), Tidy(s)
    PROVE  /\ Backfilled(s) \in Seq(Entries)
           /\ Tidy(Backfilled(s))
           /\ Full(Backfilled(s))
           /\ Calls(Backfilled(s)) = Calls(s)
<1>. DEFINE S == Filled(s)
            q == Backfilled(s)
            n == Cardinality(S)
<1>1. Len(s) \in Nat /\ \A k \in 1 .. Len(s) : s[k] \in Entries
    BY LenIs
<1>2. /\ q = Arranged(s, S)
      /\ S \in SUBSET ((1 .. Len(s)) \X Nat)
      /\ IsFiniteSet(S)
      /\ \A k \in 1 .. Len(s) : <<k, 0>> \in S
      /\ \A k \in 1 .. Len(s), id \in Nat :
            id \in Missing(s, k) => <<RunEnd(s, k), id>> \in S
      /\ \A x \in S :
            \/ x[1] \in 1 .. Len(s) /\ x[2] = 0 /\ x = <<x[1], 0>>
            \/ x[2] # 0 /\ \E k \in 1 .. Len(s) :
                   x[2] \in Missing(s, k) /\ x = <<RunEnd(s, k), x[2]>>
    BY FilledIs
<1>. HIDE DEF S, q
<1>3. /\ q \in Seq(Entries) /\ Len(q) = n /\ n \in Nat
      /\ \E e \in [1 .. n -> S] :
            /\ \A i, j \in 1 .. n : i < j <=> Precedes(e[i], e[j])
            /\ \A x \in S : \E i \in 1 .. n : e[i] = x
            /\ \A i \in 1 .. n : q[i] = Item(s, e[i])
    <2>1. /\ Arranged(s, S) \in Seq(Entries) /\ Len(Arranged(s, S)) = n /\ n \in Nat
          /\ \E e \in [1 .. n -> S] :
                /\ \A i, j \in 1 .. n : i < j <=> Precedes(e[i], e[j])
                /\ \A x \in S : \E i \in 1 .. n : e[i] = x
                /\ \A i \in 1 .. n : Arranged(s, S)[i] = Item(s, e[i])
        BY <1>2, ArrangedIs
    <2>. QED BY <1>2, <2>1
<1>4. PICK e \in [1 .. n -> S] :
            /\ \A i, j \in 1 .. n : i < j <=> Precedes(e[i], e[j])
            /\ \A x \in S : \E i \in 1 .. n : e[i] = x
            /\ \A i \in 1 .. n : q[i] = Item(s, e[i])
    BY <1>3
<1>. HIDE DEF n
\* A slot holds a message of s or a result that is missing there.
<1>. DEFINE Old(i) == /\ e[i][1] \in 1 .. Len(s) /\ e[i] = <<e[i][1], 0>>
                      /\ q[i] = s[e[i][1]]
            New(i, k) == /\ k \in 1 .. Len(s) /\ e[i][2] \in Missing(s, k)
                         /\ e[i] = <<RunEnd(s, k), e[i][2]>>
                         /\ e[i][2] \in s[k].calls /\ e[i][2] \in Nat \ {0}
                         /\ q[i].role = "tool" /\ q[i].of = e[i][2] /\ q[i].calls = {}
<1>5. \A i \in 1 .. n : Old(i) \/ \E k \in 1 .. Len(s) : New(i, k)
    <2>1. TAKE i \in 1 .. n
    <2>2. e[i] \in S /\ q[i] = Item(s, e[i])
        BY <1>4
    <2>3. CASE e[i][1] \in 1 .. Len(s) /\ e[i][2] = 0 /\ e[i] = <<e[i][1], 0>>
        BY <2>2, <2>3 DEF Item
    <2>4. CASE e[i][2] # 0 /\ \E k \in 1 .. Len(s) :
                   e[i][2] \in Missing(s, k) /\ e[i] = <<RunEnd(s, k), e[i][2]>>
        <3>1. PICK k \in 1 .. Len(s) :
                   e[i][2] \in Missing(s, k) /\ e[i] = <<RunEnd(s, k), e[i][2]>>
            BY <2>4
        <3>2. e[i][2] \in s[k].calls /\ e[i][2] \in Nat \ {0}
            BY <3>1, MissingIs
        <3>3. q[i] = Result(e[i][2], "small")
            BY <2>2, <2>4 DEF Item
        <3>4. q[i].role = "tool" /\ q[i].of = e[i][2] /\ q[i].calls = {}
            BY <3>2, <3>3, ShortIs
        <3>. QED BY <3>1, <3>2, <3>4
    <2>. QED BY <1>2, <2>2, <2>3, <2>4
<1>6. \A i, j \in 1 .. n : e[i] = e[j] => i = j
    <2>1. TAKE i, j \in 1 .. n
    <2>2. HAVE e[i] = e[j]
    <2>3. i < j <=> j < i
        BY <1>4, <2>2
    <2>4. i \in Nat /\ j \in Nat
        BY <1>3
    <2>. QED BY <2>3, <2>4
<1>7. \A i \in 1 .. n : q[i].calls # {} => Old(i) /\ s[e[i][1]].calls # {}
    BY <1>5
<1>. HIDE DEF Old, New
<1>17. ASSUME NEW i \in 1 .. n, NEW j \in 1 .. n, Old(i), Old(j), i # j
       PROVE  e[i][1] # e[j][1]
    <2>1. e[i] = <<e[i][1], 0>> /\ e[j] = <<e[j][1], 0>>
        BY <1>17 DEF Old
    <2>2. e[i] # e[j]
        BY <1>6, <1>17
    <2>. QED BY <2>1, <2>2
<1>8. \A i, j \in 1 .. Len(q) : i # j => q[i].calls \cap q[j].calls = {}
    <2>1. TAKE i, j \in 1 .. Len(q)
    <2>2. HAVE i # j
    <2>3. i \in 1 .. n /\ j \in 1 .. n
        BY <1>3
    <2>4. CASE q[i].calls = {} \/ q[j].calls = {}
        BY <2>4
    <2>5. CASE Old(i) /\ Old(j)
        <3>1. e[i][1] # e[j][1]
            BY <1>17, <2>2, <2>3, <2>5
        <3>. QED BY <2>5, <3>1 DEF Old, Tidy, Sane
    <2>. QED BY <1>7, <2>3, <2>4, <2>5
<1>9. \A i, j \in 1 .. Len(q) :
          i # j /\ q[i].role = "tool" /\ q[j].role = "tool" => q[i].of # q[j].of
    <2>1. TAKE i, j \in 1 .. Len(q)
    <2>2. HAVE i # j /\ q[i].role = "tool" /\ q[j].role = "tool"
    <2>3. i \in 1 .. n /\ j \in 1 .. n
        BY <1>3
    <2>4. CASE Old(i) /\ Old(j)
        <3>1. e[i][1] # e[j][1]
            BY <1>17, <2>2, <2>3, <2>4
        <3>. QED BY <2>2, <2>4, <3>1 DEF Old, Tidy, Sane
    <2>5. ASSUME NEW g \in 1 .. n, NEW h \in 1 .. n, NEW k \in 1 .. Len(s),
                 Old(g), New(h, k), q[g].role = "tool"
          PROVE  q[g].of # q[h].of
        <3>1. e[g][1] \in 1 .. Len(s) /\ q[g] = s[e[g][1]]
            BY <2>5 DEF Old
        <3>2. q[h].of \in Missing(s, k) /\ q[h].of \in s[k].calls
            BY <2>5 DEF New
        <3>3. s[e[g][1]].of # q[h].of
            BY <2>5, <3>1, <3>2, MissingIs
        <3>. QED BY <3>1, <3>3
    <2>6. ASSUME NEW k \in 1 .. Len(s), NEW l \in 1 .. Len(s), New(i, k), New(j, l),
                 q[i].of = q[j].of
          PROVE  FALSE
        <3>1. e[i][2] = e[j][2] /\ e[i][2] \in s[k].calls /\ e[j][2] \in s[l].calls
            BY <2>6 DEF New
        <3>2. k = l
            BY <3>1 DEF Tidy, Sane
        <3>3. e[i] = e[j]
            BY <2>6, <3>1, <3>2 DEF New
        <3>. QED BY <1>6, <2>2, <2>3, <3>3
    <2>7. ASSUME NEW k \in 1 .. Len(s), New(i, k)
          PROVE  q[i].of # q[j].of
        BY <1>5, <2>2, <2>3, <2>5, <2>6, <2>7
    <2>8. ASSUME NEW k \in 1 .. Len(s), New(j, k), Old(i)
          PROVE  q[i].of # q[j].of
        BY <2>2, <2>3, <2>5, <2>8
    <2>. QED BY <1>5, <2>3, <2>4, <2>7, <2>8
<1>10. ASSUME NEW j \in 1 .. n, NEW h \in 1 .. n, Old(j), e[j] = <<e[j][1], 0>>,
              NEW m \in 1 .. Len(s), Between(s, e[j][1], m),
              Precedes(e[j], e[h]), e[h][1] <= m
       PROVE  q[h].role = "tool"
    <2>1. CASE \E k \in 1 .. Len(s) : New(h, k)
        BY <2>1 DEF New
    <2>2. CASE Old(h)
        <3>1. e[h][1] \in 1 .. Len(s) /\ e[h][2] = 0 /\ q[h] = s[e[h][1]]
            BY <2>2 DEF Old
        <3>2. e[j][1] \in 1 .. Len(s) /\ e[j][2] = 0
            BY <1>10 DEF Old
        <3>3. e[j][1] < e[h][1]
            BY <1>10, <3>1, <3>2 DEF Precedes
        <3>4. e[h][1] \in e[j][1] + 1 .. m
            BY <1>1, <1>10, <3>1, <3>2, <3>3
        <3>. QED BY <1>10, <3>1, <3>4 DEF Between
    <2>. QED BY <1>5, <2>1, <2>2
<1>11. \A j, k \in 1 .. Len(q) :
          q[k].role = "tool" /\ j < k /\ q[k].of \in q[j].calls =>
              \A h \in j + 1 .. k - 1 : q[h].role = "tool"
    <2>1. TAKE j, k \in 1 .. Len(q)
    <2>2. HAVE q[k].role = "tool" /\ j < k /\ q[k].of \in q[j].calls
    <2>3. TAKE h \in j + 1 .. k - 1
    <2>4. h \in 1 .. n /\ j < h /\ h < k /\ j \in 1 .. n /\ k \in 1 .. n
        BY <1>3, <2>1, <2>2, <2>3
    <2>5. Precedes(e[j], e[h]) /\ Precedes(e[h], e[k]) /\ Precedes(e[j], e[k])
        BY <1>4, <2>2, <2>4
    <2>6. Old(j) /\ e[j][1] \in 1 .. Len(s) /\ e[j] = <<e[j][1], 0>> /\ q[j] = s[e[j][1]]
        BY <1>7, <2>2, <2>4 DEF Old
    <2>7. CASE Old(k)
        <3>1. e[k][1] \in 1 .. Len(s) /\ e[k][2] = 0 /\ q[k] = s[e[k][1]] /\ e[j][2] = 0
            BY <2>6, <2>7 DEF Old
        <3>2. e[j][1] < e[k][1]
            BY <1>1, <2>5, <2>6, <3>1 DEF Precedes
        <3>3. \A g \in e[j][1] + 1 .. e[k][1] - 1 : s[g].role = "tool"
            BY <2>2, <2>6, <3>1, <3>2 DEF Tidy, Sane
        <3>4. Between(s, e[j][1], e[k][1])
            <4>1. \A g \in e[j][1] + 1 .. e[k][1] : g = e[k][1] \/ g \in e[j][1] + 1 .. e[k][1] - 1
                BY <1>1, <2>6, <3>1
            <4>. QED BY <2>2, <3>1, <3>3, <4>1 DEF Between
        <3>5. e[h] \in S
            BY <1>4, <2>4
        <3>6. e[h][1] \in Nat
            BY <1>1, <1>2, <3>5
        <3>7. e[h][1] <= e[k][1]
            BY <1>1, <2>5, <3>1, <3>6 DEF Precedes
        <3>. QED BY <1>10, <2>4, <2>5, <2>6, <3>1, <3>4, <3>7
    <2>8. ASSUME NEW l \in 1 .. Len(s), New(k, l)
          PROVE  q[h].role = "tool"
        <3>1. q[k].of \in s[l].calls /\ e[k][1] = RunEnd(s, l) /\ q[k].of \in s[e[j][1]].calls
            BY <2>2, <2>6, <2>8 DEF New
        <3>2. l = e[j][1]
            BY <2>6, <3>1 DEF Tidy, Sane
        <3>3. RunEnd(s, l) \in l .. Len(s) /\ Between(s, l, RunEnd(s, l))
            BY RunEndIs
        <3>4. RunEnd(s, l) \in 1 .. Len(s)
            BY <1>1, <3>3
        <3>5. e[h] \in S
            BY <1>4, <2>4
        <3>6. e[h][1] \in Nat
            BY <1>1, <1>2, <3>5
        <3>7. e[h][1] <= RunEnd(s, l)
            BY <1>1, <2>5, <3>1, <3>4, <3>6 DEF Precedes
        <3>. QED BY <1>10, <2>4, <2>5, <2>6, <3>2, <3>3, <3>4, <3>7
    <2>. QED BY <1>5, <2>4, <2>7, <2>8
<1>12. ASSUME NEW k \in 1 .. Len(s)
       PROVE  \E i \in 1 .. n : e[i] = <<k, 0>> /\ q[i] = s[k]
    <2>1. PICK i \in 1 .. n : e[i] = <<k, 0>>
        BY <1>2, <1>4
    <2>2. q[i] = s[k]
        BY <1>4, <2>1 DEF Item
    <2>. QED BY <2>1, <2>2
<1>13. LegalFrom(q, 1)
    <2>1. SUFFICES ASSUME NEW k \in 1 .. n, q[k].role = "tool"
                   PROVE  \E j \in 1 .. k - 1 : q[k].of \in q[j].calls
        BY <1>3 DEF LegalFrom
    <2>2. ASSUME NEW p \in 1 .. Len(s), q[k].of \in s[p].calls, Precedes(<<p, 0>>, e[k])
          PROVE  \E j \in 1 .. k - 1 : q[k].of \in q[j].calls
        <3>1. PICK j \in 1 .. n : e[j] = <<p, 0>> /\ q[j] = s[p]
            BY <1>12
        <3>2. j < k
            BY <1>4, <2>2, <3>1
        <3>3. j \in 1 .. k - 1
            BY <1>3, <3>2
        <3>. QED BY <2>2, <3>1, <3>3
    <2>3. CASE Old(k)
        <3>1. e[k][1] \in 1 .. Len(s) /\ q[k] = s[e[k][1]] /\ e[k] = <<e[k][1], 0>>
            BY <2>3 DEF Old
        <3>2. PICK p \in 1 .. e[k][1] - 1 : s[e[k][1]].of \in s[p].calls
            BY <2>1, <3>1 DEF Tidy, LegalFrom
        <3>3. p \in 1 .. Len(s) /\ p < e[k][1]
            BY <1>1, <3>1, <3>2
        <3>4. Precedes(<<p, 0>>, e[k])
            BY <3>1, <3>3 DEF Precedes
        <3>. QED BY <2>2, <3>1, <3>2, <3>3, <3>4
    <2>4. ASSUME NEW l \in 1 .. Len(s), New(k, l)
          PROVE  \E j \in 1 .. k - 1 : q[k].of \in q[j].calls
        <3>1. q[k].of \in s[l].calls /\ e[k] = <<RunEnd(s, l), e[k][2]>> /\ e[k][2] \in Nat \ {0}
            BY <2>4 DEF New
        <3>2. RunEnd(s, l) \in l .. Len(s)
            BY RunEndIs
        <3>3. l \in Nat /\ (l < RunEnd(s, l) \/ l = RunEnd(s, l)) /\ 0 < e[k][2]
            BY <1>1, <3>1, <3>2
        <3>4. Precedes(<<l, 0>>, e[k])
            BY <3>1, <3>3 DEF Precedes
        <3>. QED BY <2>2, <3>1, <3>4
    <2>. QED BY <1>5, <2>3, <2>4
<1>14. Full(q)
    <2>1. DOMAIN q = 1 .. n
        BY <1>3, LenIs
    <2>2. SUFFICES ASSUME NEW k \in 1 .. n, NEW id \in q[k].calls
                   PROVE  \E j \in 1 .. n : q[j].role = "tool" /\ q[j].of = id
        BY <1>3, <2>1 DEF Full, Missing
    <2>. DEFINE p == e[k][1]
    <2>3. p \in 1 .. Len(s) /\ id \in s[p].calls
        BY <1>7, <2>2 DEF Old
    <2>. HIDE DEF p
    <2>4. CASE id \in Missing(s, p)
        <3>1. id \in Nat \ {0}
            BY <2>3, <2>4, MissingIs
        <3>2. <<RunEnd(s, p), id>> \in S
            BY <1>2, <2>3, <2>4, <3>1
        <3>3. PICK j \in 1 .. n : e[j] = <<RunEnd(s, p), id>>
            BY <1>4, <3>2
        <3>4. q[j] = Result(id, "small")
            BY <1>4, <3>1, <3>3 DEF Item
        <3>. QED BY <3>1, <3>4, ShortIs
    <2>5. CASE id \notin Missing(s, p)
        <3>1. PICK i \in 1 .. Len(s) : s[i].role = "tool" /\ s[i].of = id
            BY <2>3, <2>5, MissingIs
        <3>2. PICK j \in 1 .. n : q[j] = s[i]
            BY <1>12
        <3>. QED BY <3>1, <3>2
    <2>. QED BY <2>4, <2>5
<1>15. Calls(q) = Calls(s)
    <2>1. Calls(q) \subseteq Calls(s)
        <3>1. SUFFICES ASSUME NEW k \in 1 .. n, NEW id \in q[k].calls
                       PROVE  id \in Calls(s)
            BY <1>3 DEF Calls
        <3>2. e[k][1] \in 1 .. Len(s) /\ id \in s[e[k][1]].calls
            BY <1>7, <3>1 DEF Old
        <3>. QED BY <3>2 DEF Calls
    <2>2. Calls(s) \subseteq Calls(q)
        <3>1. SUFFICES ASSUME NEW k \in 1 .. Len(s), NEW id \in s[k].calls
                       PROVE  id \in Calls(q)
            BY DEF Calls
        <3>2. PICK j \in 1 .. n : q[j] = s[k]
            BY <1>12
        <3>3. j \in 1 .. Len(q) /\ id \in q[j].calls
            BY <1>3, <3>1, <3>2
        <3>. QED BY <3>3 DEF Calls
    <2>. QED BY <2>1, <2>2
<1>16. Tidy(q)
    BY <1>8, <1>9, <1>11, <1>13 DEF Tidy, Sane
<1>. QED BY <1>3, <1>14, <1>15, <1>16 DEF q

\* A result never comes first.
LEMMA TidyFirst ==
    ASSUME NEW s \in Seq(Entries), Tidy(s), Len(s) >= 1
    PROVE  s[1].role # "tool"
<1>1. 1 \in 1 .. Len(s)
    BY LenIs
<1>2. \A j \in 1 .. 1 - 1 : FALSE
    OBVIOUS
<1>. QED BY <1>1, <1>2 DEF Tidy, LegalFrom

LEMMA ResultsDeclared ==
    ASSUME NEW s \in Seq(Entries), Tidy(s), NEW k \in 1 .. Len(s), s[k].role = "tool"
    PROVE  s[k].of \in Calls(s)
<1>1. PICK j \in 1 .. k - 1 : s[k].of \in s[j].calls
    BY DEF Tidy, LegalFrom
<1>2. j \in 1 .. Len(s)
    BY <1>1, LenIs
<1>. QED BY <1>1, <1>2 DEF Calls

\* What is missing in a part is missing in the whole.
LEMMA BackfilledConcat ==
    ASSUME NEW a \in Seq(Entries), NEW b \in Seq(Entries), Tidy(a), Tidy(b),
           Calls(a) \cap Calls(b) = {}
    PROVE  Backfilled(a \o b) = Backfilled(a) \o Backfilled(b)
<1>. DEFINE n == Len(a)
            m == Len(b)
            t == a \o b
<1>1. n \in Nat /\ m \in Nat
    BY LenIs
<1>2. /\ t \in Seq(Entries)
      /\ Len(t) = n + m
      /\ \A i \in 1 .. n : t[i] = a[i]
      /\ \A i \in 1 .. m : t[n + i] = b[i]
    BY ConcatIs
<1>3. \A i \in 1 .. n + m : i \in 1 .. n \/ (i > n /\ i - n \in 1 .. m)
    BY ConcatIs
<1>4. \A k \in 1 .. n : a[k].calls \subseteq Calls(a)
    BY DEF Calls
<1>5. \A k \in 1 .. m : b[k].calls \subseteq Calls(b)
    BY DEF Calls
<1>6. \A k \in 1 .. n : a[k].role = "tool" => a[k].of \in Calls(a)
    BY ResultsDeclared
<1>7. \A k \in 1 .. m : b[k].role = "tool" => b[k].of \in Calls(b)
    BY ResultsDeclared
<1>8. m >= 1 => b[1].role # "tool"
    BY TidyFirst
<1>9. /\ \A k \in 1 .. n : RunEnd(a, k) \in k .. n /\ Between(a, k, RunEnd(a, k))
                           /\ \A j \in k .. n : Between(a, k, j) => j <= RunEnd(a, k)
      /\ \A k \in 1 .. m : RunEnd(b, k) \in k .. m /\ Between(b, k, RunEnd(b, k))
                           /\ \A j \in k .. m : Between(b, k, j) => j <= RunEnd(b, k)
    BY RunEndIs
<1>. HIDE DEF t
<1>10. \A i \in 1 .. n + m :
          \/ i \in 1 .. n /\ t[i] = a[i]
          \/ i > n /\ i - n \in 1 .. m /\ t[i] = b[i - n] /\ i = n + (i - n)
    <2>1. TAKE i \in 1 .. n + m
    <2>2. CASE i \in 1 .. n
        BY <1>2, <2>2
    <2>3. CASE i > n /\ i - n \in 1 .. m
        <3>1. n + (i - n) = i
            BY <1>1
        <3>. QED BY <1>2, <2>3, <3>1
    <2>. QED BY <1>3, <2>2, <2>3
<1>. HIDE DEF n, m
<1>11. /\ \A i \in 1 .. n : i \in 1 .. n + m
       /\ \A i \in 1 .. m : n + i \in 1 .. n + m
    BY <1>1
<1>17. \A h \in 1 .. Len(t) : \A id \in t[h].calls :
           id \in Missing(t, h) <=>
               \A j \in 1 .. Len(t) : t[j].role = "tool" => t[j].of # id
    BY <1>2, MissingIs
<1>12. ASSUME NEW k \in 1 .. n
       PROVE  RunEnd(t, k) = RunEnd(a, k) /\ Missing(t, k) = Missing(a, k)
    <2>. DEFINE r == RunEnd(a, k)
    <2>1. r \in k .. n /\ Between(a, k, r) /\ k \in Nat
        BY <1>1, <1>9
    <2>2. r < n => a[r + 1].role # "tool"
        <3>1. SUFFICES ASSUME r < n, a[r + 1].role = "tool"
                       PROVE  FALSE
            OBVIOUS
        <3>2. r + 1 \in k .. n /\ ~ (r + 1 <= r)
            BY <1>1, <2>1, <3>1
        <3>3. \A h \in k + 1 .. r + 1 : h = r + 1 \/ h \in k + 1 .. r
            BY <1>1, <2>1
        <3>4. Between(a, k, r + 1)
            BY <2>1, <3>1, <3>3 DEF Between
        <3>. QED BY <1>9, <3>2, <3>4
    <2>. HIDE DEF r
    <2>3. Between(t, k, r)
        <3>1. \A h \in k + 1 .. r : h \in 1 .. n
            BY <1>1, <2>1
        <3>. QED BY <1>2, <2>1, <3>1 DEF Between
    <2>4. r < Len(t) => t[r + 1].role # "tool"
        <3>1. CASE r < n
            <4>1. r + 1 \in 1 .. n
                BY <1>1, <2>1, <3>1
            <4>. QED BY <1>2, <2>2, <3>1, <4>1
        <3>2. CASE r = n /\ m >= 1
            <4>1. 1 \in 1 .. m
                BY <1>1, <3>2
            <4>. QED BY <1>2, <1>8, <3>2, <4>1
        <3>3. r < Len(t) => r < n \/ (r = n /\ m >= 1)
            BY <1>1, <1>2, <2>1
        <3>. QED BY <3>1, <3>2, <3>3
    <2>5. k \in 1 .. Len(t) /\ r \in k .. Len(t)
        BY <1>1, <1>2, <2>1
    <2>6. RunEnd(t, k) = r
        BY <1>2, <2>3, <2>4, <2>5, RunEndEquals
    <2>7. Missing(t, k) = Missing(a, k)
        <3>1. t[k].calls = a[k].calls
            BY <1>2
        <3>2. ASSUME NEW id \in a[k].calls
              PROVE  id \in Missing(t, k) <=> id \in Missing(a, k)
            <4>1. id \in Calls(a) /\ id \notin Calls(b)
                BY <1>4, <3>2
            <4>2. \A j \in 1 .. m : b[j].role = "tool" => b[j].of # id
                BY <1>7, <4>1
            <4>3. (\A j \in 1 .. Len(t) : t[j].role = "tool" => t[j].of # id)
                    <=> (\A j \in 1 .. n : a[j].role = "tool" => a[j].of # id)
                <5>1. ASSUME NEW j \in 1 .. Len(t), t[j].role = "tool", t[j].of = id
                      PROVE  \E i \in 1 .. n : a[i].role = "tool" /\ a[i].of = id
                    BY <1>2, <1>10, <4>2, <5>1
                <5>2. ASSUME NEW j \in 1 .. n, a[j].role = "tool", a[j].of = id
                      PROVE  \E i \in 1 .. Len(t) : t[i].role = "tool" /\ t[i].of = id
                    <6>1. j \in 1 .. Len(t) /\ t[j] = a[j]
                        BY <1>2, <1>11
                    <6>. QED BY <5>2, <6>1
                <5>. QED BY <5>1, <5>2
            <4>4. id \in Missing(t, k) <=>
                      \A j \in 1 .. Len(t) : t[j].role = "tool" => t[j].of # id
                BY <1>17, <2>5, <3>1, <3>2
            <4>5. id \in Missing(a, k) <=>
                      \A j \in 1 .. n : a[j].role = "tool" => a[j].of # id
                BY <3>2, MissingIs DEF n
            <4>. QED BY <4>3, <4>4, <4>5
        <3>3. Missing(t, k) \subseteq t[k].calls /\ Missing(a, k) \subseteq a[k].calls
            BY DEF Missing
        <3>. QED BY <3>1, <3>2, <3>3
    <2>. QED BY <2>6, <2>7 DEF r
<1>13. ASSUME NEW k \in 1 .. m
       PROVE  RunEnd(t, n + k) = n + RunEnd(b, k) /\ Missing(t, n + k) = Missing(b, k)
    <2>. DEFINE r == RunEnd(b, k)
    <2>1. r \in k .. m /\ Between(b, k, r) /\ k \in Nat
        BY <1>1, <1>9
    <2>2. r < m => b[r + 1].role # "tool"
        <3>1. SUFFICES ASSUME r < m, b[r + 1].role = "tool"
                       PROVE  FALSE
            OBVIOUS
        <3>2. r + 1 \in k .. m /\ ~ (r + 1 <= r)
            BY <1>1, <2>1, <3>1
        <3>3. \A h \in k + 1 .. r + 1 : h = r + 1 \/ h \in k + 1 .. r
            BY <1>1, <2>1
        <3>4. Between(b, k, r + 1)
            BY <2>1, <3>1, <3>3 DEF Between
        <3>. QED BY <1>9, <3>2, <3>4
    <2>. HIDE DEF r
    <2>3. Between(t, n + k, n + r)
        <3>1. SUFFICES ASSUME NEW h \in n + k + 1 .. n + r
                       PROVE  t[h].role = "tool"
            BY DEF Between
        <3>2. h - n \in k + 1 .. r /\ h - n \in 1 .. m /\ n + (h - n) = h
            BY <1>1, <2>1
        <3>. QED BY <1>2, <2>1, <3>2 DEF Between
    <2>4. n + r < Len(t) => t[(n + r) + 1].role # "tool"
        <3>1. SUFFICES ASSUME n + r < Len(t)
                       PROVE  t[(n + r) + 1].role # "tool"
            OBVIOUS
        <3>2. r < m /\ r + 1 \in 1 .. m /\ (n + r) + 1 = n + (r + 1)
            BY <1>1, <1>2, <2>1, <3>1
        <3>. QED BY <1>2, <2>2, <3>2
    <2>5. n + k \in 1 .. Len(t) /\ n + r \in n + k .. Len(t)
        BY <1>1, <1>2, <2>1
    <2>6. RunEnd(t, n + k) = n + r
        BY <1>2, <2>3, <2>4, <2>5, RunEndEquals
    <2>7. Missing(t, n + k) = Missing(b, k)
        <3>1. t[n + k].calls = b[k].calls
            BY <1>2
        <3>2. ASSUME NEW id \in b[k].calls
              PROVE  id \in Missing(t, n + k) <=> id \in Missing(b, k)
            <4>1. id \in Calls(b) /\ id \notin Calls(a)
                BY <1>5, <3>2
            <4>2. \A j \in 1 .. n : a[j].role = "tool" => a[j].of # id
                BY <1>6, <4>1
            <4>3. (\A j \in 1 .. Len(t) : t[j].role = "tool" => t[j].of # id)
                    <=> (\A j \in 1 .. m : b[j].role = "tool" => b[j].of # id)
                <5>1. ASSUME NEW j \in 1 .. Len(t), t[j].role = "tool", t[j].of = id
                      PROVE  \E i \in 1 .. m : b[i].role = "tool" /\ b[i].of = id
                    BY <1>2, <1>10, <4>2, <5>1
                <5>2. ASSUME NEW j \in 1 .. m, b[j].role = "tool", b[j].of = id
                      PROVE  \E i \in 1 .. Len(t) : t[i].role = "tool" /\ t[i].of = id
                    <6>1. n + j \in 1 .. Len(t) /\ t[n + j] = b[j]
                        BY <1>2, <1>11
                    <6>. QED BY <5>2, <6>1
                <5>. QED BY <5>1, <5>2
            <4>4. id \in Missing(t, n + k) <=>
                      \A j \in 1 .. Len(t) : t[j].role = "tool" => t[j].of # id
                BY <1>17, <2>5, <3>1, <3>2
            <4>5. id \in Missing(b, k) <=>
                      \A j \in 1 .. m : b[j].role = "tool" => b[j].of # id
                BY <3>2, MissingIs DEF m
            <4>. QED BY <4>3, <4>4, <4>5
        <3>3. Missing(t, n + k) \subseteq t[n + k].calls /\ Missing(b, k) \subseteq b[k].calls
            BY DEF Missing
        <3>. QED BY <3>1, <3>2, <3>3
    <2>. QED BY <2>6, <2>7 DEF r
<1>14. Filled(t) = Filled(a) \cup Shifted(Filled(b), n)
    <2>1. \A x : x \in Filled(t) <=>
              \/ \E k \in 1 .. n + m : x = <<k, 0>>
              \/ \E k \in 1 .. n + m : \E id \in Missing(t, k) : x = <<RunEnd(t, k), id>>
        BY <1>2 DEF Filled, Added
    <2>2. \A x : x \in Filled(a) <=>
              \/ \E k \in 1 .. n : x = <<k, 0>>
              \/ \E k \in 1 .. n : \E id \in Missing(a, k) : x = <<RunEnd(a, k), id>>
        BY DEF Filled, Added, n
    <2>3. \A x : x \in Filled(b) <=>
              \/ \E k \in 1 .. m : x = <<k, 0>>
              \/ \E k \in 1 .. m : \E id \in Missing(b, k) : x = <<RunEnd(b, k), id>>
        BY DEF Filled, Added, m
    <2>4. \A x : x \in Shifted(Filled(b), n) <=>
              \/ \E k \in 1 .. m : x = <<n + k, 0>>
              \/ \E k \in 1 .. m : \E id \in Missing(b, k) : x = <<n + RunEnd(b, k), id>>
        <3>1. TAKE x
        <3>2. ASSUME x \in Shifted(Filled(b), n)
              PROVE  \/ \E k \in 1 .. m : x = <<n + k, 0>>
                     \/ \E k \in 1 .. m : \E id \in Missing(b, k) : x = <<n + RunEnd(b, k), id>>
            <4>1. PICK y \in Filled(b) : x = <<n + y[1], y[2]>>
                BY <3>2 DEF Shifted
            <4>2. CASE \E k \in 1 .. m : y = <<k, 0>>
                BY <4>1, <4>2
            <4>3. CASE \E k \in 1 .. m : \E id \in Missing(b, k) : y = <<RunEnd(b, k), id>>
                BY <4>1, <4>3
            <4>. QED BY <2>3, <4>2, <4>3
        <3>3. ASSUME NEW y \in Filled(b)
              PROVE  <<n + y[1], y[2]>> \in Shifted(Filled(b), n)
            BY DEF Shifted
        <3>4. ASSUME NEW k \in 1 .. m
              PROVE  <<n + k, 0>> \in Shifted(Filled(b), n)
            <4>1. <<k, 0>> \in Filled(b) /\ <<n + k, 0>> = <<n + <<k, 0>>[1], <<k, 0>>[2]>>
                BY <2>3
            <4>. QED BY <4>1 DEF Shifted
        <3>5. ASSUME NEW k \in 1 .. m, NEW id \in Missing(b, k)
              PROVE  <<n + RunEnd(b, k), id>> \in Shifted(Filled(b), n)
            <4>. DEFINE y == <<RunEnd(b, k), id>>
            <4>1. y \in Filled(b)
                BY <2>3
            <4>2. y[1] = RunEnd(b, k) /\ y[2] = id
                OBVIOUS
            <4>. HIDE DEF y
            <4>3. <<n + y[1], y[2]>> \in Shifted(Filled(b), n)
                BY <3>3, <4>1
            <4>. QED BY <4>2, <4>3
        <3>. QED BY <3>2, <3>4, <3>5
    <2>5. ASSUME NEW x \in Filled(t)
          PROVE  x \in Filled(a) \cup Shifted(Filled(b), n)
        <3>1. ASSUME NEW k \in 1 .. n + m, x = <<k, 0>>
              PROVE  x \in Filled(a) \cup Shifted(Filled(b), n)
            <4>1. CASE k \in 1 .. n
                BY <2>2, <3>1, <4>1
            <4>2. CASE k - n \in 1 .. m /\ k = n + (k - n)
                BY <2>4, <3>1, <4>2
            <4>. QED BY <1>10, <4>1, <4>2
        <3>2. ASSUME NEW k \in 1 .. n + m, NEW id \in Missing(t, k), x = <<RunEnd(t, k), id>>
              PROVE  x \in Filled(a) \cup Shifted(Filled(b), n)
            <4>1. CASE k \in 1 .. n
                BY <1>12, <2>2, <3>2, <4>1
            <4>2. CASE k - n \in 1 .. m /\ k = n + (k - n)
                <5>1. x = <<n + RunEnd(b, k - n), id>> /\ id \in Missing(b, k - n)
                    BY <1>13, <3>2, <4>2
                <5>. QED BY <2>4, <4>2, <5>1
            <4>. QED BY <1>10, <4>1, <4>2
        <3>. QED BY <2>1, <3>1, <3>2
    <2>6. ASSUME NEW x \in Filled(a)
          PROVE  x \in Filled(t)
        BY <1>11, <1>12, <2>1, <2>2
    <2>7. ASSUME NEW x \in Shifted(Filled(b), n)
          PROVE  x \in Filled(t)
        BY <1>11, <1>13, <2>1, <2>4
    <2>. QED BY <2>5, <2>6, <2>7
<1>15. /\ Filled(a) \in SUBSET ((1 .. Len(a)) \X Nat) /\ IsFiniteSet(Filled(a))
       /\ Filled(b) \in SUBSET ((1 .. Len(b)) \X Nat) /\ IsFiniteSet(Filled(b))
       /\ Backfilled(a) = Arranged(a, Filled(a)) /\ Backfilled(b) = Arranged(b, Filled(b))
       /\ Backfilled(t) = Arranged(t, Filled(t))
    BY <1>2, FilledIs
<1>. DEFINE S == Filled(a)
            T == Filled(b)
<1>. HIDE DEF S, T
<1>16. Arranged(a \o b, S \cup Shifted(T, Len(a))) = Arranged(a, S) \o Arranged(b, T)
    <2>1. /\ S \in SUBSET ((1 .. Len(a)) \X Nat) /\ IsFiniteSet(S)
          /\ T \in SUBSET ((1 .. Len(b)) \X Nat) /\ IsFiniteSet(T)
        BY <1>15 DEF S, T
    <2>. QED BY <2>1, ArrangedConcat, SMTT(60)
<1>. QED BY <1>14, <1>15, <1>16 DEF S, T, n, t
-----------------------------------------------------------------------------
(* Governance of a conversation *)

\* No result is an orphan.
LEMMA NoOrphansIs ==
    ASSUME NEW s \in Seq(Entries), Tidy(s)
    PROVE  NoOrphans(s) = s
<1>. DEFINE first(k) == ~ \E j \in 1 .. k - 1 :
                            s[j].role = "tool" /\ s[j].of = s[k].of /\ Declared(s, j)
            K == {k \in DOMAIN s : s[k].role = "tool" => Declared(s, k) /\ first(k)}
<1>1. Len(s) \in Nat /\ DOMAIN s = 1 .. Len(s)
    BY LenIs
<1>2. ASSUME NEW k \in 1 .. Len(s), s[k].role = "tool"
      PROVE  Declared(s, k)
    BY <1>2 DEF Tidy, LegalFrom, Declared
<1>3. ASSUME NEW k \in 1 .. Len(s), s[k].role = "tool"
      PROVE  first(k)
    <2>1. \A j \in 1 .. k - 1 : j \in 1 .. Len(s) /\ j # k
        BY <1>1
    <2>. QED BY <1>3, <2>1 DEF Tidy, Sane
<1>4. K = 1 .. Len(s)
    <2>. HIDE DEF first
    <2>. QED BY <1>1, <1>2, <1>3
<1>5. NoOrphans(s) = Picked(s, K)
    BY DEF NoOrphans
<1>. HIDE DEF K
<1>. QED BY <1>4, <1>5, PickedAll

LEMMA RepairedIs ==
    ASSUME NEW s \in Seq(Entries), Tidy(s)
    PROVE  /\ Repaired(s) = Backfilled(s)
           /\ Full(s) => Repaired(s) = s
BY NoOrphansIs, BackfilledFull DEF Repaired

\* What is no placeholder.
Plain(s) == {k \in 1 .. Len(s) : s[k].role # "placeholder"}

LEMMA PlainIs ==
    ASSUME NEW s \in Seq(Entries)
    PROVE  /\ NoPlaceholders(s) = Picked(s, Plain(s))
           /\ Plain(s) \in SUBSET (1 .. Len(s))
           /\ \A k \in 1 .. Len(s) : s[k].role \in {"call", "tool"} => k \in Plain(s)
BY LenIs DEF NoPlaceholders, Plain

LEMMA PlainTidy ==
    ASSUME NEW s \in Seq(Entries), Tidy(s)
    PROVE  /\ NoPlaceholders(s) \in Seq(Entries)
           /\ Tidy(NoPlaceholders(s))
           /\ Calls(NoPlaceholders(s)) = Calls(s)
BY PlainIs, PickedTidy

\* A governed conversation is legal, and each call has its result.
LEMMA GovernedTidy ==
    ASSUME NEW s \in Seq(Entries), Tidy(s)
    PROVE  /\ Governed(s) = Backfilled(NoPlaceholders(s))
           /\ Governed(s) \in Seq(Entries)
           /\ Tidy(Governed(s))
           /\ Full(Governed(s))
           /\ Calls(Governed(s)) = Calls(s)
<1>. DEFINE p == NoPlaceholders(s)
<1>1. p \in Seq(Entries) /\ Tidy(p) /\ Calls(p) = Calls(s)
    BY PlainTidy
<1>2. Governed(s) = Repaired(p)
    BY DEF Governed
<1>. HIDE DEF p
<1>3. Repaired(p) = Backfilled(p)
    BY <1>1, RepairedIs
<1>4. /\ Backfilled(p) \in Seq(Entries) /\ Tidy(Backfilled(p))
      /\ Full(Backfilled(p)) /\ Calls(Backfilled(p)) = Calls(p)
    BY <1>1, BackfilledTidy
<1>. QED BY <1>1, <1>2, <1>3, <1>4 DEF p

LEMMA PlainConcat ==
    ASSUME NEW a \in Seq(Entries), NEW b \in Seq(Entries)
    PROVE  NoPlaceholders(a \o b) = NoPlaceholders(a) \o NoPlaceholders(b)
<1>. DEFINE n == Len(a)
            t == a \o b
<1>1. n \in Nat /\ Len(b) \in Nat
    BY LenIs
<1>2. /\ t \in Seq(Entries)
      /\ Len(t) = n + Len(b)
      /\ \A i \in 1 .. n : t[i] = a[i]
      /\ \A i \in 1 .. Len(b) : t[n + i] = b[i]
    BY ConcatIs
<1>3. \A i \in 1 .. n + Len(b) :
          i \in 1 .. n \/ (i > n /\ i - n \in 1 .. Len(b))
    BY ConcatIs
<1>4. Plain(t) = Plain(a) \cup {n + j : j \in Plain(b)}
    <2>. HIDE DEF t
    <2>1. ASSUME NEW i \in Plain(t)
          PROVE  i \in Plain(a) \cup {n + j : j \in Plain(b)}
        <3>1. i \in 1 .. n + Len(b) /\ t[i].role # "placeholder"
            BY <1>2 DEF Plain
        <3>2. CASE i \in 1 .. n
            BY <1>2, <3>1, <3>2 DEF Plain
        <3>3. CASE i - n \in 1 .. Len(b)
            <4>1. n + (i - n) = i
                BY <1>1, <3>1
            <4>2. i - n \in Plain(b)
                BY <1>2, <3>1, <3>3, <4>1 DEF Plain
            <4>. QED BY <4>1, <4>2
        <3>. QED BY <1>3, <3>1, <3>2, <3>3
    <2>2. ASSUME NEW i \in Plain(a)
          PROVE  i \in Plain(t)
        <3>1. i \in 1 .. n /\ i \in 1 .. n + Len(b)
            BY <1>1 DEF Plain
        <3>. QED BY <1>2, <3>1 DEF Plain
    <2>3. ASSUME NEW j \in Plain(b)
          PROVE  n + j \in Plain(t)
        <3>1. j \in 1 .. Len(b) /\ n + j \in 1 .. n + Len(b)
            BY <1>1 DEF Plain
        <3>. QED BY <1>2, <3>1 DEF Plain
    <2>. QED BY <2>1, <2>2, <2>3
<1>5. Picked(t, Plain(a) \cup {n + j : j \in Plain(b)})
          = Picked(a, Plain(a)) \o Picked(b, Plain(b))
    <2>. DEFINE K == Plain(a)
                J == Plain(b)
    <2>1. K \in SUBSET (1 .. Len(a)) /\ J \in SUBSET (1 .. Len(b))
        BY PlainIs
    <2>. HIDE DEF K, J
    <2>2. Picked(a \o b, K \cup {Len(a) + j : j \in J}) = Picked(a, K) \o Picked(b, J)
        BY <2>1, PickedConcat, ZenonT(60)
    <2>. QED BY <2>2 DEF K, J
<1>. QED BY <1>2, <1>4, <1>5, PlainIs

\* Two conversations with different calls are governed apart.
LEMMA GovernedConcat ==
    ASSUME NEW a \in Seq(Entries), NEW b \in Seq(Entries), Tidy(a), Tidy(b),
           Calls(a) \cap Calls(b) = {}
    PROVE  Governed(a \o b) = Governed(a) \o Governed(b)
<1>. DEFINE p == NoPlaceholders(a)
            q == NoPlaceholders(b)
<1>1. /\ p \in Seq(Entries) /\ Tidy(p) /\ Calls(p) = Calls(a)
      /\ q \in Seq(Entries) /\ Tidy(q) /\ Calls(q) = Calls(b)
    BY PlainTidy
<1>2. NoPlaceholders(a \o b) = p \o q
    BY PlainConcat
<1>3. a \o b \in Seq(Entries)
    BY ConcatIs
<1>4. Tidy(a \o b)
    BY ConcatTidy
<1>5. Governed(a \o b) = Backfilled(p \o q)
    BY <1>2, <1>3, <1>4, GovernedTidy
<1>6. Governed(a) = Backfilled(p) /\ Governed(b) = Backfilled(q)
    BY GovernedTidy
<1>. HIDE DEF p, q
<1>7. Backfilled(p \o q) = Backfilled(p) \o Backfilled(q)
    BY <1>1, BackfilledConcat
<1>. QED BY <1>5, <1>6, <1>7

\* What needs no governance.
LEMMA GovernedSame ==
    ASSUME NEW s \in Seq(Entries), Tidy(s), Full(s),
           \A k \in 1 .. Len(s) : s[k].role # "placeholder"
    PROVE  Governed(s) = s
<1>1. Plain(s) = 1 .. Len(s)
    BY DEF Plain
<1>2. NoPlaceholders(s) = s
    BY <1>1, PlainIs, PickedAll
<1>. QED BY <1>2, GovernedTidy, BackfilledFull

LEMMA OneTidy ==
    ASSUME NEW m \in Entries, m.role \notin {"call", "tool"}
    PROVE  /\ <<m>> \in Seq(Entries) /\ Len(<<m>>) = 1 /\ <<m>>[1] = m
           /\ Tidy(<<m>>) /\ Full(<<m>>) /\ Calls(<<m>>) = {}
           /\ m.role # "placeholder" => Governed(<<m>>) = <<m>>
<1>. DEFINE s == <<m>>
<1>1. s \in Seq(Entries) /\ Len(s) = 1 /\ s[1] = m
    OBVIOUS
<1>2. m.calls = {}
    BY Fields
<1>. HIDE DEF s
<1>3. \A k \in 1 .. Len(s) : k = 1 /\ s[k] = m
    BY <1>1
<1>4. Calls(s) = {}
    BY <1>2, <1>3 DEF Calls
<1>5. Tidy(s)
    BY <1>2, <1>3 DEF Tidy, Sane, LegalFrom
<1>6. Full(s)
    BY <1>2, <1>3 DEF Full, Missing
<1>7. m.role # "placeholder" => Governed(s) = s
    BY <1>1, <1>3, <1>5, <1>6, GovernedSame
<1>. QED BY <1>1, <1>4, <1>5, <1>6, <1>7 DEF s

LEMMA EmptyTidy ==
    /\ <<>> \in Seq(Entries) /\ Len(<<>>) = 0
    /\ Tidy(<<>>) /\ Full(<<>>) /\ Calls(<<>>) = {}
<1>. DEFINE s == <<>>
<1>1. s \in Seq(Entries) /\ Len(s) = 0
    BY EmptySeq
<1>. HIDE DEF s
<1>2. \A k \in 1 .. Len(s) : FALSE
    BY <1>1
<1>3. Calls(s) = {}
    BY <1>2 DEF Calls
<1>4. Tidy(s) /\ Full(s)
    BY <1>2 DEF Tidy, Sane, LegalFrom, Full
<1>. QED BY <1>1, <1>3, <1>4 DEF s
-----------------------------------------------------------------------------
(* Tokens *)

\* The messages of t are those of s, sizes apart.
Alike(s, t) ==
    /\ Len(t) = Len(s)
    /\ \A k \in 1 .. Len(s) : /\ t[k].role = s[k].role
                              /\ t[k].calls = s[k].calls
                              /\ t[k].of = s[k].of
                              /\ t[k].compactable = s[k].compactable

LEMMA AlikeTidy ==
    ASSUME NEW s \in Seq(Entries), NEW t \in Seq(Entries), Alike(s, t), Tidy(s)
    PROVE  /\ Tidy(t)
           /\ Full(s) => Full(t)
           /\ Calls(t) = Calls(s)
<1>1. /\ Len(s) \in Nat /\ Len(t) = Len(s)
      /\ DOMAIN s = 1 .. Len(s) /\ DOMAIN t = 1 .. Len(s)
    BY LenIs DEF Alike
<1>2. \A k \in 1 .. Len(s) :
          t[k].role = s[k].role /\ t[k].calls = s[k].calls /\ t[k].of = s[k].of
    BY DEF Alike
<1>3. Calls(t) = Calls(s)
    <2>1. \A k \in 1 .. Len(s) : t[k].calls = s[k].calls
        BY <1>2
    <2>. QED BY <1>1, <2>1 DEF Calls
<1>4. \A j, k \in 1 .. Len(t) : j # k => t[j].calls \cap t[k].calls = {}
    BY <1>1, <1>2 DEF Tidy, Sane
<1>5. \A j, k \in 1 .. Len(t) :
          j # k /\ t[j].role = "tool" /\ t[k].role = "tool" => t[j].of # t[k].of
    BY <1>1, <1>2 DEF Tidy, Sane
<1>6. \A j, k \in 1 .. Len(t) :
          t[k].role = "tool" /\ j < k /\ t[k].of \in t[j].calls =>
              \A h \in j + 1 .. k - 1 : t[h].role = "tool"
    <2>1. TAKE j, k \in 1 .. Len(t)
    <2>2. HAVE t[k].role = "tool" /\ j < k /\ t[k].of \in t[j].calls
    <2>3. TAKE h \in j + 1 .. k - 1
    <2>4. h \in 1 .. Len(s) /\ j \in 1 .. Len(s) /\ k \in 1 .. Len(s)
        BY <1>1, <2>1, <2>3
    <2>5. s[k].role = "tool" /\ s[k].of \in s[j].calls
        BY <1>2, <2>2, <2>4
    <2>6. s[h].role = "tool"
        BY <2>2, <2>3, <2>4, <2>5 DEF Tidy, Sane
    <2>. QED BY <1>2, <2>4, <2>6
<1>7. LegalFrom(t, 1)
    <2>1. SUFFICES ASSUME NEW k \in 1 .. Len(s), t[k].role = "tool"
                   PROVE  \E j \in 1 .. k - 1 : t[k].of \in t[j].calls
        BY <1>1 DEF LegalFrom
    <2>2. PICK j \in 1 .. k - 1 : s[k].of \in s[j].calls
        BY <1>2, <2>1 DEF Tidy, LegalFrom
    <2>3. j \in 1 .. Len(s)
        BY <1>1, <2>2
    <2>. QED BY <1>2, <2>2, <2>3
<1>8. ASSUME Full(s)
      PROVE  Full(t)
    <2>1. SUFFICES ASSUME NEW k \in 1 .. Len(s), NEW id \in t[k].calls
                   PROVE  \E j \in 1 .. Len(s) : t[j].role = "tool" /\ t[j].of = id
        BY <1>1 DEF Full, Missing
    <2>2. id \in s[k].calls
        BY <1>2, <2>1
    <2>3. PICK j \in k + 1 .. Len(s) : s[j].role = "tool" /\ s[j].of = id
        BY <1>8, <2>2, FullIs
    <2>4. j \in 1 .. Len(s)
        BY <1>1, <2>3
    <2>. QED BY <1>2, <2>3, <2>4
<1>9. Tidy(t)
    BY <1>4, <1>5, <1>6, <1>7 DEF Tidy, Sane
<1>. QED BY <1>3, <1>8, <1>9

LEMMA ShrunkIs ==
    ASSUME NEW s \in Seq(Entries), NEW ids
    PROVE  /\ Shrunk(s, ids) \in Seq(Entries)
           /\ Alike(s, Shrunk(s, ids))
           /\ \A k \in 1 .. Len(s) :
                 Shrunk(s, ids)[k].size = Big <=>
                     s[k].size = Big /\ ~ (s[k].role = "tool" /\ s[k].of \in ids)
<1>. DEFINE t == Shrunk(s, ids)
<1>1. Len(s) \in Nat /\ DOMAIN s = 1 .. Len(s) /\ \A k \in 1 .. Len(s) : s[k] \in Entries
    BY LenIs
<1>2. t = [k \in 1 .. Len(s) |-> IF s[k].role = "tool" /\ s[k].of \in ids
                                 THEN [s[k] EXCEPT !.size = 1] ELSE s[k]]
    BY <1>1 DEF Shrunk
<1>3. ASSUME NEW m \in Entries
      PROVE  LET r == [m EXCEPT !.size = 1]
             IN  /\ r \in Entries /\ r.role = m.role /\ r.calls = m.calls /\ r.of = m.of
                 /\ r.compactable = m.compactable /\ r.size # Big
    <2>. DEFINE r == [m EXCEPT !.size = 1]
    <2>. DEFINE Fieldwise == [role : Roles, calls : SUBSET (Nat \ {0}), of : Int,
                              size : {1, Big}, compactable : BOOLEAN]
    <2>1. /\ r.role = m.role /\ r.calls = m.calls /\ r.of = m.of /\ r.size = 1
          /\ r.compactable = m.compactable
        BY DEF Entries
    <2>2. 1 # Big
        BY Fields
    <2>3. r \in Fieldwise
        <3>1. m \in Fieldwise
            BY DEF Entries
        <3>. QED BY <3>1
    <2>4. r \in Entries
        <3>. HIDE DEF r
        <3>. QED BY <2>1, <2>2, <2>3 DEF Entries
    <2>. QED BY <2>1, <2>2, <2>4
<1>4. ASSUME NEW k \in 1 .. Len(s)
      PROVE  /\ t[k] \in Entries
             /\ t[k].role = s[k].role /\ t[k].calls = s[k].calls /\ t[k].of = s[k].of
             /\ t[k].compactable = s[k].compactable
             /\ t[k].size = Big <=>
                    s[k].size = Big /\ ~ (s[k].role = "tool" /\ s[k].of \in ids)
    <2>1. CASE s[k].role = "tool" /\ s[k].of \in ids
        <3>1. t[k] = [s[k] EXCEPT !.size = 1]
            BY <1>2, <2>1
        <3>. QED BY <1>1, <1>3, <2>1, <3>1
    <2>2. CASE ~ (s[k].role = "tool" /\ s[k].of \in ids)
        <3>1. t[k] = s[k]
            BY <1>2, <2>2
        <3>. QED BY <1>1, <2>2, <3>1
    <2>. QED BY <2>1, <2>2
<1>5. t \in Seq(Entries) /\ Len(t) = Len(s)
    <2>. DEFINE n == Len(s)
    <2>1. n \in Nat /\ \A k \in 1 .. n : t[k] \in Entries
        BY <1>1, <1>4
    <2>2. t = [k \in 1 .. n |-> t[k]]
        BY <1>2
    <2>. HIDE DEF t, n
    <2>3. t \in [1 .. n -> Entries]
        BY <2>1, <2>2
    <2>4. t \in Seq(Entries) /\ Len(t) = n
        BY <2>1, <2>3
    <2>. QED BY <2>4 DEF n
<1>. HIDE DEF t
<1>6. Alike(s, t)
    BY <1>4, <1>5 DEF Alike
<1>. QED BY <1>4, <1>5, <1>6 DEF t

\* The large results.
Large(s) == {k \in 1 .. Len(s) : s[k].size = Big}

LEMMA TokensIs ==
    ASSUME NEW s \in Seq(Entries)
    PROVE  /\ Tokens(s) = Len(s) + (Big - 1) * Cardinality(Large(s))
           /\ IsFiniteSet(Large(s)) /\ Cardinality(Large(s)) \in Nat
           /\ Tokens(s) \in Nat
<1>1. Len(s) \in Nat /\ DOMAIN s = 1 .. Len(s)
    BY LenIs
<1>2. IsFiniteSet(Large(s)) /\ Cardinality(Large(s)) \in Nat
    BY PickedFinite DEF Large
<1>3. Tokens(s) = Len(s) + (Big - 1) * Cardinality(Large(s))
    BY <1>1 DEF Tokens, Large
<1>4. Big - 1 \in Nat
    BY ConstantsAssumption
<1>5. \A a, b, c \in Nat : a + b * c \in Nat
    OBVIOUS
<1>. QED BY <1>1, <1>2, <1>3, <1>4, <1>5

LEMMA Times ==
    ASSUME NEW a \in Nat, NEW b \in Nat, NEW c \in Nat, b <= c
    PROVE  a * b <= a * c
<1>1. PICK d \in Nat : c = b + d
    <2>1. c - b \in Nat /\ c = b + (c - b)
        OBVIOUS
    <2>. QED BY <2>1
<1>2. a * c = a * b + a * d
    BY <1>1
<1>3. a * d \in Nat /\ a * b \in Nat
    OBVIOUS
<1>. QED BY <1>2, <1>3

\* A part whose large results are those of the whole has no more tokens beyond
\* its length.
LEMMA TokensShift ==
    ASSUME NEW s \in Seq(Entries), NEW t \in Seq(Entries), NEW c \in Int,
           \A k \in Large(t) : k + c \in Large(s)
    PROVE  Tokens(t) + Len(s) <= Tokens(s) + Len(t)
<1>. DEFINE S == Large(s)
            T == Large(t)
            f == [k \in T |-> k + c]
<1>1. Len(s) \in Nat /\ Len(t) \in Nat
    BY LenIs
<1>2. /\ IsFiniteSet(S) /\ Cardinality(S) \in Nat
      /\ IsFiniteSet(T) /\ Cardinality(T) \in Nat
      /\ Tokens(s) = Len(s) + (Big - 1) * Cardinality(S)
      /\ Tokens(t) = Len(t) + (Big - 1) * Cardinality(T)
    BY TokensIs
<1>3. \A k \in T : k \in Int
    BY <1>1 DEF Large
<1>. HIDE DEF S, T
<1>4. f \in [T -> S]
    BY DEF S, T
<1>5. \A j, k \in T : f[j] = f[k] => j = k
    <2>1. TAKE j, k \in T
    <2>2. HAVE f[j] = f[k]
    <2>3. j + c = k + c /\ j \in Int /\ k \in Int
        BY <1>3, <2>2
    <2>. QED BY <2>3
<1>6. f \in Injection(T, S)
    BY <1>4, <1>5 DEF Injection, IsInjective
<1>. HIDE DEF f
<1>7. Cardinality(T) <= Cardinality(S)
    BY <1>2, <1>6, FS_Injection
<1>8. Big - 1 \in Nat
    BY ConstantsAssumption
<1>. DEFINE a == (Big - 1) * Cardinality(T)
            b == (Big - 1) * Cardinality(S)
<1>9. a <= b
    BY <1>2, <1>7, <1>8, Times
<1>10. a \in Int /\ b \in Int
    <2>1. \A x, y \in Nat : x * y \in Int
        OBVIOUS
    <2>. QED BY <1>2, <1>8, <2>1
<1>11. Tokens(s) = Len(s) + b /\ Tokens(t) = Len(t) + a
    BY <1>2
<1>. HIDE DEF a, b
<1>. QED BY <1>1, <1>9, <1>10, <1>11

LEMMA TokensFrom ==
    ASSUME NEW s \in Seq(Entries), NEW f \in 1 .. Len(s) + 1
    PROVE  Tokens(From(s, f)) <= Tokens(s)
<1>. DEFINE t == From(s, f)
            c == f - 1
<1>1. Len(s) \in Nat /\ f \in Nat /\ f >= 1
    BY LenIs
<1>2. /\ t \in Seq(Entries) /\ Len(t) = Len(s) - f + 1
      /\ \A k \in 1 .. Len(s) - f + 1 : t[k] = s[f + k - 1]
    BY FromIs
<1>. HIDE DEF t
<1>3. c \in Int
    BY <1>1
<1>4. \A k \in Large(t) : k + c \in Large(s)
    <2>1. TAKE k \in Large(t)
    <2>2. k \in 1 .. Len(s) - f + 1 /\ t[k].size = Big
        BY <1>2 DEF Large
    <2>3. k + c = f + k - 1 /\ k + c \in 1 .. Len(s)
        BY <1>1, <2>2
    <2>. QED BY <1>2, <2>2, <2>3 DEF Large
<1>5. Tokens(t) + Len(s) <= Tokens(s) + Len(t)
    <2>. HIDE DEF c
    <2>. QED BY <1>2, <1>3, <1>4, TokensShift
<1>6. Tokens(s) \in Nat /\ Tokens(t) \in Nat
    BY <1>2, TokensIs
<1>7. Tokens(t) <= Tokens(s)
    BY <1>1, <1>2, <1>5, <1>6
<1>. QED BY <1>7 DEF t

LEMMA TokensAfter ==
    ASSUME NEW m \in Entries, m.size # Big, NEW t \in Seq(Entries)
    PROVE  Tokens(<<m>> \o t) <= Tokens(t) + 1
<1>. DEFINE s == <<m>> \o t
            c == -1
<1>1. <<m>> \in Seq(Entries) /\ Len(<<m>>) = 1 /\ <<m>>[1] = m
    OBVIOUS
<1>2. /\ s \in Seq(Entries) /\ Len(s) = 1 + Len(t)
      /\ s[1] = m /\ \A k \in 1 .. Len(t) : s[1 + k] = t[k]
    <2>1. LET a == <<m>>
          IN  /\ a \o t \in Seq(Entries)
              /\ Len(a \o t) = Len(a) + Len(t)
              /\ \A i \in 1 .. Len(a) : (a \o t)[i] = a[i]
              /\ \A i \in 1 .. Len(t) : (a \o t)[Len(a) + i] = t[i]
        BY <1>1, ConcatIs
    <2>. QED BY <1>1, <2>1
<1>. HIDE DEF s
<1>3. Len(t) \in Nat
    BY LenIs
<1>4. \A k \in Large(s) : k + c \in Large(t)
    <2>1. TAKE k \in Large(s)
    <2>2. k \in 1 .. 1 + Len(t) /\ s[k].size = Big
        BY <1>2 DEF Large
    <2>3. k # 1
        BY <1>2, <2>2
    <2>4. k + c \in 1 .. Len(t) /\ 1 + (k + c) = k
        BY <1>3, <2>2, <2>3
    <2>. QED BY <1>2, <2>2, <2>4 DEF Large
<1>5. c \in Int
    OBVIOUS
<1>6. Tokens(s) + Len(t) <= Tokens(t) + Len(s)
    <2>. HIDE DEF c
    <2>. QED BY <1>2, <1>4, <1>5, TokensShift
<1>7. Tokens(s) \in Nat /\ Tokens(t) \in Nat
    BY <1>2, TokensIs
<1>8. Tokens(s) <= Tokens(t) + 1
    BY <1>2, <1>3, <1>6, <1>7
<1>. QED BY <1>8 DEF s
-----------------------------------------------------------------------------
(* Compaction *)

\* Compaction takes results behind the start, until the budget is met or none
\* of them that it may take is large.
LEMMA CompactedIs ==
    ASSUME NEW s \in Seq(Entries), NEW start \in Nat, NEW ids
    PROVE  LET more == Compacted(s, start, ids)
           IN  /\ ids \subseteq more
               /\ more \subseteq ids \cup {s[k].of : k \in start + 1 .. Len(s)}
               /\ \/ Tokens(Shrunk(s, more)) <= Budget
                  \/ \A k \in start + 1 .. Len(s) :
                        s[k].compactable => Shrunk(s, more)[k].size # Big
<1>. DEFINE r == Shrunk(s, ids)
            large == {k \in start + 1 .. Len(r) :
                         r[k].role = "tool" /\ r[k].compactable /\ r[k].size = Big}
            upTo(n) == ids \cup {r[k].of : k \in {j \in large : j <= n}}
            left(n) == {k \in large : k > n}
            tokens(n) == Tokens(Shrunk(s, upTo(n)))
            done(n) == \/ tokens(n) <= Target
                       \/ Cardinality(left(n)) = 1 /\ tokens(n) <= Budget
                       \/ left(n) = {}
            D == {n \in 0 .. Len(r) : done(n)}
            more == Compacted(s, start, ids)
<1>1. /\ r \in Seq(Entries) /\ Alike(s, r)
      /\ \A k \in 1 .. Len(s) :
            r[k].size = Big <=> s[k].size = Big /\ ~ (s[k].role = "tool" /\ s[k].of \in ids)
    BY ShrunkIs
<1>2. more = IF Tokens(r) <= Budget THEN ids ELSE upTo(Min(D))
    BY DEF Compacted
<1>3. CASE Tokens(r) <= Budget
    BY <1>2, <1>3
<1>4. CASE ~ (Tokens(r) <= Budget)
    <2>. DEFINE n == Min(D)
    <2>1. /\ Len(s) \in Nat /\ Len(r) = Len(s)
          /\ \A k \in 1 .. Len(s) : r[k].role = s[k].role /\ r[k].of = s[k].of
        BY <1>1, LenIs DEF Alike
    <2>2. left(Len(r)) = {}
        BY <2>1
    <2>. HIDE DEF r
    <2>3. Len(r) \in D
        <3>. HIDE DEF left, tokens
        <3>. QED BY <2>1, <2>2
    <2>4. n \in 0 .. Len(r) /\ done(n)
        <3>1. D \in SUBSET Nat /\ D # {}
            BY <2>1, <2>3
        <3>2. n \in D
            <4>. HIDE DEF D
            <4>. QED BY <3>1, MinIs
        <3>. HIDE DEF n
        <3>. QED BY <3>2
    <2>. HIDE DEF n
    <2>5. more = upTo(n)
        BY <1>2, <1>4 DEF n, r
    <2>6. \A k \in start + 1 .. Len(s) : k \in 1 .. Len(s)
        BY <2>1
    <2>7. ids \subseteq more
        BY <2>5
    <2>8. more \subseteq ids \cup {s[k].of : k \in start + 1 .. Len(s)}
        BY <2>1, <2>5, <2>6
    <2>. HIDE DEF more
    <2>9. CASE tokens(n) <= Target \/ tokens(n) <= Budget
        <3>1. Shrunk(s, more) \in Seq(Entries)
            BY ShrunkIs
        <3>2. Tokens(Shrunk(s, more)) \in Nat
            BY <3>1, TokensIs
        <3>3. Target <= Budget /\ Target \in Nat /\ Budget \in Nat
            BY ConstantsAssumption
        <3>4. Tokens(Shrunk(s, more)) = tokens(n)
            BY <2>5
        <3>. HIDE DEF tokens
        <3>5. Tokens(Shrunk(s, more)) <= Budget
            BY <2>9, <3>2, <3>3, <3>4
        <3>. QED BY <2>7, <2>8, <3>5 DEF more
    <2>10. CASE left(n) = {}
        <3>1. ASSUME NEW k \in start + 1 .. Len(s), s[k].compactable,
                     Shrunk(s, more)[k].size = Big
              PROVE  FALSE
            <4>1. k \in 1 .. Len(s)
                BY <2>6
            <4>2. s[k].size = Big /\ ~ (s[k].role = "tool" /\ s[k].of \in more)
                BY <3>1, <4>1, ShrunkIs
            <4>3. s[k].role = "tool"
                BY <4>1, <4>2, LenIs, Fields
            <4>4. /\ r[k].size = Big /\ r[k].role = "tool" /\ r[k].of = s[k].of
                  /\ r[k].compactable
                BY <1>1, <2>1, <2>7, <3>1, <4>1, <4>2, <4>3 DEF r, Alike
            <4>5. k \in large
                BY <2>1, <4>4
            <4>6. k <= n
                BY <2>1, <2>4, <2>10, <4>1, <4>5
            <4>7. r[k].of \in upTo(n)
                BY <4>5, <4>6
            <4>. QED BY <2>5, <4>2, <4>3, <4>4, <4>7
        <3>. QED BY <2>7, <2>8, <3>1 DEF more
    <2>. QED BY <2>4, <2>9, <2>10
<1>. QED BY <1>3, <1>4
-----------------------------------------------------------------------------
(* The snip *)

LEMMA FromFrom ==
    ASSUME NEW s \in Seq(Entries), NEW f \in 1 .. Len(s) + 1,
           NEW k \in 1 .. Len(From(s, f)) + 1
    PROVE  /\ f + k - 1 \in 1 .. Len(s) + 1
           /\ From(From(s, f), k) = From(s, f + k - 1)
<1>. DEFINE t == From(s, f)
            g == f + k - 1
<1>1. Len(s) \in Nat /\ f \in Nat /\ f >= 1
    BY LenIs
<1>2. /\ t \in Seq(Entries) /\ Len(t) = Len(s) - f + 1
      /\ \A i \in 1 .. Len(s) - f + 1 : t[i] = s[f + i - 1]
    BY FromIs
<1>. HIDE DEF t
<1>3. k \in 1 .. Len(t) + 1
    BY DEF t
<1>4. k \in Nat /\ k >= 1 /\ g \in 1 .. Len(s) + 1
    BY <1>1, <1>2, <1>3
<1>. HIDE DEF g
<1>5. /\ From(t, k) \in Seq(Entries) /\ Len(From(t, k)) = Len(t) - k + 1
      /\ \A i \in 1 .. Len(t) - k + 1 : From(t, k)[i] = t[k + i - 1]
    BY <1>2, <1>3, FromIs
<1>6. /\ From(s, g) \in Seq(Entries) /\ Len(From(s, g)) = Len(s) - g + 1
      /\ \A i \in 1 .. Len(s) - g + 1 : From(s, g)[i] = s[g + i - 1]
    BY <1>4, FromIs
<1>7. Len(t) - k + 1 = Len(s) - g + 1
    BY <1>1, <1>2, <1>4 DEF g
<1>8. \A i \in 1 .. Len(s) - g + 1 : From(t, k)[i] = From(s, g)[i]
    <2>1. TAKE i \in 1 .. Len(s) - g + 1
    <2>2. k + i - 1 \in 1 .. Len(s) - f + 1 /\ f + (k + i - 1) - 1 = g + i - 1
        BY <1>1, <1>4 DEF g
    <2>3. From(t, k)[i] = t[k + i - 1]
        BY <1>5, <1>7
    <2>. QED BY <1>2, <1>6, <2>2, <2>3
<1>9. From(t, k) = From(s, g)
    BY <1>5, <1>6, <1>7, <1>8, SeqEqual
<1>. QED BY <1>4, <1>9 DEF t, g

LEMMA UserAtIs ==
    ASSUME NEW s \in Seq(Entries)
    PROVE  /\ UserAt(s) \in SUBSET (1 .. Len(s))
           /\ \A k \in 1 .. Len(s) : k \in UserAt(s) <=> s[k].role = "user"
           /\ UserAt(s) # {} =>
                 /\ Min(UserAt(s)) \in UserAt(s) /\ \A k \in UserAt(s) : Min(UserAt(s)) <= k
                 /\ Max(UserAt(s)) \in UserAt(s) /\ \A k \in UserAt(s) : k <= Max(UserAt(s))
<1>. DEFINE U == UserAt(s)
<1>1. Len(s) \in Nat /\ DOMAIN s = 1 .. Len(s)
    BY LenIs
<1>2. U \in SUBSET (1 .. Len(s)) /\ \A k \in 1 .. Len(s) : k \in U <=> s[k].role = "user"
    BY <1>1 DEF UserAt, IsUser
<1>. HIDE DEF U
<1>3. U \in SUBSET Nat /\ \A k \in U : k <= Len(s)
    BY <1>1, <1>2
<1>4. ASSUME U # {}
      PROVE  /\ Min(U) \in U /\ \A k \in U : Min(U) <= k
             /\ Max(U) \in U /\ \A k \in U : k <= Max(U)
    <2>1. Min(U) \in U /\ \A k \in U : Min(U) <= k
        BY <1>3, <1>4, MinIs
    <2>2. Max(U) \in U /\ \A k \in U : Max(U) >= k
        BY <1>1, <1>3, <1>4, MaxIs
    <2>3. \A k \in U : k <= Max(U)
        BY <1>3, <2>2
    <2>. QED BY <2>1, <2>2, <2>3
<1>. QED BY <1>2, <1>4 DEF U

\* A request before it is cut: the latest user message stands at p.
Opened(s, p) ==
    /\ s \in Seq(Entries) /\ Tidy(s) /\ Full(s)
    /\ p \in 2 .. Len(s)
    /\ s[1] = System /\ IsUser(s[p])
    /\ \A k \in p + 1 .. Len(s) : ~ IsUser(s[k])

LEMMA MadeIs ==
    /\ System \in Entries /\ User \in Entries /\ SlashUser \in Entries
    /\ SlashReply \in Entries /\ Reply \in Entries /\ Delivery \in Entries
    /\ Placeholder \in Entries
    /\ System.size # Big /\ System.role = "system" /\ User.role = "user" /\ User.of = 0
    /\ SlashUser.role = "user" /\ SlashReply.role = "assistant"
    /\ Reply.role = "assistant" /\ Delivery.role = "delivery"
    /\ Placeholder.role = "placeholder"
<1>1. IsFiniteSet({})
    BY FS_EmptySet
<1>2. 1 # Big
    BY ConstantsAssumption
<1>. QED BY <1>1, <1>2
         DEF Entries, Roles, Message, System, User, SlashUser, SlashReply, Reply, Delivery,
             Placeholder

\* The snip keeps the system prompt and the end from a user message on.  It
\* meets the budget, or no later user message is left to cut at.  It does not cut
\* behind a user message when the end from there on fits.
LEMMA SnippedIs ==
    ASSUME NEW s, NEW p, Opened(s, p)
    PROVE  \/ Snipped(s) = s /\ Tokens(s) <= Budget
           \/ \E f \in 2 .. p :
                 /\ s[f].role = "user"
                 /\ Snipped(s) = <<s[1]>> \o From(s, f)
                 /\ \/ Tokens(Snipped(s)) <= Budget
                    \/ \A k \in f + 1 .. Len(s) : s[k].role # "user"
                 /\ \A q \in 2 .. p :
                       s[q].role = "user" /\ Tokens(From(s, q)) < Budget => f <= q
<1>. DEFINE rest == From(s, 2)
            fits == {k \in DOMAIN rest : k = Len(rest) \/ Tokens(From(rest, k)) <= Budget - 1}
            first == Min(fits)
            kept == From(rest, first)
            tail == IF UserAt(kept) # {} THEN From(kept, Min(UserAt(kept)))
                    ELSE IF UserAt(rest) # {} THEN From(rest, Max(UserAt(rest)))
                    ELSE kept
<1>1. /\ s \in Seq(Entries) /\ Tidy(s) /\ p \in 2 .. Len(s) /\ s[1] = System
      /\ s[p].role = "user"
      /\ \A k \in p + 1 .. Len(s) : s[k].role # "user"
    BY DEF Opened, IsUser
<1>2. Len(s) \in Nat /\ p \in Nat /\ 2 \in 1 .. Len(s) + 1
    BY <1>1, LenIs
<1>3. Snipped(s) = IF Tokens(s) <= Budget \/ rest = <<>> THEN s
                   ELSE <<s[1]>> \o Legal(tail)
    BY DEF Snipped
<1>. HIDE DEF rest, fits, first, kept, tail
<1>4. /\ rest \in Seq(Entries) /\ Len(rest) = Len(s) - 1
      /\ \A k \in 1 .. Len(s) - 1 : rest[k] = s[k + 1]
      /\ DOMAIN rest = 1 .. Len(rest)
    <2>1. /\ rest \in Seq(Entries) /\ Len(rest) = Len(s) - 2 + 1
          /\ \A k \in 1 .. Len(s) - 2 + 1 : rest[k] = s[2 + k - 1]
        BY <1>1, <1>2, FromIs DEF rest
    <2>2. Len(s) - 2 + 1 = Len(s) - 1
        BY <1>2
    <2>3. \A k \in 1 .. Len(s) - 1 : 2 + k - 1 = k + 1
        BY <1>2
    <2>. QED BY <2>1, <2>2, <2>3, LenIs
<1>5. rest # <<>>
    <2>1. Len(rest) # 0
        BY <1>1, <1>2, <1>4
    <2>2. Len(<<>>) = 0
        BY EmptySeq
    <2>. QED BY <2>1, <2>2
<1>6. CASE Tokens(s) <= Budget
    BY <1>3, <1>6
<1>7. CASE ~ (Tokens(s) <= Budget)
    <2>1. Snipped(s) = <<s[1]>> \o Legal(tail)
        BY <1>3, <1>5, <1>7
    <2>2. /\ first \in 1 .. Len(rest)
          /\ first = Len(rest) \/ Tokens(kept) <= Budget - 1
        <3>1. fits \in SUBSET Nat
            BY <1>4 DEF fits
        <3>2. Len(rest) \in fits
            BY <1>1, <1>2, <1>4 DEF fits
        <3>3. first \in fits
            BY <3>1, <3>2, MinIs DEF first
        <3>. QED BY <1>4, <3>3 DEF fits, kept
    <2>3. first \in Nat /\ first >= 1 /\ first <= Len(rest) /\ first \in 1 .. Len(rest) + 1
        BY <1>2, <1>4, <2>2
    <2>4. /\ kept \in Seq(Entries) /\ Len(kept) = Len(rest) - first + 1
          /\ \A k \in 1 .. Len(rest) - first + 1 : kept[k] = rest[first + k - 1]
        BY <1>4, <2>3, FromIs DEF kept
    \* What fits is kept.
    <2>10. ASSUME NEW q \in 2 .. p, s[q].role = "user", Tokens(From(s, q)) < Budget
           PROVE  /\ q - first \in 1 .. Len(kept) /\ kept[q - first].role = "user"
                  /\ q - first \in UserAt(kept) /\ q \in Nat
        <3>1. q \in Nat /\ q >= 2 /\ q <= p /\ q - 1 \in 1 .. Len(rest)
            BY <1>1, <1>2, <1>4
        <3>2. From(rest, q - 1) = From(s, q)
            <4>1. q - 1 \in 1 .. Len(From(s, 2)) + 1 /\ 2 + (q - 1) - 1 = q
                BY <1>2, <1>4, <3>1 DEF rest
            <4>2. From(From(s, 2), q - 1) = From(s, 2 + (q - 1) - 1)
                BY <1>1, <1>2, <4>1, FromFrom
            <4>. QED BY <4>1, <4>2 DEF rest
        <3>3. q - 1 \in fits
            <4>1. q \in 1 .. Len(s) + 1
                BY <1>1, <1>2, <3>1
            <4>2. From(s, q) \in Seq(Entries)
                BY <1>1, <4>1, FromIs
            <4>3. Tokens(From(s, q)) \in Nat /\ Budget \in Nat
                BY <4>2, TokensIs, ConstantsAssumption
            <4>4. Tokens(From(s, q)) <= Budget - 1
                BY <2>10, <4>3
            <4>. QED BY <1>4, <3>1, <3>2, <4>4 DEF fits
        <3>4. fits \in SUBSET Nat
            BY <1>4 DEF fits
        <3>5. first <= q - 1
            BY <3>3, <3>4, MinIs DEF first
        <3>6. q - first \in 1 .. Len(kept) /\ q - first \in 1 .. Len(rest) - first + 1
            BY <1>2, <1>4, <2>3, <2>4, <3>1, <3>5
        <3>7. kept[q - first] = rest[first + (q - first) - 1]
              /\ first + (q - first) - 1 = q - 1
            BY <2>3, <2>4, <3>1, <3>6
        <3>8. rest[q - 1] = s[q]
            BY <1>4, <3>1
        <3>9. kept[q - first].role = "user"
            BY <2>10, <3>7, <3>8
        <3>. QED BY <2>4, <3>1, <3>6, <3>9, UserAtIs
    \* What is cut at the user message at f.
    <2>5. ASSUME NEW f \in 2 .. Len(s), s[f].role = "user", tail = From(s, f)
          PROVE  f \in 2 .. p /\ Snipped(s) = <<s[1]>> \o From(s, f)
        <3>1. f \notin p + 1 .. Len(s)
            BY <1>1, <2>5
        <3>2. f \in 2 .. p /\ f \in 1 .. Len(s) + 1
            BY <1>2, <3>1
        <3>3. tail \in Seq(Entries) /\ Tidy(tail)
            BY <1>1, <2>5, <3>2, SuffixTidy
        <3>4. Legal(tail) = tail
            BY <3>3, LegalIs DEF Tidy
        <3>. QED BY <2>1, <2>5, <3>2, <3>4
    <2>6. CASE UserAt(kept) # {}
        <3>. DEFINE m == Min(UserAt(kept))
                    f == first + m
        <3>1. m \in 1 .. Len(kept) /\ kept[m].role = "user"
            BY <2>4, <2>6, UserAtIs
        <3>. HIDE DEF m
        <3>2. m \in Nat /\ m >= 1 /\ m <= Len(rest) - first + 1
            BY <1>2, <1>4, <2>3, <2>4, <3>1
        <3>3. kept[m] = rest[first + m - 1] /\ first + m - 1 \in 1 .. Len(s) - 1
              /\ (first + m - 1) + 1 = f
            BY <1>2, <1>4, <2>3, <2>4, <3>1, <3>2
        <3>4. f \in 2 .. Len(s) /\ s[f].role = "user"
            <4>1. rest[first + m - 1] = s[(first + m - 1) + 1]
                BY <1>4, <3>3
            <4>2. s[f].role = "user"
                BY <3>1, <3>3, <4>1
            <4>3. f \in 2 .. Len(s)
                BY <1>2, <1>4, <2>3, <3>2
            <4>. QED BY <4>2, <4>3
        <3>5. tail = From(s, f)
            <4>1. tail = From(kept, m)
                BY <2>6 DEF tail, m
            <4>2. m \in 1 .. Len(From(rest, first)) + 1
                BY <2>4, <3>1, <3>2, <1>2, <1>4, <2>3 DEF kept
            <4>3. From(kept, m) = From(rest, first + m - 1)
                BY <1>4, <2>3, <4>2, FromFrom DEF kept
            <4>4. first + m - 1 \in 1 .. Len(From(s, 2)) + 1
                BY <3>3, <1>2, <1>4 DEF rest
            <4>5. From(rest, first + m - 1) = From(s, 2 + (first + m - 1) - 1)
                BY <1>1, <1>2, <4>4, FromFrom DEF rest
            <4>6. 2 + (first + m - 1) - 1 = f
                BY <2>3, <3>2
            <4>. QED BY <4>1, <4>3, <4>5, <4>6
        <3>6. f \in 2 .. p /\ Snipped(s) = <<s[1]>> \o From(s, f)
            <4>. HIDE DEF f
            <4>. QED BY <2>5, <3>4, <3>5
        <3>9. \A q \in 2 .. p : s[q].role = "user" /\ Tokens(From(s, q)) < Budget => f <= q
            <4>1. TAKE q \in 2 .. p
            <4>2. HAVE s[q].role = "user" /\ Tokens(From(s, q)) < Budget
            <4>3. q - first \in UserAt(kept) /\ q \in Nat
                BY <2>10, <4>2
            <4>4. m <= q - first
                BY <2>4, <2>6, <4>3, UserAtIs DEF m
            <4>. QED BY <2>3, <3>2, <4>3, <4>4
        <3>7. CASE Tokens(kept) <= Budget - 1
            <4>1. tail \in Seq(Entries) /\ Tokens(tail) <= Tokens(kept)
                <5>1. tail = From(kept, m)
                    BY <2>6 DEF tail, m
                <5>2. m \in 1 .. Len(kept) + 1
                    BY <2>4, <3>1, <3>2, <1>2, <1>4, <2>3
                <5>. QED BY <2>4, <5>1, <5>2, FromIs, TokensFrom
            <4>2. Tokens(<<s[1]>> \o tail) <= Tokens(tail) + 1
                BY <1>1, <4>1, TokensAfter, MadeIs
            <4>3. <<s[1]>> \o tail \in Seq(Entries)
                <5>1. <<s[1]>> \in Seq(Entries)
                    BY <1>1, MadeIs, OneTidy
                <5>. QED BY <4>1, <5>1, ConcatIs
            <4>4. Tokens(<<s[1]>> \o tail) \in Nat /\ Tokens(tail) \in Nat /\ Tokens(kept) \in Nat
                BY <2>4, <4>1, <4>3, TokensIs
            <4>5. Budget \in Nat
                BY ConstantsAssumption
            <4>6. Tokens(<<s[1]>> \o tail) <= Budget
                BY <3>7, <4>1, <4>2, <4>4, <4>5
            <4>7. Tokens(Snipped(s)) <= Budget
                BY <3>5, <3>6, <4>6
            <4>. HIDE DEF f
            <4>. QED BY <3>4, <3>6, <3>9, <4>7
        <3>8. CASE first = Len(rest)
            <4>1. f = Len(s)
                BY <1>2, <1>4, <3>2, <3>8, <2>3
            <4>2. \A k \in f + 1 .. Len(s) : FALSE
                BY <1>2, <4>1
            <4>. HIDE DEF f
            <4>. QED BY <3>4, <3>6, <3>9, <4>2
        <3>. QED BY <2>2, <3>7, <3>8
    <2>7. CASE UserAt(kept) = {}
        <3>. DEFINE m == Max(UserAt(rest))
        <3>1. p - 1 \in 1 .. Len(rest) /\ rest[p - 1].role = "user" /\ p - 1 \in UserAt(rest)
            <4>1. p - 1 \in 1 .. Len(s) - 1 /\ (p - 1) + 1 = p
                BY <1>1, <1>2
            <4>2. rest[p - 1] = s[p]
                BY <1>4, <4>1
            <4>. QED BY <1>1, <1>4, <4>1, <4>2, UserAtIs
        <3>2. m \in UserAt(rest) /\ p - 1 <= m /\ m \in 1 .. Len(rest)
              /\ rest[m].role = "user"
            BY <1>4, <3>1, UserAtIs
        <3>3. tail = From(rest, m)
            BY <2>7, <3>1 DEF tail
        <3>. HIDE DEF m
        <3>4. m \in Nat /\ m + 1 \in 2 .. Len(s) /\ m \in 1 .. Len(s) - 1
              /\ m \in 1 .. Len(From(s, 2)) + 1 /\ 2 + m - 1 = m + 1
            BY <1>2, <1>4, <3>2 DEF rest
        <3>5. s[m + 1].role = "user"
            BY <1>4, <3>2, <3>4
        <3>6. tail = From(s, m + 1)
            BY <1>1, <1>2, <3>3, <3>4, FromFrom DEF rest
        <3>. DEFINE f == m + 1
        <3>7. f \in 2 .. Len(s) /\ p <= f
            BY <1>2, <3>2, <3>4
        <3>. HIDE DEF f
        <3>8. f \in 2 .. p /\ Snipped(s) = <<s[1]>> \o From(s, f)
            BY <2>5, <3>5, <3>6, <3>7 DEF f
        <3>9. f = p
            BY <1>2, <3>7, <3>8
        <3>10. \A k \in f + 1 .. Len(s) : s[k].role # "user"
            BY <1>1, <3>9
        <3>11. \A q \in 2 .. p : s[q].role = "user" /\ Tokens(From(s, q)) < Budget => f <= q
            BY <2>7, <2>10
        <3>. QED BY <1>1, <3>8, <3>9, <3>10, <3>11
    <2>. QED BY <2>6, <2>7
<1>. QED BY <1>6, <1>7

\* What the snip leaves: the latest user message, or an earlier one from which on
\* everything fits, and all that follows it.
LEMMA SnippedTurn ==
    ASSUME NEW s, NEW p, Opened(s, p), NEW q \in 2 .. p, s[q].role = "user",
           q = p \/ Tokens(From(s, q)) < Budget
    PROVE  LET t == Snipped(s)
               at == Len(t) - (Len(s) - q)
           IN  /\ t \in Seq(Entries) /\ Tidy(t) /\ Full(t)
               /\ at \in 2 .. Len(t) /\ t[at] = s[q]
               /\ \A k \in 1 .. Len(s) - q : t[at + k] = s[q + k]
               /\ \A k \in 1 .. Len(t) : \E j \in 1 .. Len(s) : t[k] = s[j]
               /\ Tokens(t) > Budget => Cardinality(UserAt(t)) = 1
               /\ Tokens(s) <= Budget => t = s
<1>. DEFINE t == Snipped(s)
            at == Len(t) - (Len(s) - q)
<1>1. /\ s \in Seq(Entries) /\ Tidy(s) /\ Full(s) /\ p \in 2 .. Len(s) /\ s[1] = System
      /\ s[p].role = "user"
    BY DEF Opened, IsUser
<1>2. /\ Len(s) \in Nat /\ p \in Nat /\ p >= 2 /\ p <= Len(s)
      /\ q \in Nat /\ q >= 2 /\ q <= p
    BY <1>1, LenIs
<1>3. CASE t = s /\ Tokens(s) <= Budget
    <2>1. Len(s) - (Len(s) - q) = q
        BY <1>2
    <2>2. Tokens(s) \in Nat /\ Budget \in Nat
        BY <1>1, TokensIs, ConstantsAssumption
    <2>3. ~ (Tokens(s) > Budget)
        BY <1>3, <2>2
    <2>. HIDE DEF t
    <2>. QED BY <1>1, <1>3, <2>1, <2>3 DEF t
<1>4. ASSUME NEW f \in 2 .. p, f <= q, s[f].role = "user", t = <<s[1]>> \o From(s, f),
             \/ Tokens(t) <= Budget
             \/ \A k \in f + 1 .. Len(s) : s[k].role # "user"
      PROVE  /\ t \in Seq(Entries) /\ Tidy(t) /\ Full(t)
             /\ at \in 2 .. Len(t) /\ t[at] = s[q]
             /\ \A k \in 1 .. Len(s) - q : t[at + k] = s[q + k]
             /\ \A k \in 1 .. Len(t) : \E j \in 1 .. Len(s) : t[k] = s[j]
             /\ Tokens(t) > Budget => Cardinality(UserAt(t)) = 1
    <2>. DEFINE a == <<s[1]>>
                b == From(s, f)
    <2>1. f \in Nat /\ f >= 2 /\ f <= q /\ f \in 1 .. Len(s) + 1
        BY <1>2, <1>4
    <2>2. /\ a \in Seq(Entries) /\ Len(a) = 1 /\ a[1] = s[1]
          /\ Tidy(a) /\ Full(a) /\ Calls(a) = {}
        BY <1>1, MadeIs, OneTidy
    <2>3. /\ b \in Seq(Entries) /\ Len(b) = Len(s) - f + 1
          /\ \A k \in 1 .. Len(s) - f + 1 : b[k] = s[f + k - 1]
        BY <1>1, <2>1, FromIs
    <2>4. Tidy(b) /\ Full(b)
        BY <1>1, <1>4, <2>1, SuffixTidy
    <2>5. t = a \o b
        BY <1>4
    <2>. HIDE DEF a, b, t
    <2>6. t \in Seq(Entries) /\ Tidy(t) /\ Full(t)
        BY <2>2, <2>3, <2>4, <2>5, ConcatIs, ConcatTidy
    <2>7. /\ Len(t) = 1 + Len(b)
          /\ \A i \in 1 .. 1 : t[i] = a[i]
          /\ \A i \in 1 .. Len(b) : t[1 + i] = b[i]
        <3>1. /\ Len(t) = Len(a) + Len(b)
              /\ \A i \in 1 .. Len(a) : t[i] = a[i]
              /\ \A i \in 1 .. Len(b) : t[Len(a) + i] = b[i]
            BY <2>2, <2>3, <2>5, ConcatIs
        <3>. QED BY <2>2, <3>1
    <2>8. t[1] = s[1]
        BY <2>2, <2>7
    <2>9. \A j \in f .. Len(s) : t[j - f + 2] = s[j]
        <3>1. TAKE j \in f .. Len(s)
        <3>2. j - f + 1 \in 1 .. Len(b) /\ f + (j - f + 1) - 1 = j /\ 1 + (j - f + 1) = j - f + 2
            BY <1>2, <2>1, <2>3
        <3>3. t[j - f + 2] = b[j - f + 1]
            BY <2>7, <3>2
        <3>. QED BY <2>3, <3>2, <3>3
    <2>10. Len(t) = Len(s) - f + 2
        BY <1>2, <2>1, <2>3, <2>7
    <2>11. at = q - f + 2
        BY <1>2, <2>1, <2>10
    <2>. HIDE DEF at
    <2>12. at \in 2 .. Len(t) /\ q \in f .. Len(s)
        BY <1>2, <2>1, <2>10, <2>11
    <2>13. t[at] = s[q]
        BY <2>9, <2>11, <2>12
    <2>14. \A k \in 1 .. Len(s) - q : t[at + k] = s[q + k]
        <3>1. TAKE k \in 1 .. Len(s) - q
        <3>2. q + k \in f .. Len(s) /\ at + k = (q + k) - f + 2
            BY <1>2, <2>1, <2>11
        <3>. QED BY <2>9, <3>2
    <2>15. \A k \in 1 .. Len(t) :
               k = 1 \/ (k + f - 2 \in f .. Len(s) /\ t[k] = s[k + f - 2])
        <3>1. TAKE k \in 1 .. Len(t)
        <3>2. SUFFICES ASSUME k # 1
                       PROVE  k + f - 2 \in f .. Len(s) /\ t[k] = s[k + f - 2]
            OBVIOUS
        <3>3. k + f - 2 \in f .. Len(s) /\ (k + f - 2) - f + 2 = k
            BY <1>2, <2>1, <2>10, <3>2
        <3>. QED BY <2>9, <3>3
    <2>16. \A k \in 1 .. Len(t) : \E j \in 1 .. Len(s) : t[k] = s[j]
        <3>1. TAKE k \in 1 .. Len(t)
        <3>2. CASE k = 1
            <4>1. 1 \in 1 .. Len(s)
                BY <1>2
            <4>. QED BY <2>8, <3>2, <4>1
        <3>3. CASE k + f - 2 \in f .. Len(s) /\ t[k] = s[k + f - 2]
            <4>1. k + f - 2 \in 1 .. Len(s)
                BY <1>2, <2>1, <3>3
            <4>. QED BY <3>3, <4>1
        <3>. QED BY <2>15, <3>2, <3>3
    <2>17. ASSUME Tokens(t) > Budget
           PROVE  Cardinality(UserAt(t)) = 1
        <3>1. Tokens(t) \in Nat /\ Budget \in Nat
            BY <2>6, TokensIs, ConstantsAssumption
        <3>2. \A k \in f + 1 .. Len(s) : s[k].role # "user"
            BY <1>4, <2>17, <3>1
        <3>3. 2 \in 1 .. Len(t) /\ f \in f .. Len(s) /\ f - f + 2 = 2
            BY <1>2, <2>1, <2>10
        <3>4. t[2].role = "user"
            BY <1>4, <2>9, <3>3
        <3>5. \A k \in 1 .. Len(t) : t[k].role = "user" => k = 2
            <4>1. TAKE k \in 1 .. Len(t)
            <4>2. HAVE t[k].role = "user"
            <4>3. k # 1
                BY <1>1, <2>8, <4>2, MadeIs
            <4>4. k + f - 2 \in f .. Len(s) /\ s[k + f - 2].role = "user"
                BY <2>15, <4>2, <4>3
            <4>5. k + f - 2 \notin f + 1 .. Len(s)
                BY <3>2, <4>4
            <4>. QED BY <1>2, <2>1, <4>4, <4>5
        <3>6. UserAt(t) = {2}
            BY <2>6, <3>3, <3>4, <3>5, UserAtIs
        <3>. QED BY <3>6, FS_Singleton
    <2>. QED BY <2>6, <2>12, <2>13, <2>14, <2>16, <2>17
<1>5. Tokens(s) <= Budget => t = s
    BY DEF Snipped
<1>6. \/ t = s /\ Tokens(s) <= Budget
      \/ \E f \in 2 .. p :
            /\ s[f].role = "user"
            /\ t = <<s[1]>> \o From(s, f)
            /\ \/ Tokens(t) <= Budget
               \/ \A k \in f + 1 .. Len(s) : s[k].role # "user"
            /\ f <= q
    <2>1. \A f \in 2 .. p : f <= p
        BY <1>2
    <2>. QED BY <2>1, SnippedIs
<1>. HIDE DEF t
<1>. QED BY <1>3, <1>4, <1>5, <1>6 DEF t
-----------------------------------------------------------------------------
(* What a provider accepts *)

LEMMA AnswersIs ==
    ASSUME NEW s \in Seq(Entries), NEW j \in 1 .. Len(s), NEW k \in j + 1 .. Len(s),
           Between(s, j, k)
    PROVE  s[k].of \in Answers(s, j)
<1>1. Len(s) \in Nat
    BY LenIs
<1>2. k \in j .. Len(s)
    BY <1>1
<1>3. k <= RunEnd(s, j) /\ RunEnd(s, j) \in j .. Len(s)
    BY <1>2, RunEndIs
<1>4. k \in j + 1 .. RunEnd(s, j)
    BY <1>1, <1>3
<1>. QED BY <1>4 DEF Answers

LEMMA Accepted ==
    ASSUME NEW r \in Seq(Entries), Tidy(r), Full(r), NEW k \in 1 .. Len(r)
    PROVE  /\ r[k].role = "tool" =>
                 \E j \in 1 .. k - 1 : r[k].of \in r[j].calls \cap Answers(r, j)
           /\ r[k].calls \subseteq Answers(r, k)
           /\ \A j \in 1 .. k - 1 :
                 r[j].role = "tool" /\ r[k].role = "tool" => r[j].of # r[k].of
<1>1. Len(r) \in Nat
    BY LenIs
<1>2. ASSUME r[k].role = "tool"
      PROVE  \E j \in 1 .. k - 1 : r[k].of \in r[j].calls \cap Answers(r, j)
    <2>1. PICK j \in 1 .. k - 1 : r[k].of \in r[j].calls
        BY <1>2 DEF Tidy, LegalFrom
    <2>2. j \in 1 .. Len(r) /\ j < k /\ k \in j + 1 .. Len(r)
        BY <1>1, <2>1
    <2>3. \A h \in j + 1 .. k - 1 : r[h].role = "tool"
        BY <1>2, <2>1, <2>2 DEF Tidy, Sane
    <2>4. \A h \in j + 1 .. k : h = k \/ h \in j + 1 .. k - 1
        BY <1>1, <2>2
    <2>5. Between(r, j, k)
        BY <1>2, <2>3, <2>4 DEF Between
    <2>. QED BY <2>1, <2>2, <2>5, AnswersIs
<1>3. ASSUME NEW id \in r[k].calls
      PROVE  id \in Answers(r, k)
    <2>1. PICK j \in k + 1 .. Len(r) :
              r[j].role = "tool" /\ r[j].of = id
              /\ \A h \in k + 1 .. j : r[h].role = "tool"
        BY FullIs
    <2>. QED BY <2>1, AnswersIs DEF Between
<1>4. ASSUME NEW j \in 1 .. k - 1, r[j].role = "tool", r[k].role = "tool"
      PROVE  r[j].of # r[k].of
    <2>1. j \in 1 .. Len(r) /\ j # k
        BY <1>1
    <2>. QED BY <1>4, <2>1 DEF Tidy, Sane
<1>. QED BY <1>2, <1>3, <1>4
-----------------------------------------------------------------------------
(* Windows *)

LEMMA PairIs ==
    ASSUME NEW a \in Int, NEW b \in Int
    PROVE  /\ Max({a, b}) = IF a >= b THEN a ELSE b
           /\ Min({a, b}) = IF a <= b THEN a ELSE b
<1>1. Max({a, b}) = IF a >= b THEN a ELSE b
    <2>1. CASE a >= b
        <3>1. \A x \in {a, b} : (\A y \in {a, b} : x >= y) <=> x = a
            BY <2>1
        <3>. QED BY <2>1, <3>1 DEF Max
    <2>2. CASE ~ (a >= b)
        <3>1. \A x \in {a, b} : (\A y \in {a, b} : x >= y) <=> x = b
            BY <2>2
        <3>. QED BY <2>2, <3>1 DEF Max
    <2>. QED BY <2>1, <2>2
<1>2. Min({a, b}) = IF a <= b THEN a ELSE b
    <2>1. CASE a <= b
        <3>1. \A x \in {a, b} : (\A y \in {a, b} : x <= y) <=> x = a
            BY <2>1
        <3>. QED BY <2>1, <3>1 DEF Min
    <2>2. CASE ~ (a <= b)
        <3>1. \A x \in {a, b} : (\A y \in {a, b} : x <= y) <=> x = b
            BY <2>2
        <3>. QED BY <2>2, <3>1 DEF Min
    <2>. QED BY <2>1, <2>2
<1>. QED BY <1>1, <1>2

LEMMA IntervalIs ==
    ASSUME NEW a \in Nat, NEW b \in Nat, a <= b
    PROVE  Min(a .. b) = a /\ Max(a .. b) = b
<1>1. a .. b \in SUBSET Nat /\ a \in a .. b /\ b \in a .. b /\ \A y \in a .. b : y <= b /\ a <= y
    OBVIOUS
<1>2. Min(a .. b) \in a .. b /\ \A y \in a .. b : Min(a .. b) <= y
    BY <1>1, MinIs
<1>3. Max(a .. b) \in a .. b /\ \A y \in a .. b : Max(a .. b) >= y
    BY <1>1, MaxIs
<1>. QED BY <1>1, <1>2, <1>3

LEMMA WithDeliveryIs ==
    ASSUME NEW s \in Seq(Entries), NEW k \in 1 .. Len(s)
    PROVE  /\ WithDelivery(s, k) \in 1 .. k
           /\ WithDelivery(s, k) \in k - 1 .. k
           /\ WithDelivery(s, k) \in 1 .. Len(s)
           /\ \/ WithDelivery(s, k) = k
              \/ s[WithDelivery(s, k)].role = "delivery"
<1>1. Len(s) \in Nat
    BY LenIs
<1>2. CASE k > 1 /\ s[k - 1].role = "delivery"
    <2>1. WithDelivery(s, k) = k - 1
        BY <1>2 DEF WithDelivery
    <2>2. k - 1 \in 1 .. k /\ k - 1 \in k - 1 .. k /\ k - 1 \in 1 .. Len(s)
        BY <1>1, <1>2
    <2>. QED BY <1>2, <2>1, <2>2
<1>3. CASE ~ (k > 1 /\ s[k - 1].role = "delivery")
    <2>1. WithDelivery(s, k) = k
        BY <1>3 DEF WithDelivery
    <2>2. k \in 1 .. k /\ k \in k - 1 .. k /\ k \in 1 .. Len(s)
        BY <1>1
    <2>. QED BY <2>1, <2>2
<1>. QED BY <1>2, <1>3

LEMMA AtUserIs ==
    ASSUME NEW s \in Seq(Entries)
    PROVE  \/ UserAt(s) = {} /\ AtUser(s) = s
           \/ \E w \in 1 .. Len(s) :
                 /\ AtUser(s) = From(s, w)
                 /\ s[w].role \in {"user", "delivery"}
                 /\ \A k \in UserAt(s) : w <= k
<1>1. Len(s) \in Nat
    BY LenIs
<1>2. CASE UserAt(s) = {}
    BY <1>2 DEF AtUser
<1>3. CASE UserAt(s) # {}
    <2>. DEFINE m == Min(UserAt(s))
                w == WithDelivery(s, m)
    <2>1. /\ m \in 1 .. Len(s) /\ s[m].role = "user"
          /\ \A k \in UserAt(s) : m <= k /\ k \in 1 .. Len(s)
        BY <1>3, UserAtIs
    <2>2. AtUser(s) = From(s, w)
        BY <1>3 DEF AtUser
    <2>. HIDE DEF m
    <2>3. w \in 1 .. m /\ w \in 1 .. Len(s) /\ (w = m \/ s[w].role = "delivery")
        BY <2>1, WithDeliveryIs
    <2>. HIDE DEF w
    <2>4. \A k \in UserAt(s) : w <= k
        BY <1>1, <2>1, <2>3
    <2>. QED BY <2>1, <2>2, <2>3, <2>4
<1>. QED BY <1>2, <1>3

LEMMA RecentStartIs ==
    ASSUME NEW s \in Seq(Entries), NEW limit \in Nat \ {0}, NEW extend \in BOOLEAN
    PROVE  LET base == IF Len(s) - limit + 1 <= 1 THEN 1 ELSE Len(s) - limit + 1
           IN  /\ base \in 1 .. Len(s) + 1
               /\ RecentStart(s, limit, extend) \in 1 .. base
               /\ UserAt(From(s, base)) # {} => RecentStart(s, limit, extend) = base
<1>. DEFINE base == IF Len(s) - limit + 1 <= 1 THEN 1 ELSE Len(s) - limit + 1
            before == {k \in UserAt(s) : k < base}
<1>1. Len(s) \in Nat /\ limit \in Nat /\ limit >= 1
    BY LenIs
<1>2. Max({1, Len(s) - limit + 1}) = base
    <2>1. 1 \in Int /\ Len(s) - limit + 1 \in Int
        BY <1>1
    <2>2. Max({1, Len(s) - limit + 1}) = IF 1 >= Len(s) - limit + 1 THEN 1 ELSE Len(s) - limit + 1
        BY <2>1, PairIs
    <2>. QED BY <2>1, <2>2
<1>3. base \in 1 .. Len(s) + 1 /\ base \in Nat
    BY <1>1
<1>. HIDE DEF base
<1>4. RecentStart(s, limit, extend) =
          IF ~extend \/ Len(s) <= limit \/ UserAt(From(s, base)) # {} \/ before = {}
          THEN base ELSE WithDelivery(s, Max(before))
    BY <1>2 DEF RecentStart
<1>5. ASSUME before # {}
      PROVE  WithDelivery(s, Max(before)) \in 1 .. base
    <2>1. before \in SUBSET Nat /\ \A k \in before : k <= Len(s)
        BY <1>1, UserAtIs
    <2>2. Max(before) \in before
        <3>. HIDE DEF before
        <3>. QED BY <1>1, <1>5, <2>1, MaxIs
    <2>. DEFINE m == Max(before)
    <2>3. m \in 1 .. Len(s) /\ m < base
        BY <2>2, UserAtIs
    <2>. HIDE DEF m
    <2>4. WithDelivery(s, m) \in 1 .. m
        BY <2>3, WithDeliveryIs
    <2>5. WithDelivery(s, m) \in 1 .. base
        BY <1>1, <1>3, <2>3, <2>4
    <2>. QED BY <2>5 DEF m
<1>6. base \in 1 .. base
    BY <1>3
<1>7. RecentStart(s, limit, extend) \in 1 .. base
    BY <1>4, <1>5, <1>6
<1>8. UserAt(From(s, base)) # {} => RecentStart(s, limit, extend) = base
    BY <1>4
<1>. QED BY <1>3, <1>7, <1>8 DEF base

LEMMA FromSane ==
    ASSUME NEW s \in Seq(Entries), Sane(s), NEW f \in 1 .. Len(s) + 1
    PROVE  /\ From(s, f) \in Seq(Entries) /\ Sane(From(s, f))
           /\ Calls(From(s, f)) \subseteq Calls(s)
           /\ Len(From(s, f)) \in 0 .. Len(s)
<1>1. Len(s) \in Nat
    BY LenIs
<1>2. Len(s) \in f - 1 .. Len(s)
    BY <1>1
<1>3. Sane(From(s, f)) /\ Calls(From(s, f)) \subseteq Calls(s)
    BY <1>2, PartSane DEF From
<1>4. From(s, f) \in Seq(Entries) /\ Len(From(s, f)) = Len(s) - f + 1
    BY FromIs
<1>5. Len(s) - f + 1 \in 0 .. Len(s)
    BY <1>1
<1>. QED BY <1>3, <1>4, <1>5

LEMMA AtUserSane ==
    ASSUME NEW s \in Seq(Entries), Sane(s)
    PROVE  /\ AtUser(s) \in Seq(Entries) /\ Sane(AtUser(s))
           /\ Calls(AtUser(s)) \subseteq Calls(s)
           /\ Len(AtUser(s)) \in 0 .. Len(s)
<1>1. Len(s) \in Nat
    BY LenIs
<1>2. Len(s) \in 0 .. Len(s) /\ \A w \in 1 .. Len(s) : w \in 1 .. Len(s) + 1
    BY <1>1
<1>. QED BY <1>2, AtUserIs, FromSane

\* The conversation of a part.
LEMMA LegalAtUser ==
    ASSUME NEW s \in Seq(Entries), Sane(s), NEW f \in 1 .. Len(s) + 1
    PROVE  LET t == Legal(AtUser(From(s, f)))
           IN  /\ t \in Seq(Entries) /\ Tidy(t) /\ Calls(t) \subseteq Calls(s)
               /\ Len(t) \in 0 .. Len(s)
<1>. DEFINE a == From(s, f)
            b == AtUser(a)
<1>1. /\ a \in Seq(Entries) /\ Sane(a) /\ Calls(a) \subseteq Calls(s)
      /\ Len(a) \in 0 .. Len(s)
    BY FromSane
<1>. HIDE DEF a
<1>2. /\ b \in Seq(Entries) /\ Sane(b) /\ Calls(b) \subseteq Calls(a)
      /\ Len(b) \in 0 .. Len(a)
    BY <1>1, AtUserSane
<1>. HIDE DEF b
<1>3. Legal(b) \in Seq(Entries) /\ Tidy(Legal(b)) /\ Calls(Legal(b)) \subseteq Calls(b)
    BY <1>2, LegalTidy
<1>4. Len(Legal(b)) \in 0 .. Len(b)
    <2>1. LegalStart(b) \in 1 .. Len(b) + 1
        BY <1>2, LegalStartIs
    <2>2. Len(Legal(b)) = Len(b) - LegalStart(b) + 1
        BY <1>2, <2>1, FromIs DEF Legal
    <2>3. Len(b) \in Nat
        BY <1>2, LenIs
    <2>. QED BY <2>1, <2>2, <2>3
<1>5. Len(Legal(b)) \in 0 .. Len(s)
    <2>1. Len(s) \in Nat /\ Len(a) \in Nat /\ Len(b) \in Nat
        BY <1>1, <1>2, LenIs
    <2>. QED BY <1>1, <1>2, <1>4, <2>1
<1>. QED BY <1>1, <1>2, <1>3, <1>5 DEF a, b

\* What is no slash command.
Shown(s) == {k \in 1 .. Len(s) : s[k].of # -1}

LEMMA VisibleTidy ==
    ASSUME NEW s \in Seq(Entries)
    PROVE  /\ Visible(s) = Picked(s, Shown(s))
           /\ Shown(s) \in SUBSET (1 .. Len(s))
           /\ Tidy(s) => /\ Visible(s) \in Seq(Entries)
                         /\ Tidy(Visible(s))
                         /\ Calls(Visible(s)) = Calls(s)
<1>1. Visible(s) = Picked(s, Shown(s)) /\ Shown(s) \in SUBSET (1 .. Len(s))
    BY LenIs DEF Visible, Shown
<1>2. ASSUME NEW k \in 1 .. Len(s), s[k].role \in {"call", "tool"}
      PROVE  k \in Shown(s)
    <2>1. s[k] \in Entries
        BY LenIs
    <2>2. s[k].of = 0 \/ s[k].of \in Nat \ {0}
        BY <1>2, <2>1, Fields
    <2>3. s[k].of # -1
        BY <2>2
    <2>. QED BY <2>3 DEF Shown
<1>3. ASSUME Tidy(s)
      PROVE  /\ Picked(s, Shown(s)) \in Seq(Entries)
             /\ Tidy(Picked(s, Shown(s)))
             /\ Calls(Picked(s, Shown(s))) = Calls(s)
    BY <1>1, <1>2, <1>3, PickedTidy
<1>. QED BY <1>1, <1>3

\* The history is the conversation of an end of the messages.
LEMMA ReplayableIs ==
    ASSUME NEW s \in Seq(Entries), Sane(s), NEW c \in 0 .. Len(s),
           NEW limit \in Nat \ {0}, NEW extend \in BOOLEAN
    PROVE  LET t == Replayable(s, c, limit, extend)
           IN  /\ t \in Seq(Entries) /\ Tidy(t) /\ Calls(t) \subseteq Calls(s)
               /\ \E f \in 1 .. Len(s) + 1 :
                     /\ f <= c + 1 \/ f <= Len(s) - limit + 1
                     /\ t = Visible(Legal(AtUser(From(s, f))))
<1>. DEFINE first == IF c = 0 THEN 1 ELSE Min({c + 1, RecentStart(s, Suffix, TRUE)})
            r == From(s, first)
            whole == first <= c /\ Len(s) - c < limit
            start == IF whole THEN 1 ELSE RecentStart(r, limit, extend)
            f == first + start - 1
            t == Replayable(s, c, limit, extend)
<1>1. Len(s) \in Nat /\ c \in Nat /\ c <= Len(s) /\ limit \in Nat
    BY LenIs
<1>2. t = Visible(Legal(AtUser(From(r, start))))
    BY DEF Replayable
<1>. HIDE DEF t
<1>3. first \in 1 .. c + 1
    <2>1. CASE c = 0
        BY <2>1
    <2>2. CASE c # 0
        <3>. DEFINE q == RecentStart(s, Suffix, TRUE)
        <3>1. Suffix \in Nat \ {0}
            BY ConstantsAssumption
        <3>2. q \in Nat /\ q >= 1
            <4>1. LET base == IF Len(s) - Suffix + 1 <= 1 THEN 1 ELSE Len(s) - Suffix + 1
                  IN  base \in 1 .. Len(s) + 1 /\ q \in 1 .. base
                BY <3>1, RecentStartIs
            <4>. HIDE DEF q
            <4>. QED BY <1>1, <4>1
        <3>. HIDE DEF q
        <3>3. Min({c + 1, q}) = IF c + 1 <= q THEN c + 1 ELSE q
            <4>1. c + 1 \in Int /\ q \in Int
                BY <1>1, <3>2
            <4>. QED BY <4>1, PairIs
        <3>4. first = Min({c + 1, q})
            BY <2>2 DEF q
        <3>. HIDE DEF first
        <3>. QED BY <1>1, <3>2, <3>3, <3>4
    <2>. QED BY <2>1, <2>2
<1>. HIDE DEF first
<1>4. first \in 1 .. Len(s) + 1 /\ first \in Nat /\ first >= 1 /\ first <= c + 1
    BY <1>1, <1>3
<1>5. r \in Seq(Entries) /\ Len(r) = Len(s) - first + 1
    BY <1>4, FromIs
<1>. HIDE DEF r
<1>6. /\ start \in 1 .. Len(r) + 1
      /\ start = 1 \/ start <= Len(r) - limit + 1
    <2>1. CASE whole
        <3>1. start = 1
            BY <2>1
        <3>2. 1 \in 1 .. Len(r) + 1
            BY <1>1, <1>4, <1>5
        <3>. QED BY <3>1, <3>2
    <2>2. CASE ~whole
        <3>1. start = RecentStart(r, limit, extend)
            BY <2>2
        <3>2. LET base == IF Len(r) - limit + 1 <= 1 THEN 1 ELSE Len(r) - limit + 1
              IN  base \in 1 .. Len(r) + 1 /\ RecentStart(r, limit, extend) \in 1 .. base
            BY <1>5, RecentStartIs
        <3>3. Len(r) \in Nat
            BY <1>5, LenIs
        <3>. HIDE DEF start
        <3>. QED BY <1>1, <3>1, <3>2, <3>3
    <2>. QED BY <2>1, <2>2
<1>. HIDE DEF start
<1>7. f \in 1 .. Len(s) + 1 /\ From(r, start) = From(s, f)
    BY <1>4, <1>6, FromFrom DEF r
<1>8. f <= c + 1 \/ f <= Len(s) - limit + 1
    <2>1. CASE start = 1
        BY <1>1, <1>4, <2>1
    <2>2. CASE start <= Len(r) - limit + 1
        <3>1. start \in Int
            BY <1>1, <1>4, <1>5, <1>6
        <3>2. f <= Len(s) - limit + 1
            BY <1>1, <1>4, <1>5, <2>2, <3>1
        <3>. QED BY <3>2
    <2>. QED BY <1>6, <2>1, <2>2
<1>. HIDE DEF f
<1>9. t = Visible(Legal(AtUser(From(s, f))))
    BY <1>2, <1>7
<1>. DEFINE u == Legal(AtUser(From(s, f)))
<1>10. u \in Seq(Entries) /\ Tidy(u) /\ Calls(u) \subseteq Calls(s)
    BY <1>7, LegalAtUser
<1>11. t \in Seq(Entries) /\ Tidy(t) /\ Calls(t) \subseteq Calls(s)
    <2>. HIDE DEF u
    <2>1. Visible(u) \in Seq(Entries) /\ Tidy(Visible(u)) /\ Calls(Visible(u)) = Calls(u)
        BY <1>10, VisibleTidy
    <2>. QED BY <1>9, <1>10, <2>1 DEF u
<1>. QED BY <1>7, <1>8, <1>9, <1>11 DEF t
-----------------------------------------------------------------------------
(* The cursor and the cap *)

LEMMA OverflowIs ==
    ASSUME NEW s \in Seq(Entries), Sane(s), NEW c \in 0 .. Len(s)
    PROVE  Overflow(s, c) \in c .. Len(s)
<1>. DEFINE r == From(s, c + 1)
            start == RecentStart(r, Window, TRUE)
            shown == Legal(AtUser(From(r, start)))
            first == Len(s) - Len(shown)
<1>1. Len(s) \in Nat /\ c \in Nat /\ c <= Len(s) /\ c + 1 \in 1 .. Len(s) + 1
    BY LenIs
<1>2. Overflow(s, c) = IF Len(r) <= Window THEN c
                       ELSE IF shown = <<>> THEN Len(s)
                       ELSE Max({c, first})
    BY DEF Overflow
<1>3. /\ r \in Seq(Entries) /\ Sane(r) /\ Len(r) \in 0 .. Len(s)
    BY <1>1, FromSane
<1>. HIDE DEF r
<1>4. start \in 1 .. Len(r) + 1
    <2>1. Window \in Nat \ {0}
        BY ConstantsAssumption
    <2>2. LET base == IF Len(r) - Window + 1 <= 1 THEN 1 ELSE Len(r) - Window + 1
          IN  base \in 1 .. Len(r) + 1 /\ start \in 1 .. base
        BY <1>3, <2>1, RecentStartIs
    <2>3. Len(r) \in Nat
        BY <1>3, LenIs
    <2>. HIDE DEF start
    <2>. QED BY <2>1, <2>2, <2>3
<1>. HIDE DEF start
<1>5. Len(shown) \in 0 .. Len(r)
    BY <1>3, <1>4, LegalAtUser
<1>. HIDE DEF shown
<1>6. first \in Int /\ first <= Len(s)
    BY <1>1, <1>3, <1>5
<1>. HIDE DEF first
<1>7. Max({c, first}) = IF c >= first THEN c ELSE first
    BY <1>1, <1>6, PairIs
<1>. QED BY <1>1, <1>2, <1>6, <1>7

\* What retention keeps: a legal end of a part.
LEMMA RetainedIs ==
    ASSUME NEW s \in Seq(Entries), NEW limit \in Nat \ {0}, limit < Len(s)
    PROVE  \E a, b \in 1 .. Len(s) :
              /\ a <= b /\ b - a + 1 <= limit
              /\ Retained(s, limit) = a + LegalStart(SubSeq(s, a, b)) - 1 .. b
<1>. DEFINE recent == Len(s) - limit + 1 .. Len(s)
            users == recent \cap UserAt(s)
            window == IF users # {}
                      THEN Max({Min(recent), WithDelivery(s, Min(users))}) .. Len(s)
                      ELSE IF UserAt(s) # {}
                      THEN Max(UserAt(s)) .. Min({Len(s), Max(UserAt(s)) + limit - 1})
                      ELSE recent
            part == SubSeq(s, Min(window), Max(window))
<1>1. Len(s) \in Nat /\ limit \in Nat /\ limit >= 1
    BY LenIs
<1>2. Retained(s, limit) = {k \in window : k >= Min(window) + LegalStart(part) - 1}
    BY DEF Retained
<1>. DEFINE low == Len(s) - limit + 1
<1>3. low \in Nat /\ low \in 1 .. Len(s) /\ low <= Len(s) /\ Len(s) - low + 1 <= limit
    BY <1>1
<1>4. Min(recent) = low
    <2>. HIDE DEF low
    <2>1. Min(low .. Len(s)) = low
        BY <1>1, <1>3, IntervalIs
    <2>. QED BY <2>1 DEF low
<1>5. \E a, b \in 1 .. Len(s) : a <= b /\ b - a + 1 <= limit /\ window = a .. b
    <2>1. CASE users # {}
        <3>. DEFINE u == Min(users)
                    w == WithDelivery(s, u)
                    a == Max({low, w})
        <3>1. window = a .. Len(s)
            BY <1>4, <2>1
        <3>2. u \in 1 .. Len(s) /\ u \in low .. Len(s)
            <4>1. users \in SUBSET Nat /\ users \subseteq 1 .. Len(s) /\ users \subseteq low .. Len(s)
                BY <1>1, UserAtIs
            <4>. HIDE DEF users
            <4>2. u \in users
                BY <2>1, <4>1, MinIs
            <4>. QED BY <4>1, <4>2
        <3>. HIDE DEF u
        <3>3. w \in 1 .. u
            BY <3>2, WithDeliveryIs
        <3>. HIDE DEF w
        <3>4. w \in Int /\ w <= Len(s)
            BY <1>1, <3>2, <3>3
        <3>5. a = IF low >= w THEN low ELSE w
            BY <1>3, <3>4, PairIs
        <3>. HIDE DEF a, low, window
        <3>6. a \in 1 .. Len(s) /\ a <= Len(s) /\ Len(s) - a + 1 <= limit /\ Len(s) \in 1 .. Len(s)
            BY <1>1, <1>3, <3>4, <3>5
        <3>. QED BY <3>1, <3>6
    <2>2. CASE users = {} /\ UserAt(s) # {}
        <3>. DEFINE u == Max(UserAt(s))
                    b == Min({Len(s), u + limit - 1})
        <3>1. window = u .. b
            BY <2>2
        <3>2. u \in 1 .. Len(s)
            BY <2>2, UserAtIs
        <3>. HIDE DEF u
        <3>3. u \in Nat /\ u + limit - 1 \in Int
            BY <1>1, <3>2
        <3>4. Len(s) \in Int
            BY <1>1
        <3>5. b = IF Len(s) <= u + limit - 1 THEN Len(s) ELSE u + limit - 1
            BY <3>3, <3>4, PairIs
        <3>. HIDE DEF b, window
        <3>6. b \in 1 .. Len(s) /\ u <= b /\ b - u + 1 <= limit
            BY <1>1, <3>2, <3>3, <3>5
        <3>. QED BY <3>1, <3>2, <3>6
    <2>3. CASE users = {} /\ UserAt(s) = {}
        <3>1. window = low .. Len(s)
            BY <2>3
        <3>2. Len(s) \in 1 .. Len(s)
            BY <1>3, <1>1
        <3>. HIDE DEF low, window
        <3>. QED BY <1>3, <3>1, <3>2
    <2>. QED BY <2>1, <2>2, <2>3
<1>6. PICK a \in 1 .. Len(s), b \in 1 .. Len(s) :
          a <= b /\ b - a + 1 <= limit /\ window = a .. b
    BY <1>5
<1>. HIDE DEF window, low
<1>7. Min(window) = a /\ Max(window) = b
    <2>1. a \in Nat /\ b \in Nat
        BY <1>1
    <2>2. Min(a .. b) = a /\ Max(a .. b) = b
        BY <1>6, <2>1, IntervalIs
    <2>. QED BY <1>6, <2>2
<1>. DEFINE l == LegalStart(SubSeq(s, a, b))
<1>8. Retained(s, limit) = {k \in a .. b : k >= a + l - 1}
    BY <1>2, <1>6, <1>7
<1>9. l \in Nat /\ l >= 1
    <2>1. a \in 1 .. Len(s) + 1 /\ b \in a - 1 .. Len(s)
        BY <1>1, <1>6
    <2>2. SubSeq(s, a, b) \in Seq(Entries)
        BY <2>1, PartIs
    <2>3. l \in 1 .. Len(SubSeq(s, a, b)) + 1 /\ Len(SubSeq(s, a, b)) \in Nat
        BY <2>2, LegalStartIs, LenIs
    <2>. HIDE DEF l
    <2>. QED BY <2>3
<1>. HIDE DEF l
<1>10. Retained(s, limit) = a + l - 1 .. b
    <2>1. a \in Nat /\ b \in Nat
        BY <1>1
    <2>2. \A k : k \in a .. b /\ k >= a + l - 1 <=> k \in a + l - 1 .. b
        BY <1>9, <2>1
    <2>. QED BY <1>8, <2>2
<1>. QED BY <1>6, <1>10 DEF l

\* The cap leaves a conversation, and the cursor in it.
LEMMA CappedIs ==
    ASSUME NEW s \in Seq(Entries), Tidy(s), NEW c \in 0 .. Len(s)
    PROVE  LET m == Capped(s, c).messages
           IN  /\ m \in Seq(Entries) /\ Tidy(m) /\ Calls(m) \subseteq Calls(s)
               /\ Len(m) <= FileCap
               /\ Capped(s, c).cursor \in 0 .. Len(m)
<1>1. Len(s) \in Nat /\ FileCap \in Nat \ {0}
    BY LenIs, ConstantsAssumption
<1>2. CASE Len(s) <= FileCap
    <2>1. Capped(s, c) = [messages |-> s, cursor |-> c]
        BY <1>2 DEF Capped
    <2>. QED BY <1>2, <2>1
<1>3. CASE ~ (Len(s) <= FileCap)
    <2>. DEFINE R == Retained(s, FileCap)
                m == IF R = {} THEN <<>> ELSE SubSeq(s, Min(R), Max(R))
                n == Cardinality({k \in R : k <= c})
    <2>1. Capped(s, c).messages = m /\ Capped(s, c).cursor = n
        BY <1>3 DEF Capped
    <2>2. FileCap < Len(s)
        BY <1>1, <1>3
    <2>3. PICK a \in 1 .. Len(s), b \in 1 .. Len(s) :
              a <= b /\ b - a + 1 <= FileCap /\ R = a + LegalStart(SubSeq(s, a, b)) - 1 .. b
        BY <1>1, <2>2, RetainedIs
    <2>. DEFINE p == SubSeq(s, a, b)
                l == LegalStart(p)
    <2>4. a \in Nat /\ b \in Nat /\ a >= 1 /\ b <= Len(s)
          /\ a \in 1 .. Len(s) + 1 /\ b \in a - 1 .. Len(s)
        BY <1>1, <2>3
    <2>5. /\ p \in Seq(Entries) /\ Len(p) = b - a + 1 /\ Sane(p) /\ Calls(p) \subseteq Calls(s)
        BY <2>4, PartIs, PartSane DEF Tidy
    <2>6. \A k \in 1 .. b - a + 1 : p[k] = s[a + k - 1]
        BY <2>4, PartIs
    <2>7. R = a + l - 1 .. b
        BY <2>3
    <2>. HIDE DEF p, R
    <2>8. l \in 1 .. Len(p) + 1 /\ l \in Nat /\ l >= 1
        <3>1. l \in 1 .. Len(p) + 1 /\ Len(p) \in Nat
            BY <2>5, LegalStartIs, LenIs
        <3>. HIDE DEF l
        <3>. QED BY <3>1
    <2>9. Legal(p) \in Seq(Entries) /\ Tidy(Legal(p)) /\ Calls(Legal(p)) \subseteq Calls(p)
        BY <2>5, LegalTidy
    <2>. HIDE DEF l, m, n
    <2>10. IsFiniteSet(R) /\ Cardinality(R) = IF a + l - 1 > b THEN 0 ELSE b - (a + l - 1) + 1
        <3>. DEFINE g == a + l - 1
        <3>1. g \in Int /\ b \in Int
            BY <2>4, <2>8
        <3>. HIDE DEF g
        <3>2. IsFiniteSet(g .. b) /\ Cardinality(g .. b) = IF g > b THEN 0 ELSE b - g + 1
            BY <3>1, FS_Interval
        <3>. QED BY <2>7, <3>2 DEF g
    <2>11. n \in Nat /\ n <= Cardinality(R)
        <3>1. {k \in R : k <= c} \in SUBSET R
            OBVIOUS
        <3>2. IsFiniteSet({k \in R : k <= c}) /\ n <= Cardinality(R)
            BY <2>10, <3>1, FS_Subset DEF n
        <3>. QED BY <3>2, FS_CardinalityType DEF n
    <2>12. CASE a + l - 1 > b
        <3>1. R = {}
            BY <2>4, <2>7, <2>8, <2>12
        <3>2. m = <<>>
            BY <3>1 DEF m
        <3>3. n = 0
            BY <2>10, <2>11, <2>12
        <3>4. Calls(m) \subseteq Calls(s) /\ m \in Seq(Entries) /\ Tidy(m) /\ Len(m) = 0
            BY <3>2, EmptyTidy
        <3>. QED BY <1>1, <2>1, <3>3, <3>4
    <2>13. CASE ~ (a + l - 1 > b)
        <3>. DEFINE g == a + l - 1
        <3>1. g \in Nat /\ g <= b /\ g >= a
            BY <2>4, <2>8, <2>13
        <3>2. R # {} /\ Min(R) = g /\ Max(R) = b
            <4>1. R = g .. b /\ g \in g .. b
                BY <2>4, <2>7, <3>1
            <4>. HIDE DEF g
            <4>. QED BY <2>4, <3>1, <4>1, IntervalIs
        <3>3. m = SubSeq(s, g, b)
            BY <3>2 DEF m
        <3>4. m = Legal(p)
            <4>1. /\ Legal(p) = From(p, l) /\ Len(From(p, l)) = Len(p) - l + 1
                  /\ \A k \in 1 .. Len(p) - l + 1 : From(p, l)[k] = p[l + k - 1]
                BY <2>5, <2>8, FromIs DEF Legal, l
            <4>2. g \in 1 .. Len(s) + 1 /\ b \in g - 1 .. Len(s)
                BY <1>1, <2>4, <3>1
            <4>. DEFINE q == SubSeq(s, g, b)
            <4>. HIDE DEF g
            <4>3. /\ q \in Seq(Entries) /\ Len(q) = b - g + 1
                  /\ \A k \in 1 .. b - g + 1 : q[k] = s[g + k - 1]
                BY <4>2, PartIs
            <4>. HIDE DEF q
            <4>4. b - g + 1 = Len(p) - l + 1
                BY <2>4, <2>5, <2>8 DEF g
            <4>5. \A k \in 1 .. b - g + 1 : q[k] = Legal(p)[k]
                <5>1. TAKE k \in 1 .. b - g + 1
                <5>2. l + k - 1 \in 1 .. b - a + 1 /\ a + (l + k - 1) - 1 = g + k - 1
                    BY <2>4, <2>8 DEF g
                <5>. QED BY <2>6, <4>1, <4>3, <4>4, <5>2
            <4>6. q = Legal(p)
                BY <2>9, <4>1, <4>3, <4>4, <4>5, SeqEqual
            <4>. QED BY <3>3, <4>6 DEF q
        <3>5. Len(m) = b - g + 1
            <4>1. Len(Legal(p)) = Len(p) - l + 1
                BY <2>5, <2>8, FromIs DEF Legal, l
            <4>. QED BY <2>4, <2>5, <2>8, <3>4, <4>1
        <3>6. Cardinality(R) = b - g + 1
            BY <2>10, <2>13
        <3>7. Len(m) <= FileCap /\ n \in 0 .. Len(m)
            <4>1. b - a + 1 <= FileCap
                BY <2>3
            <4>. QED BY <1>1, <2>4, <2>11, <3>1, <3>5, <3>6, <4>1
        <3>8. m \in Seq(Entries) /\ Tidy(m) /\ Calls(m) \subseteq Calls(s)
            BY <2>5, <2>9, <3>4
        <3>. QED BY <2>1, <3>7, <3>8
    <2>. QED BY <2>12, <2>13
<1>. QED BY <1>2, <1>3
-----------------------------------------------------------------------------
(* What the history leaves out *)

LEMMA ReverseIs ==
    ASSUME NEW s \in Seq(Entries)
    PROVE  /\ Reverse(s) \in Seq(Entries) /\ Len(Reverse(s)) = Len(s)
           /\ \A i \in 1 .. Len(s) : Reverse(s)[i] = s[Len(s) - i + 1]
<1>1. Len(s) \in Nat /\ \A k \in 1 .. Len(s) : s[k] \in Entries
    BY LenIs
<1>. DEFINE n == Len(s)
            q == [i \in 1 .. n |-> s[n - i + 1]]
<1>2. Reverse(s) = q
    BY DEF Reverse
<1>3. \A i \in 1 .. n : n - i + 1 \in 1 .. n
    BY <1>1
<1>4. q \in [1 .. n -> Entries]
    BY <1>1, <1>3
<1>5. \A i \in 1 .. n : q[i] = s[n - i + 1]
    OBVIOUS
<1>. HIDE DEF q, n
<1>6. n \in Nat
    BY <1>1 DEF n
<1>7. q \in Seq(Entries) /\ Len(q) = n
    BY <1>4, <1>6
<1>. QED BY <1>2, <1>5, <1>7 DEF n

LEMMA SuffixIs ==
    ASSUME NEW a \in Seq(Entries), NEW b \in Seq(Entries)
    PROVE  IsSuffix(b, a \o b)
<1>. DEFINE t == a \o b
            x == Reverse(b)
            y == Reverse(t)
            n == Len(b)
<1>1. Len(a) \in Nat /\ n \in Nat
    BY LenIs
<1>2. t \in Seq(Entries) /\ Len(t) = Len(a) + n /\ \A i \in 1 .. n : t[Len(a) + i] = b[i]
    BY ConcatIs
<1>. HIDE DEF t
<1>3. x \in Seq(Entries) /\ Len(x) = n /\ \A i \in 1 .. n : x[i] = b[n - i + 1]
    BY ReverseIs
<1>4. /\ y \in Seq(Entries) /\ Len(y) = Len(a) + n
      /\ \A i \in 1 .. Len(a) + n : y[i] = t[Len(a) + n - i + 1]
    <2>1. y \in Seq(Entries) /\ Len(y) = Len(t) /\ \A i \in 1 .. Len(t) : y[i] = t[Len(t) - i + 1]
        BY <1>2, ReverseIs
    <2>. HIDE DEF y
    <2>. QED BY <1>2, <2>1
<1>. HIDE DEF x, y, n
<1>5. \A i \in 1 .. n : x[i] = y[i]
    <2>1. TAKE i \in 1 .. n
    <2>2. /\ i \in 1 .. Len(a) + n /\ n - i + 1 \in 1 .. n
          /\ Len(a) + (n - i + 1) = Len(a) + n - i + 1
        BY <1>1
    <2>3. t[Len(a) + n - i + 1] = b[n - i + 1]
        BY <1>2, <2>2
    <2>. QED BY <1>3, <1>4, <2>2, <2>3
<1>6. /\ SubSeq(x, 1, n) \in Seq(Entries) /\ Len(SubSeq(x, 1, n)) = n
      /\ \A k \in 1 .. n : SubSeq(x, 1, n)[k] = x[k]
    <2>1. 1 \in 1 .. Len(x) + 1 /\ n \in 1 - 1 .. Len(x) /\ n - 1 + 1 = n
        BY <1>1, <1>3
    <2>2. \A k \in 1 .. n : 1 + k - 1 = k
        BY <1>1
    <2>. QED BY <1>3, <2>1, <2>2, PartIs
<1>7. /\ SubSeq(y, 1, n) \in Seq(Entries) /\ Len(SubSeq(y, 1, n)) = n
      /\ \A k \in 1 .. n : SubSeq(y, 1, n)[k] = y[k]
    <2>1. 1 \in 1 .. Len(y) + 1 /\ n \in 1 - 1 .. Len(y) /\ n - 1 + 1 = n
        BY <1>1, <1>4
    <2>2. \A k \in 1 .. n : 1 + k - 1 = k
        BY <1>1
    <2>. QED BY <1>4, <2>1, <2>2, PartIs
<1>8. SubSeq(x, 1, n) = SubSeq(y, 1, n)
    BY <1>5, <1>6, <1>7, SeqEqual
<1>9. Len(x) <= Len(y)
    BY <1>1, <1>3, <1>4
<1>. QED BY <1>3, <1>8, <1>9 DEF IsSuffix, IsPrefix, t, x, y

LEMMA VisibleConcat ==
    ASSUME NEW a \in Seq(Entries), NEW b \in Seq(Entries)
    PROVE  Visible(a \o b) = Visible(a) \o Visible(b)
<1>. DEFINE n == Len(a)
            t == a \o b
<1>1. n \in Nat /\ Len(b) \in Nat
    BY LenIs
<1>2. /\ t \in Seq(Entries)
      /\ Len(t) = n + Len(b)
      /\ \A i \in 1 .. n : t[i] = a[i]
      /\ \A i \in 1 .. Len(b) : t[n + i] = b[i]
    BY ConcatIs
<1>3. \A i \in 1 .. n + Len(b) :
          i \in 1 .. n \/ (i > n /\ i - n \in 1 .. Len(b))
    BY ConcatIs
<1>4. Shown(t) = Shown(a) \cup {n + j : j \in Shown(b)}
    <2>. HIDE DEF t
    <2>1. ASSUME NEW i \in Shown(t)
          PROVE  i \in Shown(a) \cup {n + j : j \in Shown(b)}
        <3>1. i \in 1 .. n + Len(b) /\ t[i].of # -1
            BY <1>2 DEF Shown
        <3>2. CASE i \in 1 .. n
            BY <1>2, <3>1, <3>2 DEF Shown
        <3>3. CASE i - n \in 1 .. Len(b)
            <4>1. n + (i - n) = i
                BY <1>1, <3>1
            <4>2. i - n \in Shown(b)
                BY <1>2, <3>1, <3>3, <4>1 DEF Shown
            <4>. QED BY <4>1, <4>2
        <3>. QED BY <1>3, <3>1, <3>2, <3>3
    <2>2. ASSUME NEW i \in Shown(a)
          PROVE  i \in Shown(t)
        <3>1. i \in 1 .. n /\ i \in 1 .. n + Len(b)
            BY <1>1 DEF Shown
        <3>. QED BY <1>2, <3>1 DEF Shown
    <2>3. ASSUME NEW j \in Shown(b)
          PROVE  n + j \in Shown(t)
        <3>1. j \in 1 .. Len(b) /\ n + j \in 1 .. n + Len(b)
            BY <1>1 DEF Shown
        <3>. QED BY <1>2, <3>1 DEF Shown
    <2>. QED BY <2>1, <2>2, <2>3
<1>5. Picked(t, Shown(a) \cup {n + j : j \in Shown(b)})
          = Picked(a, Shown(a)) \o Picked(b, Shown(b))
    <2>. DEFINE K == Shown(a)
                J == Shown(b)
    <2>1. K \in SUBSET (1 .. Len(a)) /\ J \in SUBSET (1 .. Len(b))
        BY VisibleTidy
    <2>. HIDE DEF K, J
    <2>2. Picked(a \o b, K \cup {Len(a) + j : j \in J}) = Picked(a, K) \o Picked(b, J)
        BY <2>1, PickedConcat, ZenonT(60)
    <2>. QED BY <2>2 DEF K, J
<1>. QED BY <1>2, <1>4, <1>5, VisibleTidy

\* Before a user message, nothing more is cut than the messages ahead of one.
LEMMA ShownFrom ==
    ASSUME NEW s \in Seq(Entries), Tidy(s), NEW f \in 1 .. Len(s) + 1,
           NEW u \in 1 .. Len(s), f <= u, s[u].role = "user"
    PROVE  \E g \in f .. u : Legal(AtUser(From(s, f))) = From(s, g)
<1>. DEFINE a == From(s, f)
            k == u - f + 1
<1>1. Len(s) \in Nat /\ u \in Nat /\ f \in Nat /\ f >= 1 /\ u <= Len(s)
    BY LenIs
<1>2. /\ a \in Seq(Entries) /\ Len(a) = Len(s) - f + 1
      /\ \A i \in 1 .. Len(s) - f + 1 : a[i] = s[f + i - 1]
    BY FromIs
<1>3. k \in 1 .. Len(a) /\ a[k].role = "user"
    <2>1. k \in 1 .. Len(s) - f + 1 /\ f + k - 1 = u
        BY <1>1
    <2>. HIDE DEF k, a
    <2>. QED BY <1>2, <2>1
<1>. HIDE DEF a
<1>4. k \in UserAt(a)
    BY <1>2, <1>3, UserAtIs
<1>5. PICK w \in 1 .. Len(a) : /\ AtUser(a) = From(a, w)
                              /\ a[w].role \in {"user", "delivery"}
                              /\ w <= k
    BY <1>2, <1>4, AtUserIs
<1>. DEFINE g == f + w - 1
<1>6. w \in Nat /\ w >= 1 /\ w <= Len(s) - f + 1
    BY <1>1, <1>2
<1>7. g \in f .. u /\ g \in 1 .. Len(s) + 1
    BY <1>1, <1>5, <1>6
<1>8. w \in 1 .. Len(a) + 1
    BY <1>1, <1>2, <1>6
<1>9. AtUser(a) = From(s, g)
    <2>1. From(From(s, f), w) = From(s, f + w - 1)
        BY <1>8, FromFrom DEF a
    <2>. QED BY <1>5, <2>1 DEF a
<1>10. s[g].role # "tool"
    <2>1. a[w] = s[g]
        BY <1>1, <1>2, <1>6
    <2>. QED BY <1>5, <2>1
<1>. HIDE DEF g, k
<1>11. From(s, g) \in Seq(Entries) /\ Tidy(From(s, g))
    BY <1>7, <1>10, SuffixTidy
<1>12. Legal(From(s, g)) = From(s, g)
    BY <1>11, LegalIs DEF Tidy
<1>. QED BY <1>7, <1>9, <1>12 DEF a

\* With a user message in the replay window, what it hides is archived.
LEMMA BoundaryIs ==
    ASSUME NEW s \in Seq(Entries), Sane(s), NEW c \in 0 .. Len(s),
           UserAt(From(s, Max({1, Len(s) - Window + 1}))) # {}
    PROVE  Overflow(s, c) >= Len(s) - Window
<1>. DEFINE r == From(s, c + 1)
            start == RecentStart(r, Window, TRUE)
            shown == Legal(AtUser(From(r, start)))
            first == Len(s) - Len(shown)
            low == Len(s) - Window + 1
<1>1. /\ Len(s) \in Nat /\ c \in Nat /\ c <= Len(s) /\ c + 1 \in 1 .. Len(s) + 1
      /\ Window \in Nat /\ Window >= 1 /\ Window \in Nat \ {0}
    BY LenIs, ConstantsAssumption
<1>2. Overflow(s, c) = IF Len(r) <= Window THEN c
                       ELSE IF shown = <<>> THEN Len(s)
                       ELSE Max({c, first})
    BY DEF Overflow
<1>3. r \in Seq(Entries) /\ Len(r) = Len(s) - c
    <2>1. r \in Seq(Entries) /\ Len(r) = Len(s) - (c + 1) + 1
        BY <1>1, FromIs
    <2>. QED BY <1>1, <2>1
<1>4. CASE Len(r) <= Window
    <2>. HIDE DEF r, first, shown
    <2>. QED BY <1>1, <1>2, <1>3, <1>4
<1>5. CASE ~ (Len(r) <= Window)
    <2>. DEFINE base == Len(r) - Window + 1
    <2>1. low \in 1 .. Len(s) + 1 /\ low >= 1 /\ low \in Int /\ base > 1 /\ (c + 1) + base - 1 = low
        BY <1>1, <1>3, <1>5
    <2>2. base \in 1 .. Len(r) + 1
        BY <1>1, <1>3, <1>5
    <2>3. Max({1, low}) = low
        <3>. HIDE DEF low
        <3>1. 1 \in Int
            OBVIOUS
        <3>2. Max({1, low}) = IF 1 >= low THEN 1 ELSE low
            BY <2>1, <3>1, PairIs
        <3>. QED BY <2>1, <3>2
    <2>4. From(r, base) = From(s, low)
        <3>. HIDE DEF base, low
        <3>1. From(r, base) = From(s, (c + 1) + base - 1)
            BY <1>1, <2>2, FromFrom DEF r
        <3>. QED BY <2>1, <3>1
    <2>5. UserAt(From(s, low)) # {}
        BY <2>3
    <2>6. start = base
        <3>1. LET b == IF Len(r) - Window + 1 <= 1 THEN 1 ELSE Len(r) - Window + 1
              IN  UserAt(From(r, b)) # {} => start = b
            BY <1>1, <1>3, RecentStartIs
        <3>2. (IF Len(r) - Window + 1 <= 1 THEN 1 ELSE Len(r) - Window + 1) = base
            BY <1>1, <1>3, <1>5
        <3>. HIDE DEF base, start, r
        <3>. QED BY <2>4, <2>5, <3>1, <3>2
    <2>. DEFINE v == From(s, low)
    <2>7. /\ v \in Seq(Entries) /\ Len(v) = Len(s) - low + 1
          /\ Sane(v)
        BY <2>1, FromIs, FromSane
    <2>8. shown = Legal(AtUser(v))
        BY <2>4, <2>6
    <2>9. Len(v) = Window
        <3>. HIDE DEF v
        <3>. QED BY <1>1, <2>7
    <2>. HIDE DEF v, r, start
    <2>10. Len(shown) \in 0 .. Window
        <3>1. 1 \in 1 .. Len(v) + 1
            BY <1>1, <2>9
        <3>2. Len(Legal(AtUser(From(v, 1)))) \in 0 .. Len(v)
            BY <2>7, <3>1, LegalAtUser
        <3>3. From(v, 1) = v
            BY <2>7, <3>1, FromIs
        <3>. QED BY <2>8, <2>9, <3>2, <3>3
    <2>. HIDE DEF shown
    <2>11. first \in Int /\ first >= Len(s) - Window
        BY <1>1, <2>10
    <2>. HIDE DEF first
    <2>12. Max({c, first}) = IF c >= first THEN c ELSE first
        BY <1>1, <2>11, PairIs
    <2>. QED BY <1>1, <1>2, <1>5, <2>11, <2>12
<1>. QED BY <1>4, <1>5
-----------------------------------------------------------------------------
(* The token limit of the history *)

\* The limit cuts at a user message, and not behind one from which on everything
\* fits, nor behind the last one.
LEMMA TokenTailIs ==
    ASSUME NEW h \in Seq(Entries), h # <<>>, NEW tokens \in Nat
    PROVE  \E g \in 1 .. Len(h) :
              /\ TokenTail(h, tokens) = Legal(From(h, g))
              /\ \A n \in 1 .. Len(h) :
                    /\ h[n].role = "user"
                    /\ \/ Tokens(From(h, n)) <= tokens
                       \/ \A k \in n + 1 .. Len(h) : h[k].role # "user"
                    => g <= n /\ h[g].role = "user"
<1>. DEFINE fits == {k \in DOMAIN h : k = Len(h) \/ Tokens(From(h, k)) <= tokens}
            first == Min(fits)
            kept == From(h, first)
            tail == IF UserAt(kept) # {} THEN From(kept, Min(UserAt(kept)))
                    ELSE IF UserAt(h) # {} THEN From(h, Max(UserAt(h)))
                    ELSE kept
            Bound(n) == /\ h[n].role = "user"
                        /\ \/ Tokens(From(h, n)) <= tokens
                           \/ \A k \in n + 1 .. Len(h) : h[k].role # "user"
<1>1. TokenTail(h, tokens) = Legal(tail)
    BY DEF TokenTail
<1>2. Len(h) \in Nat /\ DOMAIN h = 1 .. Len(h) /\ Len(h) >= 1
    <2>1. Len(h) \in Nat /\ DOMAIN h = 1 .. Len(h) /\ Len(h) # 0
        BY LenIs, EmptySeq
    <2>. QED BY <2>1
<1>3. fits \in SUBSET Nat /\ Len(h) \in fits /\ fits \subseteq 1 .. Len(h)
    BY <1>2
<1>4. first \in 1 .. Len(h) /\ \A k \in fits : first <= k
    <2>. HIDE DEF fits
    <2>. QED BY <1>3, MinIs
<1>5. \A n \in 1 .. Len(h) : Tokens(From(h, n)) <= tokens => first <= n
    BY <1>2, <1>4
<1>. HIDE DEF fits, first, kept, tail
<1>6. first \in Nat /\ first >= 1 /\ first <= Len(h) /\ first \in 1 .. Len(h) + 1
    BY <1>2, <1>4
<1>7. /\ kept \in Seq(Entries) /\ Len(kept) = Len(h) - first + 1
      /\ \A k \in 1 .. Len(h) - first + 1 : kept[k] = h[first + k - 1]
    BY <1>6, FromIs DEF kept
<1>8. ASSUME NEW n \in 1 .. Len(h), h[n].role = "user", first <= n
      PROVE  n - first + 1 \in UserAt(kept)
    <2>1. n - first + 1 \in 1 .. Len(h) - first + 1 /\ first + (n - first + 1) - 1 = n
        BY <1>2, <1>6, <1>8
    <2>2. kept[n - first + 1] = h[n]
        BY <1>7, <2>1
    <2>. QED BY <1>7, <1>8, <2>1, <2>2, UserAtIs
<1>9. CASE UserAt(kept) # {}
    <2>. DEFINE m == Min(UserAt(kept))
                g == first + m - 1
    <2>1. m \in 1 .. Len(kept) /\ kept[m].role = "user" /\ \A k \in UserAt(kept) : m <= k
        BY <1>7, <1>9, UserAtIs
    <2>2. tail = From(kept, m)
        BY <1>9 DEF tail
    <2>. HIDE DEF m
    <2>3. m \in Nat /\ m >= 1 /\ m <= Len(h) - first + 1 /\ m \in 1 .. Len(From(h, first)) + 1
        BY <1>2, <1>6, <1>7, <2>1 DEF kept
    <2>4. From(kept, m) = From(h, g)
        BY <1>6, <2>3, FromFrom DEF kept
    <2>5. g \in 1 .. Len(h) /\ h[g].role = "user" /\ g \in Nat
        BY <1>2, <1>6, <1>7, <2>1, <2>3
    <2>6. ASSUME NEW n \in 1 .. Len(h), Bound(n)
          PROVE  g <= n
        <3>1. CASE first <= n
            <4>1. m <= n - first + 1
                BY <1>8, <2>1, <2>6, <3>1
            <4>. QED BY <1>2, <1>6, <2>3, <4>1
        <3>2. CASE ~ (first <= n)
            <4>1. \A k \in n + 1 .. Len(h) : h[k].role # "user"
                BY <1>5, <2>6, <3>2
            <4>2. g \in n + 1 .. Len(h)
                BY <1>2, <1>6, <2>3, <2>5, <3>2
            <4>. QED BY <2>5, <4>1, <4>2
        <3>. QED BY <3>1, <3>2
    <2>. HIDE DEF g
    <2>. QED BY <1>1, <2>2, <2>4, <2>5, <2>6
<1>10. CASE UserAt(kept) = {} /\ UserAt(h) # {}
    <2>. DEFINE g == Max(UserAt(h))
    <2>1. g \in 1 .. Len(h) /\ h[g].role = "user" /\ \A k \in UserAt(h) : k <= g
        BY <1>10, UserAtIs
    <2>2. tail = From(h, g)
        BY <1>10 DEF tail
    <2>. HIDE DEF g
    <2>3. ASSUME NEW n \in 1 .. Len(h), Bound(n)
          PROVE  g <= n
        <3>1. ~ (first <= n)
            BY <1>8, <1>10, <2>3
        <3>2. \A k \in n + 1 .. Len(h) : h[k].role # "user"
            BY <1>5, <2>3, <3>1
        <3>. QED BY <1>2, <2>1, <3>2
    <2>. QED BY <1>1, <2>1, <2>2, <2>3
<1>11. CASE UserAt(h) = {} /\ UserAt(kept) = {}
    <2>1. tail = From(h, first)
        BY <1>11 DEF tail, kept
    <2>2. \A n \in 1 .. Len(h) : h[n].role # "user"
        BY <1>11, UserAtIs
    <2>. QED BY <1>1, <1>4, <2>1, <2>2
<1>. QED BY <1>9, <1>10, <1>11

\* What the limit leaves is a conversation.
LEMMA TokenTailTidy ==
    ASSUME NEW h \in Seq(Entries), Tidy(h), NEW tokens \in Nat
    PROVE  /\ TokenTail(h, tokens) \in Seq(Entries)
           /\ Tidy(TokenTail(h, tokens))
           /\ Calls(TokenTail(h, tokens)) \subseteq Calls(h)
<1>1. CASE h = <<>>
    BY <1>1 DEF TokenTail
<1>2. CASE h # <<>>
    <2>1. PICK g \in 1 .. Len(h) : TokenTail(h, tokens) = Legal(From(h, g))
        BY <1>2, TokenTailIs
    <2>. DEFINE t == From(h, g)
    <2>2. t \in Seq(Entries) /\ Sane(t) /\ Calls(t) \subseteq Calls(h)
        <3>1. g \in 1 .. Len(h) + 1
            BY LenIs
        <3>. QED BY <3>1, FromSane DEF Tidy
    <2>. HIDE DEF t
    <2>3. Legal(t) \in Seq(Entries) /\ Tidy(Legal(t)) /\ Calls(Legal(t)) \subseteq Calls(t)
        BY <2>2, LegalTidy
    <2>. QED BY <2>1, <2>2, <2>3 DEF t
<1>. QED BY <1>1, <1>2

\* A part in front, and the end.
LEMMA Divided ==
    ASSUME NEW s \in Seq(Entries), NEW g \in 1 .. Len(s), NEW u \in g .. Len(s)
    PROVE  /\ SubSeq(s, g, u - 1) \in Seq(Entries)
           /\ From(s, u) \in Seq(Entries)
           /\ From(s, g) = SubSeq(s, g, u - 1) \o From(s, u)
<1>. DEFINE a == SubSeq(s, g, u - 1)
            b == From(s, u)
            w == From(s, g)
<1>1. /\ Len(s) \in Nat /\ u \in Nat /\ g \in Nat /\ g >= 1 /\ g <= u /\ u <= Len(s)
    BY LenIs
<1>2. /\ a \in Seq(Entries) /\ Len(a) = u - g
      /\ \A k \in 1 .. u - g : a[k] = s[g + k - 1]
    <2>1. g \in 1 .. Len(s) + 1 /\ u - 1 \in g - 1 .. Len(s) /\ (u - 1) - g + 1 = u - g
        BY <1>1
    <2>. QED BY <2>1, PartIs
<1>3. /\ b \in Seq(Entries) /\ Len(b) = Len(s) - u + 1
      /\ \A k \in 1 .. Len(s) - u + 1 : b[k] = s[u + k - 1]
    <2>1. u \in 1 .. Len(s) + 1
        BY <1>1
    <2>. QED BY <2>1, FromIs
<1>4. /\ w \in Seq(Entries) /\ Len(w) = Len(s) - g + 1
      /\ \A k \in 1 .. Len(s) - g + 1 : w[k] = s[g + k - 1]
    <2>1. g \in 1 .. Len(s) + 1
        BY <1>1
    <2>. QED BY <2>1, FromIs
<1>. HIDE DEF a, b, w
<1>5. /\ a \o b \in Seq(Entries) /\ Len(a \o b) = Len(a) + Len(b)
      /\ \A i \in 1 .. Len(a) : (a \o b)[i] = a[i]
      /\ \A i \in 1 .. Len(b) : (a \o b)[Len(a) + i] = b[i]
      /\ \A i \in 1 .. Len(a) + Len(b) :
            i \in 1 .. Len(a) \/ (i > Len(a) /\ i - Len(a) \in 1 .. Len(b))
    BY <1>2, <1>3, ConcatIs
<1>6. Len(w) = Len(a) + Len(b)
    BY <1>1, <1>2, <1>3, <1>4
<1>7. \A i \in 1 .. Len(w) : w[i] = (a \o b)[i]
    <2>1. TAKE i \in 1 .. Len(w)
    <2>2. CASE i \in 1 .. Len(a)
        BY <1>2, <1>4, <1>5, <2>2
    <2>3. CASE i > Len(a) /\ i - Len(a) \in 1 .. Len(b)
        <3>1. u + (i - Len(a)) - 1 = g + i - 1 /\ Len(a) + (i - Len(a)) = i
            BY <1>1, <1>2
        <3>2. (a \o b)[i] = b[i - Len(a)]
            BY <1>5, <2>3, <3>1
        <3>3. b[i - Len(a)] = s[u + (i - Len(a)) - 1]
            BY <1>3, <2>3
        <3>. QED BY <1>4, <3>1, <3>2, <3>3
    <2>. QED BY <1>5, <1>6, <2>2, <2>3
<1>8. w = a \o b
    BY <1>4, <1>5, <1>6, <1>7, SeqEqual
<1>. QED BY <1>2, <1>3, <1>8 DEF a, b, w

\* The end from a user message on stays when it fits, or has no other one.
LEMMA TokenTailKeeps ==
    ASSUME NEW h \in Seq(Entries), Tidy(h), NEW tokens \in Nat,
           NEW n \in 1 .. Len(h), h[n].role = "user",
           \/ Tokens(From(h, n)) <= tokens
           \/ \A k \in n + 1 .. Len(h) : h[k].role # "user"
    PROVE  IsSuffix(From(h, n), TokenTail(h, tokens))
<1>1. Len(h) \in Nat /\ h # <<>>
    BY LenIs, EmptySeq
<1>2. PICK g \in 1 .. Len(h) :
          TokenTail(h, tokens) = Legal(From(h, g)) /\ g <= n /\ h[g].role = "user"
    BY <1>1, TokenTailIs
<1>3. g \in 1 .. Len(h) + 1 /\ n \in g .. Len(h) /\ h[g].role # "tool"
    BY <1>1, <1>2
<1>4. From(h, g) \in Seq(Entries) /\ Tidy(From(h, g))
    BY <1>3, SuffixTidy
<1>5. Legal(From(h, g)) = From(h, g)
    BY <1>4, LegalIs DEF Tidy
<1>6. /\ SubSeq(h, g, n - 1) \in Seq(Entries) /\ From(h, n) \in Seq(Entries)
      /\ From(h, g) = SubSeq(h, g, n - 1) \o From(h, n)
    BY <1>3, Divided
<1>7. IsSuffix(From(h, n), SubSeq(h, g, n - 1) \o From(h, n))
    BY <1>6, SuffixIs
<1>. QED BY <1>2, <1>5, <1>6, <1>7

\* A replay that starts from the cursor has each user message behind it, and all
\* that follows.
LEMMA ReplayedIs ==
    ASSUME NEW s \in Seq(Entries), Tidy(s), NEW c \in 0 .. Len(s),
           NEW limit \in Nat \ {0}, c >= Len(s) - limit,
           NEW u \in 1 .. Len(s), u > c, s[u].role = "user", NEW extend \in BOOLEAN
    PROVE  /\ Replayable(s, c, limit, extend) \in Seq(Entries)
           /\ Tidy(Replayable(s, c, limit, extend))
           /\ Visible(From(s, u)) \in Seq(Entries)
           /\ \E a \in Seq(Entries) :
                 Replayable(s, c, limit, extend) = a \o Visible(From(s, u))
<1>1. Len(s) \in Nat /\ c \in Nat /\ u \in Nat /\ u >= 1 /\ u <= Len(s) /\ limit \in Nat
    BY LenIs
<1>. DEFINE t == Replayable(s, c, limit, extend)
<1>2. /\ t \in Seq(Entries) /\ Tidy(t)
      /\ \E f \in 1 .. Len(s) + 1 :
            /\ f <= c + 1 \/ f <= Len(s) - limit + 1
            /\ t = Visible(Legal(AtUser(From(s, f))))
    BY <1>1, ReplayableIs DEF Tidy
<1>. HIDE DEF t
<1>3. PICK f \in 1 .. Len(s) + 1 :
          /\ f <= c + 1 \/ f <= Len(s) - limit + 1
          /\ t = Visible(Legal(AtUser(From(s, f))))
    BY <1>2
<1>4. f <= u
    BY <1>1, <1>3
<1>5. PICK g \in f .. u : Legal(AtUser(From(s, f))) = From(s, g)
    BY <1>4, ShownFrom
<1>6. g \in 1 .. Len(s) /\ u \in g .. Len(s)
    BY <1>1, <1>3
<1>. DEFINE a == SubSeq(s, g, u - 1)
            b == From(s, u)
<1>7. a \in Seq(Entries) /\ b \in Seq(Entries) /\ From(s, g) = a \o b
    BY <1>6, Divided
<1>. HIDE DEF a, b
<1>8. Visible(a \o b) = Visible(a) \o Visible(b)
    BY <1>7, VisibleConcat
<1>9. Visible(a) \in Seq(Entries) /\ Visible(b) \in Seq(Entries)
    <2>1. \A q \in Seq(Entries) : Visible(q) \in Seq(Entries)
        <3>1. TAKE q \in Seq(Entries)
        <3>2. Visible(q) = Picked(q, Shown(q)) /\ Shown(q) \in SUBSET (1 .. Len(q))
            BY VisibleTidy
        <3>. QED BY <3>2, PickedIs
    <2>. QED BY <1>7, <2>1
<1>10. t = Visible(a) \o Visible(b)
    BY <1>3, <1>5, <1>7, <1>8
<1>. QED BY <1>2, <1>9, <1>10 DEF b, t

\* A message that is shown comes first in what is shown from there on.
LEMMA ShownFirst ==
    ASSUME NEW s \in Seq(Entries), NEW u \in 1 .. Len(s), s[u].of # -1
    PROVE  /\ Len(Visible(From(s, u))) >= 1
           /\ Visible(From(s, u))[1] = s[u]
<1>. DEFINE a == From(s, u)
            K == Shown(a)
            n == Cardinality(K)
<1>1. Len(s) \in Nat /\ u \in Nat /\ u >= 1 /\ u <= Len(s) /\ u \in 1 .. Len(s) + 1
    BY LenIs
<1>2. /\ a \in Seq(Entries) /\ Len(a) = Len(s) - u + 1
      /\ \A k \in 1 .. Len(s) - u + 1 : a[k] = s[u + k - 1]
    BY <1>1, FromIs
<1>. HIDE DEF a
<1>3. 1 \in 1 .. Len(s) - u + 1 /\ u + 1 - 1 = u
    BY <1>1
<1>4. a[1] = s[u] /\ 1 \in 1 .. Len(a)
    BY <1>2, <1>3
<1>5. 1 \in K
    BY <1>4 DEF Shown
<1>6. Visible(a) = Picked(a, K) /\ K \in SUBSET (1 .. Len(a))
    BY <1>2, VisibleTidy
<1>. HIDE DEF K
<1>7. /\ Picked(a, K) \in Seq(Entries) /\ Len(Picked(a, K)) = n /\ n \in Nat
      /\ \E e \in [1 .. n -> K] :
            /\ \A i, j \in 1 .. n : i < j <=> e[i] < e[j]
            /\ \A k \in K : \E i \in 1 .. n : e[i] = k
            /\ \A i \in 1 .. n : Picked(a, K)[i] = a[e[i]]
    BY <1>2, <1>6, PickedIs
<1>. HIDE DEF n
<1>8. PICK e \in [1 .. n -> K] :
            /\ \A i, j \in 1 .. n : i < j <=> e[i] < e[j]
            /\ \A k \in K : \E i \in 1 .. n : e[i] = k
            /\ \A i \in 1 .. n : Picked(a, K)[i] = a[e[i]]
    BY <1>7
<1>9. PICK i \in 1 .. n : e[i] = 1
    BY <1>5, <1>8
<1>10. i \in Nat /\ i >= 1 /\ n >= 1 /\ 1 \in 1 .. n
    BY <1>7
<1>11. e[1] \in K /\ e[1] \in 1 .. Len(a)
    BY <1>6, <1>8, <1>10
<1>12. ~ (e[1] < 1)
    BY <1>1, <1>2, <1>11
<1>13. i = 1
    <2>1. ~ (1 < i)
        <3>1. 1 < i => e[1] < e[i]
            BY <1>8, <1>9, <1>10
        <3>. QED BY <1>9, <1>12, <3>1
    <2>. QED BY <1>10, <2>1
<1>14. Picked(a, K)[1] = a[1]
    BY <1>8, <1>9, <1>10, <1>13
<1>. QED BY <1>4, <1>6, <1>7, <1>10, <1>14 DEF a
-----------------------------------------------------------------------------
(* Consolidation by tokens *)

LEMMA TokensConcat ==
    ASSUME NEW a \in Seq(Entries), NEW b \in Seq(Entries)
    PROVE  Tokens(a) + Tokens(b) <= Tokens(a \o b)
<1>. DEFINE t == a \o b
            n == Len(a)
            A == Large(a)
            B == Large(b)
            T == Large(t)
            C == {n + k : k \in B}
            f == [k \in B |-> n + k]
<1>1. n \in Nat /\ Len(b) \in Nat
    BY LenIs
<1>2. /\ t \in Seq(Entries) /\ Len(t) = n + Len(b)
      /\ \A i \in 1 .. n : t[i] = a[i]
      /\ \A i \in 1 .. Len(b) : t[n + i] = b[i]
    BY ConcatIs
<1>3. /\ IsFiniteSet(A) /\ Cardinality(A) \in Nat /\ Tokens(a) = n + (Big - 1) * Cardinality(A)
      /\ IsFiniteSet(B) /\ Cardinality(B) \in Nat /\ Tokens(b) = Len(b) + (Big - 1) * Cardinality(B)
      /\ IsFiniteSet(T) /\ Cardinality(T) \in Nat /\ Tokens(t) = Len(t) + (Big - 1) * Cardinality(T)
    BY <1>2, TokensIs
<1>. HIDE DEF t
<1>4. A \subseteq T /\ \A k \in A : k \in 1 .. n
    <2>1. \A k \in 1 .. n : k \in 1 .. n + Len(b)
        BY <1>1
    <2>. QED BY <1>2, <2>1 DEF Large
<1>5. C \subseteq T /\ \A k \in B : k \in 1 .. Len(b)
    <2>1. \A k \in 1 .. Len(b) : n + k \in 1 .. n + Len(b)
        BY <1>1
    <2>. QED BY <1>2, <2>1 DEF Large
<1>. HIDE DEF A, B, T
<1>6. A \cap C = {}
    <2>1. \A k \in B : n + k \notin 1 .. n
        BY <1>1, <1>5
    <2>. QED BY <1>4, <2>1
<1>7. IsFiniteSet(C) /\ Cardinality(C) \in Nat
    BY <1>3, <1>5, FS_Subset, FS_CardinalityType
<1>8. Cardinality(B) <= Cardinality(C)
    <2>1. f \in [B -> C]
        OBVIOUS
    <2>2. \A j, k \in B : f[j] = f[k] => j = k
        BY <1>1, <1>5
    <2>3. f \in Injection(B, C)
        BY <2>1, <2>2 DEF Injection, IsInjective
    <2>. HIDE DEF f, C
    <2>. QED BY <1>3, <1>7, <2>3, FS_Injection
<1>. HIDE DEF C
<1>9. Cardinality(A) + Cardinality(B) <= Cardinality(T)
    <2>1. /\ IsFiniteSet(A \cup C)
          /\ Cardinality(A \cup C) = Cardinality(A) + Cardinality(C) - Cardinality(A \cap C)
        BY <1>3, <1>7, FS_Union
    <2>2. Cardinality(A \cap C) = 0
        BY <1>6, FS_EmptySet
    <2>3. A \cup C \subseteq T
        BY <1>4, <1>5
    <2>4. Cardinality(A \cup C) <= Cardinality(T)
        BY <1>3, <2>3, FS_Subset
    <2>. QED BY <1>3, <1>7, <1>8, <2>1, <2>2, <2>4
<1>10. \A d, x, y, z \in Nat : x + y <= z => d * x + d * y <= d * z
    <2>1. TAKE d, x, y, z \in Nat
    <2>2. HAVE x + y <= z
    <2>3. x + y \in Nat
        OBVIOUS
    <2>4. d * (x + y) <= d * z
        BY <2>2, <2>3, Times
    <2>5. d * (x + y) = d * x + d * y
        OBVIOUS
    <2>. QED BY <2>4, <2>5
<1>. DEFINE p == (Big - 1) * Cardinality(A)
            q == (Big - 1) * Cardinality(B)
            r == (Big - 1) * Cardinality(T)
<1>11. p + q <= r
    <2>1. Big - 1 \in Nat
        BY ConstantsAssumption
    <2>. QED BY <1>3, <1>9, <1>10, <2>1
<1>12. p \in Int /\ q \in Int /\ r \in Int
    <2>1. \A x, y \in Nat : x * y \in Int
        OBVIOUS
    <2>2. Big - 1 \in Nat
        BY ConstantsAssumption
    <2>. QED BY <1>3, <2>1, <2>2
<1>13. Tokens(a) = n + p /\ Tokens(b) = Len(b) + q /\ Tokens(t) = (n + Len(b)) + r
    BY <1>2, <1>3
<1>. HIDE DEF p, q, r, n
<1>14. n \in Int /\ Len(b) \in Int
    BY <1>1
<1>. QED BY <1>11, <1>12, <1>13, <1>14 DEF t

LEMMA BoundariesAre ==
    ASSUME NEW s \in Seq(Entries), NEW c \in 0 .. Len(s)
    PROVE  /\ Boundaries(s, c) \in SUBSET Nat
           /\ \A b \in Boundaries(s, c) :
                 b \in Nat /\ b > c /\ b + 1 <= Len(s) /\ s[b + 1].role = "user"
           /\ \A k \in 1 .. Len(s) :
                 k > c + 1 /\ s[k].role = "user" => k - 1 \in Boundaries(s, c)
<1>1. Len(s) \in Nat /\ c \in Nat
    BY LenIs
<1>2. ASSUME NEW b \in Boundaries(s, c)
      PROVE  b \in Nat /\ b > c /\ b + 1 <= Len(s) /\ s[b + 1].role = "user"
    <2>1. PICK k \in UserAt(s) : k > c + 1 /\ b = k - 1
        BY DEF Boundaries
    <2>2. k \in 1 .. Len(s) /\ s[k].role = "user"
        BY UserAtIs
    <2>3. b + 1 = k
        BY <2>1, <2>2
    <2>. QED BY <1>1, <2>1, <2>2, <2>3
<1>3. ASSUME NEW k \in 1 .. Len(s), k > c + 1, s[k].role = "user"
      PROVE  k - 1 \in Boundaries(s, c)
    <2>1. k \in UserAt(s)
        BY <1>3, UserAtIs
    <2>. QED BY <1>3, <2>1 DEF Boundaries
<1>4. Boundaries(s, c) \in SUBSET Nat
    BY <1>2
<1>. QED BY <1>2, <1>3, <1>4

\* A round of consolidation moves the cursor behind a turn: far enough for the
\* goal, or to the last turn.
Reached(s, c, b) ==
    \/ b = c /\ Estimate(s, c) <= Goal
    \/ b = c /\ \A k \in c + 2 .. Len(s) : s[k].role # "user"
    \/ /\ b > c /\ b + 1 <= Len(s) /\ s[b + 1].role = "user"
       /\ \/ \A k \in b + 2 .. Len(s) : s[k].role # "user"
          \/ Tokens(SubSeq(s, c + 1, b)) >= Estimate(s, c) - Goal

LEMMA FurtherIs ==
    ASSUME NEW s \in Seq(Entries), NEW c \in 0 .. Len(s)
    PROVE  /\ Further(s, c) \in c .. Len(s)
           /\ Reached(s, c, Further(s, c))
<1>. DEFINE B == Boundaries(s, c)
            enough == {b \in B : Tokens(SubSeq(s, c + 1, b)) >= Estimate(s, c) - Goal}
<1>1. Len(s) \in Nat /\ c \in Nat /\ c \in c .. Len(s)
    BY LenIs
<1>2. /\ B \in SUBSET Nat
      /\ \A b \in B : b \in Nat /\ b > c /\ b + 1 <= Len(s) /\ s[b + 1].role = "user"
      /\ \A k \in 1 .. Len(s) : k > c + 1 /\ s[k].role = "user" => k - 1 \in B
    BY BoundariesAre
<1>3. Further(s, c) = IF Estimate(s, c) <= Goal \/ B = {} THEN c
                      ELSE IF enough # {} THEN Min(enough) ELSE Max(B)
    BY DEF Further
<1>4. enough # {} => Min(enough) \in enough
    <2>1. enough \in SUBSET Nat
        BY <1>2
    <2>. HIDE DEF enough
    <2>. QED BY <2>1, MinIs
<1>5. enough # {} =>
          Min(enough) \in B
          /\ Tokens(SubSeq(s, c + 1, Min(enough))) >= Estimate(s, c) - Goal
    BY <1>4
<1>. HIDE DEF B, enough
<1>6. CASE Estimate(s, c) <= Goal
    BY <1>1, <1>3, <1>6 DEF Reached
<1>7. CASE B = {}
    <2>1. \A k \in c + 2 .. Len(s) : k \in 1 .. Len(s) /\ k > c + 1
        BY <1>1
    <2>. QED BY <1>1, <1>2, <1>3, <1>7, <2>1 DEF Reached
<1>8. CASE ~ (Estimate(s, c) <= Goal) /\ B # {} /\ enough # {}
    <2>. DEFINE b == Min(enough)
    <2>1. Further(s, c) = b /\ b \in B /\ Tokens(SubSeq(s, c + 1, b)) >= Estimate(s, c) - Goal
        BY <1>3, <1>5, <1>8
    <2>. HIDE DEF b
    <2>2. b > c /\ b + 1 <= Len(s) /\ s[b + 1].role = "user" /\ b \in c .. Len(s)
        BY <1>1, <1>2, <2>1
    <2>. QED BY <2>1, <2>2 DEF Reached
<1>9. CASE ~ (Estimate(s, c) <= Goal) /\ B # {} /\ enough = {}
    <2>. DEFINE b == Max(B)
    <2>1. Further(s, c) = b
        BY <1>3, <1>9
    <2>2. b \in B /\ \A y \in B : b >= y
        <3>1. \A y \in B : y <= Len(s)
            BY <1>1, <1>2
        <3>. QED BY <1>1, <1>2, <1>9, <3>1, MaxIs
    <2>. HIDE DEF b
    <2>3. b \in Nat /\ b > c /\ b + 1 <= Len(s) /\ s[b + 1].role = "user" /\ b \in c .. Len(s)
        <3>1. b \in Nat /\ b > c /\ b + 1 <= Len(s) /\ s[b + 1].role = "user"
            BY <1>2, <2>2
        <3>. QED BY <1>1, <3>1
    <2>4. ASSUME NEW k \in b + 2 .. Len(s), s[k].role = "user"
          PROVE  FALSE
        <3>1. k \in 1 .. Len(s) /\ k > c + 1 /\ ~ (b >= k - 1)
            BY <1>1, <2>3
        <3>. QED BY <1>2, <2>2, <2>4, <3>1
    <2>. QED BY <2>1, <2>3, <2>4 DEF Reached
<1>. QED BY <1>6, <1>7, <1>8, <1>9

\* Consolidation leaves the cursor in the session.
LEMMA ConsolidatedIs ==
    ASSUME NEW s \in Seq(Entries), Sane(s), NEW cur \in 0 .. Len(s),
           NEW c \in Consolidated(s, cur)
    PROVE  c \in Overflow(s, cur) .. Len(s) /\ c \in 0 .. Len(s)
<1>. DEFINE o == Overflow(s, cur)
            r1 == Further(s, o)
            r2 == Further(s, r1)
            r3 == Further(s, r2)
            r4 == Further(s, r3)
            r5 == Further(s, r4)
<1>1. Len(s) \in Nat /\ o \in cur .. Len(s)
    BY OverflowIs, LenIs
<1>2. c \in {o, r1, r2, r3, r4, r5}
    BY DEF Consolidated
<1>. HIDE DEF o
<1>3. o \in 0 .. Len(s) /\ o \in o .. Len(s) /\ o \in Nat
    BY <1>1
<1>4. \A x \in o .. Len(s) : x \in 0 .. Len(s) /\ Further(s, x) \in o .. Len(s)
    <2>1. TAKE x \in o .. Len(s)
    <2>2. x \in 0 .. Len(s)
        BY <1>1, <1>3
    <2>3. Further(s, x) \in x .. Len(s)
        BY <2>2, FurtherIs
    <2>. QED BY <1>1, <1>3, <2>2, <2>3
<1>5. r1 \in o .. Len(s)
    BY <1>3, <1>4
<1>. HIDE DEF r1
<1>6. r2 \in o .. Len(s)
    BY <1>4, <1>5
<1>. HIDE DEF r2
<1>7. r3 \in o .. Len(s)
    BY <1>4, <1>6
<1>. HIDE DEF r3
<1>8. r4 \in o .. Len(s)
    BY <1>4, <1>7
<1>. HIDE DEF r4
<1>9. r5 \in o .. Len(s)
    BY <1>4, <1>8
<1>. HIDE DEF r5
<1>10. c \in o .. Len(s)
    BY <1>2, <1>3, <1>5, <1>6, <1>7, <1>8, <1>9
<1>. QED BY <1>4, <1>10 DEF o

\* All that may be replayed behind the cursor is counted.
LEMMA EstimateIs ==
    ASSUME NEW s \in Seq(Entries), Tidy(s), NEW c \in 0 .. Len(s),
           NEW u \in 1 .. Len(s), u > c, s[u].role = "user"
    PROVE  /\ Estimate(s, c) \in Nat
           /\ Visible(From(s, u)) \in Seq(Entries)
           /\ Tokens(Visible(From(s, u))) \in Nat
           /\ Tokens(Visible(From(s, u))) <= Estimate(s, c)
<1>. DEFINE b == Visible(From(s, u))
            h == Replayable(s, c, Len(s), FALSE)
            o == <<System>>
            q == <<User>>
<1>1. Len(s) \in Nat \ {0} /\ c >= Len(s) - Len(s)
    BY LenIs
<1>2. h \in Seq(Entries) /\ b \in Seq(Entries) /\ \E a \in Seq(Entries) : h = a \o b
    BY <1>1, ReplayedIs
<1>3. o \in Seq(Entries) /\ q \in Seq(Entries)
    BY MadeIs
<1>4. Estimate(s, c) = Tokens((o \o h) \o q)
    BY DEF Estimate
<1>. HIDE DEF b, h, o, q
<1>5. PICK a \in Seq(Entries) : h = a \o b
    BY <1>2
<1>6. ASSUME NEW x \in Seq(Entries), NEW y \in Seq(Entries)
      PROVE  /\ x \o y \in Seq(Entries)
             /\ Tokens(x) \in Nat /\ Tokens(y) \in Nat /\ Tokens(x \o y) \in Nat
             /\ Tokens(x) <= Tokens(x \o y) /\ Tokens(y) <= Tokens(x \o y)
    <2>1. x \o y \in Seq(Entries) /\ Tokens(x) + Tokens(y) <= Tokens(x \o y)
        BY ConcatIs, TokensConcat
    <2>2. Tokens(x) \in Nat /\ Tokens(y) \in Nat /\ Tokens(x \o y) \in Nat
        BY <2>1, TokensIs
    <2>. QED BY <2>1, <2>2
<1>7. Tokens(b) \in Nat /\ Tokens(h) \in Nat /\ Tokens(b) <= Tokens(h)
    BY <1>2, <1>5, <1>6
<1>8. o \o h \in Seq(Entries) /\ Tokens(o \o h) \in Nat /\ Tokens(h) <= Tokens(o \o h)
    BY <1>2, <1>3, <1>6
<1>9. Tokens((o \o h) \o q) \in Nat /\ Tokens(o \o h) <= Tokens((o \o h) \o q)
    BY <1>3, <1>6, <1>8
<1>. QED BY <1>2, <1>4, <1>7, <1>8, <1>9 DEF b

LEMMA ShownAll ==
    ASSUME NEW s \in Seq(Entries), \A k \in 1 .. Len(s) : s[k].of # -1
    PROVE  Visible(s) = s
<1>1. Shown(s) = 1 .. Len(s)
    BY DEF Shown
<1>. QED BY <1>1, VisibleTidy, PickedAll

\* What is left behind c starts with a turn, and the limit takes nothing of it.
Settled(s, c) ==
    c < Len(s) =>
        /\ s[c + 1].role = "user"
        /\ \/ Tokens(From(s, c + 1)) <= Replay
           \/ \A k \in c + 2 .. Len(s) : s[k].role # "user"

\* The first round settles what it counts, and the others leave it settled.
LEMMA FirstSettles ==
    ASSUME NEW s \in Seq(Entries), Tidy(s), NEW o \in 0 .. Len(s),
           AllReplayed(s, o), Estimate(s, o) >= Replay
    PROVE  Settled(s, Further(s, o))
<1>1. Len(s) \in Nat /\ o \in Nat
    BY LenIs
<1>2. PICK b : b = Further(s, o)
    OBVIOUS
<1>3. /\ b \in o .. Len(s)
      /\ \/ b = o /\ Estimate(s, o) <= Goal
         \/ b = o /\ \A k \in o + 2 .. Len(s) : s[k].role # "user"
         \/ /\ b > o /\ b + 1 <= Len(s) /\ s[b + 1].role = "user"
            /\ \/ \A k \in b + 2 .. Len(s) : s[k].role # "user"
               \/ Tokens(SubSeq(s, o + 1, b)) >= Estimate(s, o) - Goal
    BY <1>2, FurtherIs DEF Reached
<1>. SUFFICES ASSUME b < Len(s)
              PROVE  /\ s[b + 1].role = "user"
                     /\ \/ Tokens(From(s, b + 1)) <= Replay
                        \/ \A k \in b + 2 .. Len(s) : s[k].role # "user"
    BY <1>2 DEF Settled
<1>4. b \in Nat /\ o < Len(s) /\ o + 1 \in 1 .. Len(s) /\ b + 1 \in o + 1 .. Len(s)
    BY <1>1, <1>3
<1>5. s[o + 1].role = "user"
    BY <1>4 DEF AllReplayed, IsUser
<1>. DEFINE d == o + 1
            t == From(s, d)
<1>6. d \in 1 .. Len(s) /\ d > o /\ s[d].role = "user" /\ d \in 1 .. Len(s) + 1
    BY <1>1, <1>4, <1>5
<1>7. t \in Seq(Entries) /\ Visible(t) = t
    <2>. HIDE DEF d
    <2>1. t \in Seq(Entries) /\ Len(t) = Len(s) - d + 1
          /\ \A k \in 1 .. Len(s) - d + 1 : t[k] = s[d + k - 1]
        BY <1>6, FromIs
    <2>2. \A k \in 1 .. Len(s) - d + 1 : d + k - 1 \in o + 1 .. Len(s)
        BY <1>1 DEF d
    <2>3. \A k \in 1 .. Len(t) : t[k].of # -1
        BY <2>1, <2>2 DEF AllReplayed
    <2>. HIDE DEF t
    <2>. QED BY <2>1, <2>3, ShownAll
<1>8. Estimate(s, o) \in Nat /\ Tokens(t) \in Nat /\ Tokens(t) <= Estimate(s, o)
    <2>. HIDE DEF d
    <2>. QED BY <1>6, <1>7, EstimateIs
<1>9. Replay \in Nat /\ Goal \in Nat /\ Goal < Replay
    BY ConstantsAssumption
<1>10. CASE b = o
    <2>1. ~ (Estimate(s, o) <= Goal)
        BY <1>8, <1>9
    <2>. QED BY <1>1, <1>3, <1>5, <1>10, <2>1
<1>11. CASE b > o /\ Tokens(SubSeq(s, o + 1, b)) >= Estimate(s, o) - Goal /\ s[b + 1].role = "user"
    <2>. DEFINE u == b + 1
                x == SubSeq(s, d, u - 1)
                y == From(s, u)
    <2>1. u \in d .. Len(s) /\ u - 1 = b
        BY <1>4
    <2>2. x = SubSeq(s, o + 1, b)
        BY <2>1
    <2>. HIDE DEF d, u
    <2>3. x \in Seq(Entries) /\ y \in Seq(Entries) /\ t = x \o y
        BY <1>6, <2>1, Divided
    <2>. HIDE DEF t, x, y
    <2>4. Tokens(x) + Tokens(y) <= Tokens(t) /\ Tokens(x) \in Nat /\ Tokens(y) \in Nat
        BY <2>3, TokensConcat, TokensIs
    <2>5. Tokens(y) <= Replay
        BY <1>8, <1>9, <1>11, <2>2, <2>4
    <2>. QED BY <1>11, <2>5 DEF y, u
<1>12. CASE /\ b > o /\ s[b + 1].role = "user"
            /\ \A k \in b + 2 .. Len(s) : s[k].role # "user"
    BY <1>12
<1>. QED BY <1>3, <1>10, <1>11, <1>12

LEMMA FurtherSettles ==
    ASSUME NEW s \in Seq(Entries), NEW c \in 0 .. Len(s), Settled(s, c)
    PROVE  Settled(s, Further(s, c))
<1>. DEFINE b == Further(s, c)
<1>1. Len(s) \in Nat /\ c \in Nat
    BY LenIs
<1>2. /\ b \in c .. Len(s)
      /\ b = c \/ (b > c /\ b + 1 <= Len(s) /\ s[b + 1].role = "user")
    BY FurtherIs DEF Reached
<1>. HIDE DEF b
<1>3. CASE b = c
    BY <1>3 DEF b
<1>4. CASE b > c /\ b + 1 <= Len(s) /\ s[b + 1].role = "user"
    <2>1. b \in Nat /\ b + 1 \in c + 2 .. Len(s) /\ c < Len(s) /\ c + 1 \in 1 .. Len(s) + 1
        BY <1>1, <1>2, <1>4
    <2>2. Tokens(From(s, c + 1)) <= Replay
        BY <1>4, <2>1 DEF Settled
    <2>. DEFINE t == From(s, c + 1)
                k == b - c + 1
    <2>3. t \in Seq(Entries) /\ Len(t) = Len(s) - c
        <3>1. t \in Seq(Entries) /\ Len(t) = Len(s) - (c + 1) + 1
            BY <2>1, FromIs
        <3>. HIDE DEF t
        <3>. QED BY <1>1, <3>1
    <2>4. k \in 1 .. Len(t) + 1 /\ (c + 1) + k - 1 = b + 1
        <3>. HIDE DEF t
        <3>. QED BY <1>1, <2>1, <2>3
    <2>5. From(t, k) = From(s, b + 1)
        <3>. HIDE DEF k
        <3>1. From(t, k) = From(s, (c + 1) + k - 1)
            BY <2>1, <2>4, FromFrom
        <3>. HIDE DEF t
        <3>. QED BY <2>4, <3>1
    <2>. HIDE DEF t, k
    <2>6. Tokens(From(t, k)) <= Tokens(t)
        BY <2>3, <2>4, TokensFrom
    <2>7. Tokens(t) \in Nat /\ Tokens(From(t, k)) \in Nat /\ Replay \in Nat
        <3>1. From(t, k) \in Seq(Entries)
            BY <2>3, <2>4, FromIs
        <3>. QED BY <2>3, <3>1, TokensIs, ConstantsAssumption
    <2>8. Tokens(From(s, b + 1)) <= Replay
        BY <2>2, <2>5, <2>6, <2>7 DEF t
    <2>. QED BY <1>4, <2>8 DEF Settled, b
<1>. QED BY <1>2, <1>3, <1>4

LEMMA ConsolidatedSettles ==
    ASSUME NEW s \in Seq(Entries), Tidy(s), s # <<>>, NEW cur \in 0 .. Len(s),
           NEW c \in Consolidated(s, cur), AllReplayed(s, Overflow(s, cur)),
           ~ (Estimate(s, Overflow(s, cur)) < Replay), Estimate(s, Overflow(s, cur)) >= Replay
    PROVE  Settled(s, c)
<1>. DEFINE o == Overflow(s, cur)
            r1 == Further(s, o)
            r2 == Further(s, r1)
            r3 == Further(s, r2)
            r4 == Further(s, r3)
            r5 == Further(s, r4)
<1>1. Len(s) \in Nat /\ o \in 0 .. Len(s)
    <2>1. o \in cur .. Len(s)
        BY OverflowIs DEF Tidy
    <2>. HIDE DEF o
    <2>. QED BY <2>1, LenIs
<1>4. c \in {r1, r2, r3, r4, r5}
    BY DEF Consolidated
<1>5. Settled(s, r1) /\ r1 \in 0 .. Len(s)
    <2>. HIDE DEF o
    <2>1. r1 \in o .. Len(s)
        BY <1>1, FurtherIs
    <2>2. r1 \in 0 .. Len(s)
        <3>. HIDE DEF r1
        <3>. QED BY <1>1, <2>1
    <2>. QED BY <1>1, <2>2, FirstSettles DEF o
<1>6. \A x \in 0 .. Len(s) :
          Settled(s, x) => Settled(s, Further(s, x)) /\ Further(s, x) \in 0 .. Len(s)
    <2>1. TAKE x \in 0 .. Len(s)
    <2>2. Further(s, x) \in x .. Len(s)
        BY FurtherIs
    <2>. QED BY <1>1, <2>2, FurtherSettles
<1>. HIDE DEF r1
<1>7. Settled(s, r2) /\ r2 \in 0 .. Len(s)
    BY <1>5, <1>6
<1>. HIDE DEF r2
<1>8. Settled(s, r3) /\ r3 \in 0 .. Len(s)
    BY <1>6, <1>7
<1>. HIDE DEF r3
<1>9. Settled(s, r4) /\ r4 \in 0 .. Len(s)
    BY <1>6, <1>8
<1>. HIDE DEF r4
<1>10. Settled(s, r5) /\ r5 \in 0 .. Len(s)
    BY <1>6, <1>9
<1>. QED BY <1>4, <1>5, <1>7, <1>8, <1>9, <1>10

-----------------------------------------------------------------------------
(* The request of a running turn *)

\* A turn's messages: the system prompt, the history p, the message to answer,
\* and what the turn b has added.
LEMMA GovernanceIs ==
    ASSUME NEW p \in Seq(Entries), Tidy(p), NEW b \in Seq(Entries), Tidy(b),
           Calls(p) \cap Calls(b) = {}
    PROVE  LET i == (<<System>> \o p) \o <<User>>
               g == Governed(i)
               e == Governed(i \o b)
               turn == Governed(<<User>> \o b)
           IN  /\ i \in Seq(Entries) /\ Tidy(i) /\ Calls(i) = Calls(p) /\ Len(i) \in Nat
               /\ g \in Seq(Entries) /\ Tidy(g) /\ Calls(g) = Calls(p)
               /\ Len(g) \in Nat /\ Len(g) >= 2
               /\ e = g \o Governed(b) /\ e \in Seq(Entries) /\ Tidy(e) /\ Full(e)
               /\ Len(e) \in Nat /\ Len(e) >= Len(g)
               /\ e[1] = System /\ e[Len(g)] = User
               /\ turn = From(e, Len(g))
<1>. DEFINE h == <<System>>
            t == <<User>>
            o == h \o p
            i == o \o t
            q == Governed(p)
            g == Governed(i)
            e == Governed(i \o b)
            c == Governed(b)
            turn == Governed(t \o b)
<1>1. /\ h \in Seq(Entries) /\ Len(h) = 1 /\ h[1] = System
      /\ Tidy(h) /\ Full(h) /\ Calls(h) = {} /\ Governed(h) = h
    BY MadeIs, OneTidy
<1>2. /\ t \in Seq(Entries) /\ Len(t) = 1 /\ t[1] = User
      /\ Tidy(t) /\ Full(t) /\ Calls(t) = {} /\ Governed(t) = t
    BY MadeIs, OneTidy
<1>. HIDE DEF h, t
<1>3. /\ o \in Seq(Entries) /\ Tidy(o) /\ Calls(o) = Calls(p)
      /\ Governed(o) = h \o q
    <2>1. Calls(h) \cap Calls(p) = {}
        BY <1>1
    <2>2. o \in Seq(Entries) /\ Calls(o) = Calls(h) \cup Calls(p)
        BY <1>1, ConcatIs
    <2>3. Tidy(o)
        BY <1>1, <2>1, ConcatTidy
    <2>4. Governed(o) = Governed(h) \o Governed(p)
        BY <1>1, <2>1, GovernedConcat
    <2>. QED BY <1>1, <2>2, <2>3, <2>4
<1>. HIDE DEF o
<1>4. /\ i \in Seq(Entries) /\ Tidy(i) /\ Calls(i) = Calls(p)
      /\ g = (h \o q) \o t
    <2>1. Calls(o) \cap Calls(t) = {}
        BY <1>2
    <2>2. i \in Seq(Entries) /\ Calls(i) = Calls(o) \cup Calls(t)
        BY <1>2, <1>3, ConcatIs
    <2>3. Tidy(i)
        BY <1>2, <1>3, <2>1, ConcatTidy
    <2>4. Governed(i) = Governed(o) \o Governed(t)
        BY <1>2, <1>3, <2>1, GovernedConcat
    <2>. QED BY <1>2, <1>3, <2>2, <2>3, <2>4
<1>. HIDE DEF i
<1>5. c \in Seq(Entries) /\ Tidy(c) /\ Full(c) /\ Calls(c) = Calls(b)
    BY GovernedTidy
<1>6. e = g \o c
    BY <1>4, GovernedConcat
<1>7. q \in Seq(Entries) /\ Tidy(q) /\ Full(q) /\ Calls(q) = Calls(p)
    BY GovernedTidy
<1>8. turn = t \o c
    BY <1>2, GovernedConcat
<1>. HIDE DEF q, e, c, turn
<1>. DEFINE v == h \o q
<1>9. /\ v \in Seq(Entries) /\ Tidy(v) /\ Full(v) /\ Calls(v) = Calls(p)
      /\ Len(v) = 1 + Len(q) /\ v[1] = System
    <2>1. Calls(h) \cap Calls(q) = {}
        BY <1>1
    <2>2. 1 \in 1 .. Len(h)
        BY <1>1
    <2>3. v \in Seq(Entries) /\ Calls(v) = Calls(h) \cup Calls(q)
        BY <1>1, <1>7, ConcatIs
    <2>4. Len(v) = Len(h) + Len(q) /\ \A k \in 1 .. Len(h) : v[k] = h[k]
        BY <1>1, <1>7, ConcatIs
    <2>5. Tidy(v) /\ Full(v)
        BY <1>1, <1>7, <2>1, ConcatTidy
    <2>. QED BY <1>1, <1>7, <2>2, <2>3, <2>4, <2>5
<1>10. Len(q) \in Nat /\ Len(c) \in Nat /\ Len(i) \in Nat
    BY <1>4, <1>5, <1>7, LenIs
<1>. HIDE DEF v
<1>11. g = v \o t
    BY <1>4 DEF v
<1>. HIDE DEF g
<1>12. /\ g \in Seq(Entries) /\ Tidy(g) /\ Full(g) /\ Calls(g) = Calls(p)
       /\ Len(g) = Len(q) + 2 /\ g[1] = System /\ g[Len(g)] = User
    <2>1. Calls(v) \cap Calls(t) = {}
        BY <1>2
    <2>2. 1 \in 1 .. Len(v) /\ 1 \in 1 .. Len(t)
        BY <1>2, <1>9, <1>10
    <2>3. /\ g \in Seq(Entries) /\ Tidy(g) /\ Full(g) /\ Calls(g) = Calls(p)
          /\ Len(g) = Len(v) + Len(t)
          /\ g[1] = System /\ g[Len(v) + 1] = User
        <3>1. Tidy(v \o t) /\ Full(v \o t)
            BY <1>2, <1>9, <2>1, ConcatTidy
        <3>2. /\ v \o t \in Seq(Entries) /\ Calls(v \o t) = Calls(v) \cup Calls(t)
              /\ Len(v \o t) = Len(v) + Len(t)
              /\ \A k \in 1 .. Len(v) : (v \o t)[k] = v[k]
              /\ \A k \in 1 .. Len(t) : (v \o t)[Len(v) + k] = t[k]
            BY <1>2, <1>9, ConcatIs
        <3>3. (v \o t)[1] = v[1] /\ (v \o t)[Len(v) + 1] = t[1]
            BY <2>2, <3>2
        <3>4. Calls(v \o t) = Calls(p)
            BY <1>2, <1>9, <3>2
        <3>. QED BY <1>2, <1>9, <1>11, <3>1, <3>2, <3>3, <3>4
    <2>4. Len(v) + 1 = Len(g) /\ Len(g) = Len(q) + 2
        BY <1>2, <1>9, <1>10, <2>3
    <2>. QED BY <2>3, <2>4
<1>13. /\ e \in Seq(Entries) /\ Tidy(e) /\ Full(e)
       /\ Len(e) = Len(g) + Len(c)
       /\ \A k \in 1 .. Len(g) : e[k] = g[k]
       /\ \A k \in 1 .. Len(c) : e[Len(g) + k] = c[k]
    <2>1. Calls(g) \cap Calls(c) = {}
        BY <1>5, <1>12
    <2>2. Tidy(g \o c) /\ Full(g \o c)
        BY <1>5, <1>12, <2>1, ConcatTidy
    <2>3. /\ g \o c \in Seq(Entries)
          /\ Len(g \o c) = Len(g) + Len(c)
          /\ \A k \in 1 .. Len(g) : (g \o c)[k] = g[k]
          /\ \A k \in 1 .. Len(c) : (g \o c)[Len(g) + k] = c[k]
        BY <1>5, <1>12, ConcatIs
    <2>. QED BY <1>6, <2>2, <2>3
<1>14. /\ Len(g) \in Nat /\ Len(g) >= 2 /\ Len(e) \in Nat /\ Len(e) >= Len(g)
       /\ e[1] = System /\ e[Len(g)] = User
    <2>1. Len(g) \in Nat /\ Len(g) >= 2 /\ 1 \in 1 .. Len(g) /\ Len(g) \in 1 .. Len(g)
        BY <1>10, <1>12
    <2>. QED BY <1>10, <1>12, <1>13, <2>1
<1>15. turn = From(e, Len(g))
    <2>. DEFINE w == From(e, Len(g))
    <2>1. /\ w \in Seq(Entries) /\ Len(w) = Len(e) - Len(g) + 1
          /\ \A k \in 1 .. Len(e) - Len(g) + 1 : w[k] = e[Len(g) + k - 1]
        <3>1. Len(g) \in 1 .. Len(e) + 1
            BY <1>14
        <3>. QED BY <1>13, <3>1, FromIs
    <2>. HIDE DEF w
    <2>2. /\ turn \in Seq(Entries) /\ Len(turn) = 1 + Len(c)
          /\ turn[1] = User
          /\ \A k \in 1 .. Len(c) : turn[1 + k] = c[k]
        <3>1. /\ t \o c \in Seq(Entries) /\ Len(t \o c) = Len(t) + Len(c)
              /\ \A k \in 1 .. Len(t) : (t \o c)[k] = t[k]
              /\ \A k \in 1 .. Len(c) : (t \o c)[Len(t) + k] = c[k]
            BY <1>2, <1>5, ConcatIs
        <3>2. 1 \in 1 .. Len(t)
            BY <1>2
        <3>. QED BY <1>2, <1>8, <3>1, <3>2
    <2>3. Len(w) = Len(turn)
        BY <1>10, <1>13, <1>14, <2>1, <2>2
    <2>4. \A k \in 1 .. Len(turn) : turn[k] = w[k]
        <3>1. TAKE k \in 1 .. Len(turn)
        <3>2. k \in 1 .. Len(e) - Len(g) + 1 /\ k \in Nat
            BY <1>10, <1>13, <1>14, <2>2
        <3>3. CASE k = 1
            <4>1. Len(g) + k - 1 = Len(g)
                BY <1>14, <3>3
            <4>. QED BY <1>14, <2>1, <2>2, <3>2, <3>3, <4>1
        <3>4. CASE k # 1
            <4>1. /\ k - 1 \in 1 .. Len(c) /\ 1 + (k - 1) = k
                  /\ Len(g) + (k - 1) = Len(g) + k - 1
                BY <1>10, <1>14, <2>2, <3>2, <3>4
            <4>2. turn[k] = c[k - 1]
                BY <2>2, <4>1
            <4>3. e[Len(g) + k - 1] = c[k - 1]
                BY <1>13, <4>1
            <4>. QED BY <2>1, <3>2, <4>2, <4>3
        <3>. QED BY <3>3, <3>4
    <2>5. turn = w
        BY <2>1, <2>2, <2>3, <2>4, SeqEqual
    <2>. QED BY <2>5 DEF w
<1>. QED BY <1>4, <1>6, <1>10, <1>12, <1>13, <1>14, <1>15 DEF c, e, g, i, o, h, t, turn

\* Of a turn without missing results nothing is left but its own messages.
LEMMA GovernedFull ==
    ASSUME NEW b \in Seq(Entries), Tidy(b), Full(b)
    PROVE  /\ Governed(b) \in Seq(Entries)
           /\ \A k \in 1 .. Len(Governed(b)) : \E j \in 1 .. Len(b) : Governed(b)[k] = b[j]
<1>1. /\ NoPlaceholders(b) = Picked(b, Plain(b)) /\ Plain(b) \in SUBSET (1 .. Len(b))
      /\ \A k \in 1 .. Len(b) : b[k].role \in {"call", "tool"} => k \in Plain(b)
    BY PlainIs
<1>2. /\ Picked(b, Plain(b)) \in Seq(Entries) /\ Full(Picked(b, Plain(b)))
    BY <1>1, PickedTidy
<1>3. Governed(b) = Picked(b, Plain(b))
    BY <1>1, <1>2, GovernedTidy, BackfilledFull
<1>4. /\ Len(Picked(b, Plain(b))) = Cardinality(Plain(b))
      /\ \E e \in [1 .. Cardinality(Plain(b)) -> Plain(b)] :
            \A i \in 1 .. Cardinality(Plain(b)) : Picked(b, Plain(b))[i] = b[e[i]]
    BY <1>1, PickedIs
<1>5. PICK e \in [1 .. Len(Governed(b)) -> Plain(b)] :
          \A i \in 1 .. Len(Governed(b)) : Governed(b)[i] = b[e[i]]
    BY <1>3, <1>4
<1>6. \A i \in 1 .. Len(Governed(b)) : e[i] \in 1 .. Len(b)
    BY <1>1, <1>5
<1>. QED BY <1>2, <1>3, <1>5, <1>6

LEMMA ShrunkFrom ==
    ASSUME NEW s \in Seq(Entries), NEW f \in 1 .. Len(s) + 1, NEW ids
    PROVE  Shrunk(From(s, f), ids) = From(Shrunk(s, ids), f)
<1>. DEFINE t == From(s, f)
            a == Shrunk(t, ids)
            u == Shrunk(s, ids)
            b == From(u, f)
            Short(m) == IF m.role = "tool" /\ m.of \in ids THEN [m EXCEPT !.size = 1] ELSE m
<1>1. Len(s) \in Nat /\ DOMAIN s = 1 .. Len(s) /\ f \in Nat /\ f >= 1
    BY LenIs
<1>2. /\ t \in Seq(Entries) /\ Len(t) = Len(s) - f + 1 /\ DOMAIN t = 1 .. Len(t)
      /\ \A k \in 1 .. Len(s) - f + 1 : t[k] = s[f + k - 1]
    BY FromIs, LenIs
<1>. HIDE DEF t
<1>3. a \in Seq(Entries) /\ Len(a) = Len(t)
    BY <1>2, ShrunkIs DEF Alike
<1>4. u \in Seq(Entries) /\ Len(u) = Len(s)
    BY ShrunkIs DEF Alike
<1>5. \A k \in 1 .. Len(t) : a[k] = Short(t[k])
    BY <1>2 DEF Shrunk
<1>6. \A k \in 1 .. Len(s) : u[k] = Short(s[k])
    BY <1>1 DEF Shrunk
<1>. HIDE DEF a, u, Short
<1>7. /\ b \in Seq(Entries) /\ Len(b) = Len(s) - f + 1
      /\ \A k \in 1 .. Len(s) - f + 1 : b[k] = u[f + k - 1]
    BY <1>4, FromIs
<1>. HIDE DEF b
<1>8. \A k \in 1 .. Len(a) : a[k] = b[k]
    <2>1. TAKE k \in 1 .. Len(a)
    <2>2. f + k - 1 \in 1 .. Len(s) /\ k \in 1 .. Len(s) - f + 1 /\ k \in 1 .. Len(t)
        BY <1>1, <1>2, <1>3
    <2>. QED BY <1>2, <1>5, <1>6, <1>7, <2>2
<1>9. a = b
    BY <1>2, <1>3, <1>7, <1>8, SeqEqual
<1>. QED BY <1>9 DEF a, b, t, u

LEMMA ShrunkOpened ==
    ASSUME NEW s, NEW p, Opened(s, p), NEW ids
    PROVE  Opened(Shrunk(s, ids), p) /\ Alike(s, Shrunk(s, ids))
<1>. DEFINE t == Shrunk(s, ids)
<1>1. /\ s \in Seq(Entries) /\ Tidy(s) /\ Full(s) /\ p \in 2 .. Len(s)
      /\ s[1] = System /\ s[p].role = "user"
      /\ \A k \in p + 1 .. Len(s) : s[k].role # "user"
    BY DEF Opened, IsUser
<1>2. t \in Seq(Entries) /\ Alike(s, t)
    BY <1>1, ShrunkIs
<1>3. Len(s) \in Nat /\ p \in Nat /\ 1 \in 1 .. Len(s) /\ DOMAIN s = 1 .. Len(s)
    BY <1>1, LenIs
<1>4. t[1] = System
    <2>1. System.role # "tool"
        BY MadeIs
    <2>. QED BY <1>1, <1>3, <2>1 DEF Shrunk
<1>. HIDE DEF t
<1>5. Tidy(t) /\ Full(t)
    BY <1>1, <1>2, AlikeTidy
<1>6. Len(t) = Len(s) /\ \A k \in 1 .. Len(s) : t[k].role = s[k].role
    BY <1>2 DEF Alike
<1>7. IsUser(t[p]) /\ \A k \in p + 1 .. Len(t) : ~ IsUser(t[k])
    <2>1. p \in 1 .. Len(s) /\ \A k \in p + 1 .. Len(s) : k \in 1 .. Len(s)
        BY <1>1, <1>3
    <2>. QED BY <1>1, <1>6, <2>1 DEF IsUser
<1>. QED BY <1>1, <1>2, <1>4, <1>5, <1>6, <1>7 DEF Opened, t
-----------------------------------------------------------------------------
(* The invariant *)

\* The calls that were made have these names.
Known == 1 .. 2 * units

\* The running turn started from the history p.
StartedFrom(p) ==
    /\ p \in Seq(Entries) /\ Tidy(p)
    /\ Calls(p) \subseteq Known /\ Calls(p) \cap Calls(inflight) = {}
    /\ initial = (<<System>> \o p) \o <<User>>

\* The session is a conversation, within the cap.
SessionPart ==
    /\ messages \in Seq(Entries) /\ Tidy(messages) /\ Calls(messages) \subseteq Known
    /\ Len(messages) <= FileCap
    /\ cursor \in 0 .. Len(messages)
    /\ units \in 0 .. MaxUnits

\* In what the turn has added each call has its results, and was not made
\* before.
TurnPart ==
    /\ inflight \in Seq(Entries) /\ Tidy(inflight) /\ Full(inflight)
    /\ Calls(inflight) \subseteq Known /\ Calls(inflight) \cap Calls(messages) = {}
    /\ ~Running => inflight = <<>>
    /\ Running => \E p : StartedFrom(p)

\* Only the turn's own results are replaced, unless a repair of the history has
\* moved the index at which the turn starts.
CompactedPart ==
    Running /\ Len(Governed(initial)) <= Len(initial) =>
        compacted \subseteq {inflight[k].of : k \in 1 .. Len(inflight)}

ContextInv == SessionPart /\ TurnPart /\ CompactedPart

\* The request before it is cut is x; the turn stands in it from n on, and its
\* latest user message at p.
LEMMA RequestIs ==
    ASSUME ContextInv, Running
    PROVE  LET n == Len(Governed(initial))
               e == Governed(initial \o inflight)
               x == Shrunk(e, Replaced)
               turn == Governed(<<User>> \o inflight)
           IN  /\ initial \in Seq(Entries) /\ Len(initial) \in Nat
               /\ Governed(initial) \in Seq(Entries) /\ Tidy(Governed(initial))
               /\ Calls(Governed(initial)) \cap Calls(inflight) = {}
               /\ e = Governed(initial) \o Governed(inflight) /\ e \in Seq(Entries)
               /\ Len(e) \in Nat /\ n \in 2 .. Len(e) /\ e[n].role = "user"
               /\ turn = From(e, n) /\ UserAt(turn) # {}
               /\ Request = Snipped(x)
               /\ \E p \in n .. Len(e) :
                     /\ Max(UserAt(turn)) = p - n + 1
                     /\ e[p].role = "user"
                     /\ Opened(e, p) /\ Opened(x, p) /\ Alike(e, x)
<1>. DEFINE g == Governed(initial)
            n == Len(g)
            e == Governed(initial \o inflight)
            x == Shrunk(e, Replaced)
            turn == Governed(<<User>> \o inflight)
            m == Max(UserAt(turn))
            p == n + m - 1
<1>1. PICK h : StartedFrom(h)
    BY DEF ContextInv, TurnPart
<1>2. /\ h \in Seq(Entries) /\ Tidy(h) /\ Calls(h) \cap Calls(inflight) = {}
      /\ initial = (<<System>> \o h) \o <<User>>
    BY <1>1 DEF StartedFrom
<1>3. inflight \in Seq(Entries) /\ Tidy(inflight)
    BY DEF ContextInv, TurnPart
<1>4. /\ initial \in Seq(Entries) /\ Len(initial) \in Nat
      /\ g \in Seq(Entries) /\ Tidy(g) /\ Calls(g) = Calls(h)
      /\ n \in Nat /\ n >= 2
      /\ e = g \o Governed(inflight) /\ e \in Seq(Entries) /\ Tidy(e) /\ Full(e)
      /\ Len(e) \in Nat /\ Len(e) >= n
      /\ e[1] = System /\ e[n] = User
      /\ turn = From(e, n)
    <2>1. LET i == (<<System>> \o h) \o <<User>>
              G == Governed(i)
              E == Governed(i \o inflight)
              T == Governed(<<User>> \o inflight)
          IN  /\ i \in Seq(Entries) /\ Len(i) \in Nat
              /\ G \in Seq(Entries) /\ Tidy(G) /\ Calls(G) = Calls(h)
              /\ Len(G) \in Nat /\ Len(G) >= 2
              /\ E = G \o Governed(inflight) /\ E \in Seq(Entries) /\ Tidy(E) /\ Full(E)
              /\ Len(E) \in Nat /\ Len(E) >= Len(G)
              /\ E[1] = System /\ E[Len(G)] = User
              /\ T = From(E, Len(G))
        BY <1>2, <1>3, GovernanceIs
    <2>. QED BY <1>2, <2>1
<1>5. Request = Repaired(Snipped(x))
    BY DEF Request, Prepared, Replaced
<1>6. \A y, k : Opened(y, k) => Repaired(Snipped(y)) = Snipped(y)
    <2>1. SUFFICES ASSUME NEW y, NEW k, Opened(y, k)
                   PROVE  Repaired(Snipped(y)) = Snipped(y)
        OBVIOUS
    <2>2. y \in Seq(Entries) /\ k \in 2 .. Len(y) /\ y[k].role = "user"
        BY <2>1 DEF Opened, IsUser
    <2>3. k \in 2 .. k
        BY <2>2, LenIs
    <2>4. Snipped(y) \in Seq(Entries) /\ Tidy(Snipped(y)) /\ Full(Snipped(y))
        BY <2>1, <2>2, <2>3, SnippedTurn
    <2>. QED BY <2>4, RepairedIs
<1>. HIDE DEF g, e, turn
<1>7. /\ turn \in Seq(Entries) /\ Len(turn) = Len(e) - n + 1
      /\ \A k \in 1 .. Len(e) - n + 1 : turn[k] = e[n + k - 1]
    <2>1. n \in 1 .. Len(e) + 1
        BY <1>4
    <2>. HIDE DEF n
    <2>. QED BY <1>4, <2>1, FromIs
<1>. HIDE DEF n
<1>8. 1 \in UserAt(turn)
    <2>1. 1 \in 1 .. Len(e) - n + 1 /\ n + 1 - 1 = n
        BY <1>4
    <2>2. turn[1] = User
        BY <1>4, <1>7, <2>1
    <2>. QED BY <1>7, <2>1, <2>2, MadeIs, UserAtIs
<1>9. /\ m \in 1 .. Len(turn) /\ turn[m].role = "user"
      /\ \A k \in UserAt(turn) : k <= m
    BY <1>7, <1>8, UserAtIs
<1>. HIDE DEF m
<1>10. /\ m \in Nat /\ p \in n .. Len(e) /\ p \in Nat /\ p \in 2 .. Len(e)
       /\ m \in 1 .. Len(e) - n + 1 /\ m = p - n + 1
    BY <1>4, <1>7, <1>9
<1>11. e[p].role = "user"
    BY <1>7, <1>9, <1>10
<1>12. ASSUME NEW k \in p + 1 .. Len(e)
       PROVE  e[k].role # "user"
    <2>1. k - n + 1 \in 1 .. Len(e) - n + 1 /\ n + (k - n + 1) - 1 = k /\ ~ (k - n + 1 <= m)
        BY <1>4, <1>10
    <2>2. k - n + 1 \notin UserAt(turn)
        BY <1>9, <2>1
    <2>3. turn[k - n + 1].role # "user"
        BY <1>7, <2>1, <2>2, UserAtIs
    <2>. QED BY <1>7, <2>1, <2>3
<1>13. Opened(e, p)
    BY <1>4, <1>10, <1>11, <1>12 DEF Opened, IsUser
<1>. HIDE DEF p
<1>14. Opened(x, p) /\ Alike(e, x)
    BY <1>13, ShrunkOpened
<1>15. Request = Snipped(x)
    <2>. HIDE DEF x
    <2>. QED BY <1>5, <1>6, <1>14
<1>16. n \in 2 .. Len(e) /\ e[n].role = "user"
    BY <1>4, MadeIs
<1>17. Calls(g) \cap Calls(inflight) = {}
    BY <1>2, <1>4
<1>18. UserAt(turn) # {}
    BY <1>8
<1>. HIDE DEF x
<1>19. \E k \in n .. Len(e) :
           /\ m = k - n + 1
           /\ e[k].role = "user"
           /\ Opened(e, k) /\ Opened(x, k) /\ Alike(e, x)
    BY <1>10, <1>11, <1>13, <1>14
<1>. QED BY <1>4, <1>15, <1>16, <1>17, <1>18, <1>19 DEF g, n, e, x, turn, m
-----------------------------------------------------------------------------
(* What the invariant implies *)

\* Of what is cut to a request, the end from q on is what stands there before.
LEMMA SentIs ==
    ASSUME NEW e \in Seq(Entries), NEW x, Alike(e, x), NEW p, Opened(x, p),
           NEW q \in 2 .. p, e[q].role = "user",
           q = p \/ Tokens(From(x, q)) < Budget
    PROVE  LET r == Snipped(x)
               sent == From(e, q)
               at == Len(r) - Len(sent)
           IN  /\ at >= 1
               /\ \A k \in DOMAIN sent : r[at + k].role = sent[k].role
                                        /\ r[at + k].of = sent[k].of
<1>. DEFINE r == Snipped(x)
            sent == From(e, q)
            at == Len(r) - Len(sent)
<1>1. /\ Len(x) = Len(e) /\ Len(e) \in Nat /\ p \in 2 .. Len(x)
      /\ \A k \in 1 .. Len(e) : x[k].role = e[k].role /\ x[k].of = e[k].of
    BY LenIs DEF Alike, Opened
<1>2. q \in Nat /\ q >= 2 /\ q <= Len(e) /\ q \in 1 .. Len(e) /\ q \in 1 .. Len(e) + 1
    BY <1>1
<1>3. x[q].role = "user"
    BY <1>1, <1>2
<1>4. LET i == Len(r) - (Len(x) - q)
      IN  /\ r \in Seq(Entries) /\ i \in 2 .. Len(r) /\ r[i] = x[q]
          /\ \A k \in 1 .. Len(x) - q : r[i + k] = x[q + k]
    <2>1. LET t == Snipped(x)
              i == Len(t) - (Len(x) - q)
          IN  /\ t \in Seq(Entries) /\ Tidy(t) /\ Full(t)
              /\ i \in 2 .. Len(t) /\ t[i] = x[q]
              /\ \A k \in 1 .. Len(x) - q : t[i + k] = x[q + k]
              /\ \A k \in 1 .. Len(t) : \E j \in 1 .. Len(x) : t[k] = x[j]
              /\ Tokens(t) > Budget => Cardinality(UserAt(t)) = 1
              /\ Tokens(x) <= Budget => t = x
        BY <1>3, SnippedTurn
    <2>. QED BY <2>1
<1>5. /\ sent \in Seq(Entries) /\ Len(sent) = Len(e) - q + 1 /\ DOMAIN sent = 1 .. Len(sent)
      /\ \A k \in 1 .. Len(e) - q + 1 : sent[k] = e[q + k - 1]
    BY <1>2, FromIs, LenIs
<1>. HIDE DEF r, sent
<1>6. Len(r) \in Nat
    BY <1>4, LenIs
<1>7. at >= 1 /\ at \in Nat /\ Len(r) - (Len(x) - q) = at + 1
    BY <1>1, <1>2, <1>4, <1>5, <1>6
<1>. HIDE DEF at
<1>8. ASSUME NEW k \in DOMAIN sent
      PROVE  r[at + k].role = sent[k].role /\ r[at + k].of = sent[k].of
    <2>1. k \in 1 .. Len(e) - q + 1 /\ q + k - 1 \in 1 .. Len(e) /\ k \in Nat
        BY <1>1, <1>2, <1>5
    <2>2. r[at + k] = x[q + k - 1]
        <3>1. CASE k = 1
            <4>1. at + k = at + 1 /\ q + k - 1 = q
                BY <1>2, <1>7, <3>1
            <4>. QED BY <1>4, <1>7, <4>1
        <3>2. CASE k # 1
            <4>1. /\ k - 1 \in 1 .. Len(x) - q /\ (at + 1) + (k - 1) = at + k
                  /\ q + (k - 1) = q + k - 1
                BY <1>1, <1>2, <1>7, <2>1, <3>2
            <4>2. r[(at + 1) + (k - 1)] = x[q + (k - 1)]
                BY <1>4, <1>7, <4>1
            <4>. QED BY <4>1, <4>2
        <3>. QED BY <3>1, <3>2
    <2>3. sent[k] = e[q + k - 1]
        BY <1>5, <2>1
    <2>. QED BY <1>1, <2>1, <2>2, <2>3
<1>. QED BY <1>7, <1>8 DEF at, r, sent

LEMMA SoundNow ==
    ASSUME ContextInv
    PROVE  RequestSound
<1>1. ContextTypes
    BY DEF ContextInv, SessionPart, TurnPart, ContextTypes
<1>. DEFINE n == Len(Governed(initial))
            e == Governed(initial \o inflight)
            x == Shrunk(e, Replaced)
            turn == Governed(<<User>> \o inflight)
            r == Request
            sent == IF Tokens(Shrunk(turn, Replaced)) < Budget THEN turn
                    ELSE From(turn, Max(UserAt(turn)))
            at == Len(r) - Len(sent)
<1>2. ASSUME Running
      PROVE  /\ r \in Seq(Entries) /\ Tidy(r) /\ Full(r)
             /\ Tokens(r) > Budget => Cardinality(UserAt(r)) = 1
             /\ at >= 1
             /\ \A k \in DOMAIN sent : r[at + k].role = sent[k].role
                                      /\ r[at + k].of = sent[k].of
    <2>1. /\ e \in Seq(Entries) /\ Len(e) \in Nat /\ n \in 2 .. Len(e) /\ e[n].role = "user"
          /\ turn = From(e, n) /\ r = Snipped(x)
          /\ \E p \in n .. Len(e) : /\ Max(UserAt(turn)) = p - n + 1
                                    /\ e[p].role = "user"
                                    /\ Opened(x, p) /\ Alike(e, x)
        BY <1>2, RequestIs
    <2>. HIDE DEF n, e, turn, r
    <2>2. PICK p \in n .. Len(e) : /\ Max(UserAt(turn)) = p - n + 1
                                   /\ e[p].role = "user"
                                   /\ Opened(x, p) /\ Alike(e, x)
        BY <2>1
    <2>3. /\ n \in Nat /\ p \in Nat /\ n >= 2 /\ n <= p /\ p <= Len(e)
          /\ n \in 2 .. p /\ p \in 2 .. p /\ n \in 1 .. Len(e) + 1
        BY <2>1, <2>2
    <2>4. Shrunk(turn, Replaced) = From(x, n)
        BY <2>1, <2>3, ShrunkFrom
    <2>5. \/ sent = From(e, n) /\ Tokens(From(x, n)) < Budget
          \/ sent = From(e, p)
        <3>1. CASE Tokens(Shrunk(turn, Replaced)) < Budget
            <4>1. sent = turn
                BY <3>1
            <4>. QED BY <2>1, <2>4, <3>1, <4>1
        <3>2. CASE ~ (Tokens(Shrunk(turn, Replaced)) < Budget)
            <4>1. sent = From(From(e, n), p - n + 1)
                BY <2>1, <2>2, <3>2
            <4>2. Len(From(e, n)) = Len(e) - n + 1
                BY <2>1, <2>3, FromIs
            <4>3. p - n + 1 \in 1 .. Len(From(e, n)) + 1 /\ n + (p - n + 1) - 1 = p
                BY <2>1, <2>3, <4>2
            <4>4. From(From(e, n), p - n + 1) = From(e, n + (p - n + 1) - 1)
                BY <2>1, <2>3, <4>3, FromFrom
            <4>. QED BY <4>1, <4>3, <4>4
        <3>. QED BY <3>1, <3>2
    <2>. HIDE DEF x, sent
    <2>6. LET f(q) == From(e, q)
              a(q) == Len(Snipped(x)) - Len(f(q))
          IN  \A q \in {n, p} :
                  q = p \/ Tokens(From(x, q)) < Budget =>
                      /\ a(q) >= 1
                      /\ \A k \in DOMAIN f(q) : Snipped(x)[a(q) + k].role = f(q)[k].role
                                               /\ Snipped(x)[a(q) + k].of = f(q)[k].of
        BY <2>1, <2>2, <2>3, SentIs
    <2>7. /\ at >= 1
          /\ \A k \in DOMAIN sent : r[at + k].role = sent[k].role
                                   /\ r[at + k].of = sent[k].of
        BY <2>1, <2>5, <2>6
    <2>8. /\ r \in Seq(Entries) /\ Tidy(r) /\ Full(r)
          /\ Tokens(r) > Budget => Cardinality(UserAt(r)) = 1
        <3>1. x[p].role = "user"
            BY <2>2 DEF Opened, IsUser
        <3>. QED BY <2>1, <2>2, <2>3, <3>1, SnippedTurn
    <2>. QED BY <2>7, <2>8
<1>. HIDE DEF r
<1>3. RequestLegal
    <2>1. SUFFICES ASSUME Running, NEW k \in DOMAIN r
                   PROVE  /\ r[k].role = "tool" =>
                                \E j \in 1 .. k - 1 : r[k].of \in r[j].calls \cap Answers(r, j)
                          /\ r[k].calls \subseteq Answers(r, k)
                          /\ \A j \in 1 .. k - 1 :
                                r[j].role = "tool" /\ r[k].role = "tool" => r[j].of # r[k].of
        BY DEF RequestLegal, r
    <2>2. r \in Seq(Entries) /\ Tidy(r) /\ Full(r)
        BY <1>2, <2>1
    <2>3. k \in 1 .. Len(r)
        BY <2>1, <2>2, LenIs
    <2>. QED BY <2>2, <2>3, Accepted
<1>4. TurnSent
    BY <1>2 DEF TurnSent, r
<1>5. OnlyTheTurnExceeds
    BY <1>2 DEF OnlyTheTurnExceeds, r
<1>. QED BY <1>1, <1>3, <1>4, <1>5 DEF RequestSound

LEMMA InflightNow ==
    ASSUME ContextInv
    PROVE  InflightOnly
<1>. DEFINE g == Governed(initial)
            e == Governed(initial \o inflight)
            x == Shrunk(e, Replaced)
            r == Request
            b == inflight
            own == {b[k].of : k \in 1 .. Len(b)}
<1>1. /\ b \in Seq(Entries) /\ DOMAIN b = 1 .. Len(b) /\ Len(b) \in Nat /\ Tidy(b)
      /\ \A k \in 1 .. Len(b) : b[k] \in Entries
    BY LenIs DEF ContextInv, TurnPart
<1>2. SUFFICES ASSUME Running
               PROVE  /\ Len(g) <= Len(initial) => compacted \subseteq own
                      /\ Len(g) >= Len(initial) /\ Tokens(r) > Budget =>
                             \A k \in DOMAIN r :
                                 r[k].of \in own /\ r[k].compactable => r[k].size # Big
    BY <1>1 DEF InflightOnly
<1>3. Len(g) <= Len(initial) => compacted \subseteq own
    BY <1>2 DEF ContextInv, CompactedPart
<1>4. /\ Len(initial) \in Nat /\ Len(g) \in Nat
      /\ g \in Seq(Entries) /\ Tidy(g) /\ Calls(g) \cap Calls(b) = {}
      /\ e = g \o Governed(b) /\ e \in Seq(Entries)
      /\ r = Snipped(x)
    <2>1. \A n, k \in Nat : n \in 2 .. k => n \in Nat
        OBVIOUS
    <2>. QED BY <1>2, <2>1, RequestIs
<1>5. PICK p \in Nat : Opened(x, p) /\ Alike(e, x)
    <2>1. \A n, k, h : n \in Nat /\ k \in n .. h => k \in Nat
        OBVIOUS
    <2>. QED BY <1>2, <1>4, <2>1, RequestIs
<1>. HIDE DEF r, g
<1>6. ASSUME Len(g) >= Len(initial), Tokens(r) > Budget, NEW k \in DOMAIN r,
             r[k].of \in own, r[k].compactable, r[k].size = Big
      PROVE  FALSE
    <2>1. /\ r \in Seq(Entries)
          /\ \A i \in 1 .. Len(r) : \E j \in 1 .. Len(x) : r[i] = x[j]
          /\ Tokens(x) <= Budget => r = x
        <3>. HIDE DEF x
        <3>1. x \in Seq(Entries) /\ p \in 2 .. Len(x) /\ x[p].role = "user"
            BY <1>5 DEF Opened, IsUser
        <3>2. p \in 2 .. p
            BY <3>1, LenIs
        <3>3. LET t == Snipped(x)
                  i == Len(t) - (Len(x) - p)
              IN  /\ t \in Seq(Entries) /\ Tidy(t) /\ Full(t)
                  /\ i \in 2 .. Len(t) /\ t[i] = x[p]
                  /\ \A h \in 1 .. Len(x) - p : t[i + h] = x[p + h]
                  /\ \A h \in 1 .. Len(t) : \E j \in 1 .. Len(x) : t[h] = x[j]
                  /\ Tokens(t) > Budget => Cardinality(UserAt(t)) = 1
                  /\ Tokens(x) <= Budget => t = x
            BY <1>5, <3>1, <3>2, SnippedTurn
        <3>. QED BY <1>4, <3>3
    <2>2. k \in 1 .. Len(r)
        BY <2>1, <1>6, LenIs
    <2>3. PICK j \in 1 .. Len(x) : r[k] = x[j]
        BY <2>1, <2>2
    <2>4. ~ (Tokens(x) <= Budget)
        <3>1. Tokens(x) \in Nat /\ Budget \in Nat
            <4>. HIDE DEF x
            <4>. QED BY <1>5, TokensIs, ConstantsAssumption DEF Opened
        <3>. HIDE DEF x
        <3>. QED BY <1>6, <2>1, <3>1
    <2>5. \A i \in Len(initial) + 1 .. Len(e) : e[i].compactable => x[i].size # Big
        <3>. DEFINE n == Len(initial)
        <3>1. n \in Nat /\ e \in Seq(Entries)
            BY <1>4
        <3>2. Replaced = Compacted(e, n, compacted)
            BY DEF Replaced
        <3>. HIDE DEF e, n
        <3>3. LET more == Compacted(e, n, compacted)
              IN  \/ Tokens(Shrunk(e, more)) <= Budget
                  \/ \A i \in n + 1 .. Len(e) :
                        e[i].compactable => Shrunk(e, more)[i].size # Big
            BY <3>1, CompactedIs
        <3>. QED BY <2>4, <3>2, <3>3 DEF n
    <2>. HIDE DEF x, e
    <2>6. /\ Len(x) = Len(e) /\ j \in 1 .. Len(e) /\ Len(e) \in Nat
          /\ x[j].role = e[j].role /\ x[j].of = e[j].of /\ x[j].compactable = e[j].compactable
        BY <1>4, <1>5, <2>3, LenIs DEF Alike
    <2>7. j \in 1 .. Len(g)
        <3>1. j \notin Len(initial) + 1 .. Len(e)
            BY <1>6, <2>3, <2>5, <2>6
        <3>. QED BY <1>4, <1>6, <2>6, <3>1
    <2>8. e[j] = g[j]
        BY <1>1, <1>4, <2>7, ConcatIs, GovernedTidy
    <2>9. g[j].role = "tool" /\ g[j].of \in own /\ g[j].of \in Nat \ {0}
        <3>1. x[j] \in Entries /\ x[j].size = Big
            BY <1>5, <1>6, <2>3, LenIs DEF Opened
        <3>2. x[j].role = "tool" /\ x[j].of \in Nat \ {0}
            BY <3>1, Fields
        <3>. QED BY <1>6, <2>3, <2>6, <2>8, <3>2
    <2>10. PICK i \in 1 .. Len(b) : g[j].of = b[i].of
        BY <2>9
    <2>11. b[i].role = "tool"
        <3>1. b[i].role # "tool" => b[i].of \in {0, -1}
            BY <1>1, Fields
        <3>. QED BY <2>9, <2>10, <3>1
    <2>12. g[j].of \in Calls(g) /\ b[i].of \in Calls(b)
        BY <1>1, <1>4, <2>7, <2>9, <2>11, ResultsDeclared
    <2>. QED BY <1>4, <2>10, <2>12
<1>. QED BY <1>3, <1>6

LEMMA HiddenNow ==
    ASSUME ContextInv
    PROVE  HiddenArchivedWithUser
<1>1. /\ messages \in Seq(Entries) /\ Tidy(messages) /\ Sane(messages)
      /\ cursor \in 0 .. Len(messages) /\ Len(messages) \in Nat
    BY LenIs DEF ContextInv, SessionPart, Tidy
<1>. DEFINE o == Overflow(messages, cursor)
<1>2. SUFFICES ASSUME UserAt(From(messages, Max({1, Len(messages) - Window + 1}))) # {},
                      NEW c \in Consolidated(messages, cursor),
                      {k \in UserAt(messages) : k > c /\ messages[k].of # -1} # {},
                      NEW sub \in BOOLEAN
               PROVE  LET users == {k \in UserAt(messages) : k > c /\ messages[k].of # -1}
                          tail == Visible(From(messages, Min(users)))
                      IN  \/ IsSuffix(tail, History(messages, c, Window, sub, Replay))
                          \/ Tokens(tail) > Replay /\ ~ AllReplayed(messages, o)
    BY DEF HiddenArchivedWithUser
<1>. DEFINE users == {k \in UserAt(messages) : k > c /\ messages[k].of # -1}
            u == Min(users)
            tail == Visible(From(messages, u))
            h == Replayable(messages, c, Window, sub)
<1>3. c \in o .. Len(messages) /\ c \in 0 .. Len(messages)
    BY <1>1, ConsolidatedIs
<1>4. o \in 0 .. Len(messages) /\ c >= Len(messages) - Window
    <2>1. o >= Len(messages) - Window /\ o \in cursor .. Len(messages)
        BY <1>1, <1>2, BoundaryIs, OverflowIs
    <2>. HIDE DEF o
    <2>. QED BY <1>1, <1>3, <2>1, ConstantsAssumption
<1>5. u \in users /\ \A k \in users : u <= k
    <2>1. users \in SUBSET Nat
        BY <1>1, UserAtIs
    <2>. HIDE DEF users
    <2>. QED BY <1>2, <2>1, MinIs DEF users
<1>6. /\ u \in 1 .. Len(messages) /\ messages[u].role = "user" /\ u > c /\ messages[u].of # -1
      /\ \A k \in 1 .. Len(messages) :
            k > c /\ messages[k].role = "user" /\ messages[k].of # -1 => u <= k
    <2>. HIDE DEF u
    <2>1. u \in UserAt(messages) /\ u > c /\ messages[u].of # -1
        BY <1>5
    <2>2. \A k \in UserAt(messages) : k > c /\ messages[k].of # -1 => u <= k
        BY <1>5
    <2>. QED BY <1>1, <2>1, <2>2, UserAtIs
<1>. HIDE DEF o, users, u
<1>7. Window \in Nat \ {0} /\ Replay \in Nat /\ Replay # 0
    BY ConstantsAssumption
<1>8. /\ h \in Seq(Entries) /\ Tidy(h) /\ tail \in Seq(Entries)
      /\ \E a \in Seq(Entries) : h = a \o tail
    <2>1. /\ messages \in Seq(Entries) /\ Tidy(messages) /\ c \in 0 .. Len(messages)
          /\ Window \in Nat \ {0} /\ c >= Len(messages) - Window
          /\ u \in 1 .. Len(messages) /\ u > c /\ messages[u].role = "user"
        BY <1>1, <1>3, <1>4, <1>6, <1>7
    <2>2. \A x \in BOOLEAN :
              /\ Replayable(messages, c, Window, x) \in Seq(Entries)
              /\ Tidy(Replayable(messages, c, Window, x))
              /\ Visible(From(messages, u)) \in Seq(Entries)
              /\ \E a \in Seq(Entries) :
                    Replayable(messages, c, Window, x) = a \o Visible(From(messages, u))
        BY <2>1, ReplayedIs, ZenonT(30)
    <2>. QED BY <2>2, ZenonT(30)
<1>9. Len(tail) >= 1 /\ tail[1].role = "user"
    BY <1>1, <1>6, ShownFirst
<1>10. History(messages, c, Window, sub, Replay) = TokenTail(h, Replay)
    BY <1>7 DEF History
<1>11. ASSUME \/ Tokens(tail) <= Replay
              \/ \A k \in 2 .. Len(tail) : tail[k].role # "user"
       PROVE  IsSuffix(tail, TokenTail(h, Replay))
    <2>. HIDE DEF tail, h
    <2>1. PICK a \in Seq(Entries) : h = a \o tail
        BY <1>8
    <2>. DEFINE n == Len(a) + 1
    <2>2. /\ Len(a) \in Nat /\ Len(tail) \in Nat
          /\ Len(h) = Len(a) + Len(tail)
          /\ \A i \in 1 .. Len(tail) : h[Len(a) + i] = tail[i]
        BY <1>8, <2>1, ConcatIs, LenIs
    <2>3. n \in 1 .. Len(h) /\ 1 \in 1 .. Len(tail) /\ n \in 1 .. Len(h) + 1
        BY <1>9, <2>2
    <2>4. h[n] = tail[1]
        BY <2>2, <2>3
    <2>5. From(h, n) = tail
        <3>1. /\ From(h, n) \in Seq(Entries) /\ Len(From(h, n)) = Len(h) - n + 1
              /\ \A k \in 1 .. Len(h) - n + 1 : From(h, n)[k] = h[n + k - 1]
            BY <1>8, <2>3, FromIs
        <3>2. Len(h) - n + 1 = Len(tail)
            BY <2>2
        <3>3. \A k \in 1 .. Len(tail) : n + k - 1 = Len(a) + k
            BY <2>2
        <3>. HIDE DEF n
        <3>4. \A k \in 1 .. Len(tail) : From(h, n)[k] = tail[k]
            BY <2>2, <3>1, <3>2, <3>3
        <3>. QED BY <1>8, <3>1, <3>2, <3>4, SeqEqual
    <2>6. ASSUME \A k \in 2 .. Len(tail) : tail[k].role # "user"
          PROVE  \A k \in n + 1 .. Len(h) : h[k].role # "user"
        <3>1. TAKE k \in n + 1 .. Len(h)
        <3>2. /\ k - Len(a) \in 2 .. Len(tail) /\ k - Len(a) \in 1 .. Len(tail)
              /\ Len(a) + (k - Len(a)) = k
            BY <2>2
        <3>3. h[k] = tail[k - Len(a)]
            BY <2>2, <3>2
        <3>. QED BY <2>6, <3>2, <3>3
    <2>. HIDE DEF n
    <2>7. IsSuffix(From(h, n), TokenTail(h, Replay))
        BY <1>7, <1>8, <1>9, <1>11, <2>3, <2>4, <2>5, <2>6, TokenTailKeeps
    <2>. QED BY <2>5, <2>7
<1>12. Tokens(tail) \in Nat
    BY <1>8, TokensIs
<1>13. o \in 0 .. Len(messages) /\ u > o /\ messages # <<>>
    BY <1>1, <1>3, <1>4, <1>6
<1>14. Estimate(messages, o) \in Nat /\ Tokens(tail) <= Estimate(messages, o)
    BY <1>1, <1>6, <1>13, EstimateIs
<1>15. CASE Estimate(messages, o) < Replay
    <2>1. Tokens(tail) <= Replay
        <3>. HIDE DEF tail
        <3>. QED BY <1>7, <1>12, <1>14, <1>15
    <2>. QED BY <1>10, <1>11, <2>1 DEF users, u
<1>16. CASE ~ AllReplayed(messages, o)
    <2>1. Tokens(tail) <= Replay \/ Tokens(tail) > Replay
        <3>. HIDE DEF tail
        <3>. QED BY <1>7, <1>12
    <2>. QED BY <1>10, <1>11, <1>16, <2>1 DEF users, u
<1>17. CASE ~ (Estimate(messages, o) < Replay) /\ AllReplayed(messages, o)
    <2>. DEFINE t == From(messages, u)
    <2>1. Estimate(messages, o) >= Replay
        BY <1>7, <1>14, <1>17
    <2>2. Settled(messages, c)
        BY <1>1, <1>13, <1>17, <2>1, ConsolidatedSettles DEF o
    <2>3. /\ c < Len(messages) /\ c + 1 \in 1 .. Len(messages) /\ c + 1 > c
          /\ c + 1 \in o + 1 .. Len(messages) /\ u \in o + 1 .. Len(messages)
        BY <1>1, <1>3, <1>4, <1>6, <1>13
    <2>4. /\ messages[c + 1].role = "user"
          /\ \/ Tokens(From(messages, c + 1)) <= Replay
             \/ \A k \in c + 2 .. Len(messages) : messages[k].role # "user"
        BY <2>2, <2>3 DEF Settled
    <2>5. messages[c + 1].of # -1
        BY <1>17, <2>3 DEF AllReplayed
    <2>6. u = c + 1
        <3>1. u <= c + 1
            BY <1>6, <2>3, <2>4, <2>5
        <3>. QED BY <1>3, <1>6, <3>1
    <2>7. /\ t \in Seq(Entries) /\ Len(t) = Len(messages) - u + 1
          /\ \A k \in 1 .. Len(messages) - u + 1 : t[k] = messages[u + k - 1]
        <3>1. u \in 1 .. Len(messages) + 1
            BY <1>1, <1>6
        <3>. QED BY <1>1, <3>1, FromIs
    <2>8. tail = t
        <3>1. \A k \in 1 .. Len(messages) - u + 1 : u + k - 1 \in o + 1 .. Len(messages)
            BY <1>1, <1>13, <2>3
        <3>2. \A k \in 1 .. Len(t) : t[k].of # -1
            BY <1>17, <2>7, <3>1 DEF AllReplayed
        <3>. HIDE DEF t
        <3>3. Visible(t) = t
            BY <2>7, <3>2, ShownAll
        <3>. QED BY <3>3 DEF t
    <2>9. ASSUME \A k \in c + 2 .. Len(messages) : messages[k].role # "user"
          PROVE  \A k \in 2 .. Len(tail) : tail[k].role # "user"
        <3>. HIDE DEF t, tail
        <3>1. TAKE k \in 2 .. Len(tail)
        <3>2. k \in 1 .. Len(messages) - u + 1 /\ u + k - 1 \in c + 2 .. Len(messages)
            BY <1>1, <1>3, <1>6, <2>6, <2>7, <2>8
        <3>. QED BY <2>7, <2>8, <2>9, <3>2
    <2>10. IsSuffix(tail, TokenTail(h, Replay))
        BY <1>11, <2>4, <2>6, <2>8, <2>9
    <2>. QED BY <1>10, <2>10 DEF users, u
<1>. QED BY <1>15, <1>16, <1>17
-----------------------------------------------------------------------------
(* The steps of a session *)

LEMMA BeginsTo ==
    ASSUME ContextInit
    PROVE  ContextInv
<1>1. Tidy(<<>>) /\ Full(<<>>) /\ Calls(<<>>) = {} /\ <<>> \in Seq(Entries) /\ Len(<<>>) = 0
    BY EmptyTidy
<1>2. FileCap \in Nat /\ MaxUnits \in Nat
    BY ConstantsAssumption
<1>3. SessionPart
    BY <1>1, <1>2 DEF ContextInit, SessionPart
<1>4. ~Running
    BY DEF ContextInit, Running
<1>5. TurnPart
    BY <1>1, <1>4 DEF ContextInit, TurnPart
<1>6. CompactedPart
    BY <1>4 DEF CompactedPart
<1>. QED BY <1>3, <1>5, <1>6 DEF ContextInv

LEMMA AppendedIs ==
    ASSUME NEW s \in Seq(Entries), Tidy(s), NEW m \in Entries, m.role \notin {"call", "tool"}
    PROVE  LET t == Append(s, m)
           IN  /\ t \in Seq(Entries) /\ Tidy(t) /\ Calls(t) = Calls(s)
               /\ Len(t) = Len(s) + 1 /\ Len(s) \in Nat
<1>. DEFINE o == <<m>>
<1>1. o \in Seq(Entries) /\ Len(o) = 1 /\ Tidy(o) /\ Calls(o) = {}
    BY OneTidy
<1>2. Append(s, m) = s \o o
    BY AppendIsConcat
<1>. HIDE DEF o
<1>3. s \o o \in Seq(Entries) /\ Len(s \o o) = Len(s) + Len(o)
      /\ Calls(s \o o) = Calls(s) \cup Calls(o)
    BY <1>1, ConcatIs
<1>4. Tidy(s \o o)
    <2>1. Calls(s) \cap Calls(o) = {}
        BY <1>1
    <2>. QED BY <1>1, <2>1, ConcatTidy
<1>5. Len(s) \in Nat
    BY LenIs
<1>. QED BY <1>1, <1>2, <1>3, <1>4, <1>5

\* A save leaves a conversation within the cap, and the cursor in it.
LEMMA SavedIs ==
    ASSUME NEW s \in Seq(Entries), Tidy(s), NEW c \in 0 .. Len(s), Save(s, c),
           Calls(s) \subseteq 1 .. 2 * units', units' \in 0 .. MaxUnits
    PROVE  SessionPart' /\ Calls(messages') \subseteq Calls(s)
<1>. DEFINE m == Capped(s, c).messages
            d == Capped(s, c).cursor
<1>1. messages' = m /\ cursor' = d
    BY DEF Save
<1>2. /\ m \in Seq(Entries) /\ Tidy(m) /\ Calls(m) \subseteq Calls(s)
      /\ Len(m) <= FileCap /\ d \in 0 .. Len(m)
    BY CappedIs
<1>. HIDE DEF m, d
<1>3. /\ messages' \in Seq(Entries) /\ Tidy(messages') /\ Calls(messages') \subseteq Calls(s)
      /\ Len(messages') <= FileCap /\ cursor' \in 0 .. Len(messages')
    BY <1>1, <1>2
<1>4. Calls(messages') \subseteq 1 .. 2 * units'
    BY <1>3
<1>5. SessionPart'
    BY <1>3, <1>4 DEF SessionPart, Known
<1>. QED BY <1>3, <1>5

LEMMA UnitIs ==
    ASSUME SessionPart, Unit
    PROVE  /\ units' = units + 1 /\ units \in Nat /\ units' \in 0 .. MaxUnits
           /\ Known \subseteq 1 .. 2 * units'
           /\ 2 * units + 1 \in (1 .. 2 * units') \ Known
           /\ 2 * units + 2 \in (1 .. 2 * units') \ Known
<1>1. units \in Nat /\ units < MaxUnits /\ units' = units + 1 /\ MaxUnits \in Nat
    BY ConstantsAssumption DEF SessionPart, Unit
<1>2. units' \in 0 .. MaxUnits
    BY <1>1
<1>. DEFINE a == 2 * units
            b == 2 * units'
<1>3. a \in Nat /\ b = a + 2
    BY <1>1
<1>. HIDE DEF a, b
<1>4. 1 .. a \subseteq 1 .. b
    <2>1. \A i \in 1 .. a : i \in 1 .. b
        BY <1>3
    <2>. QED BY <2>1
<1>5. a + 1 \in (1 .. b) \ (1 .. a) /\ a + 2 \in (1 .. b) \ (1 .. a)
    BY <1>3
<1>. QED BY <1>1, <1>2, <1>4, <1>5 DEF Known, a, b

\* Between turns a step keeps what is said of turns.
LEMMA IdleStep ==
    ASSUME ContextInv, ~Running, SessionPart',
           initial' = initial, inflight' = inflight
    PROVE  ContextInv'
<1>1. initial' = <<>> /\ inflight' = <<>>
    BY DEF ContextInv, TurnPart, Running
<1>2. Tidy(<<>>) /\ Full(<<>>) /\ Calls(<<>>) = {} /\ <<>> \in Seq(Entries) /\ Len(<<>>) = 0
    BY EmptyTidy
<1>3. ~Running'
    BY <1>1 DEF Running
<1>4. TurnPart'
    BY <1>1, <1>2, <1>3 DEF TurnPart
<1>5. CompactedPart'
    BY <1>3 DEF CompactedPart
<1>. QED BY <1>4, <1>5 DEF ContextInv

LEMMA DeliverStep ==
    ASSUME ContextInv, Deliver
    PROVE  ContextInv'
<1>. DEFINE s == Append(messages, Delivery)
<1>1. /\ messages \in Seq(Entries) /\ Tidy(messages) /\ Calls(messages) \subseteq Known
      /\ cursor \in 0 .. Len(messages) /\ SessionPart
    BY DEF ContextInv, SessionPart
<1>2. Delivery \in Entries /\ Delivery.role \notin {"call", "tool"}
    BY MadeIs
<1>3. /\ s \in Seq(Entries) /\ Tidy(s) /\ Calls(s) = Calls(messages)
      /\ Len(s) = Len(messages) + 1 /\ Len(messages) \in Nat
    BY <1>1, <1>2, AppendedIs
<1>4. Save(s, cursor) /\ Unit /\ ~Running /\ initial' = initial /\ inflight' = inflight
    BY DEF Deliver
<1>. HIDE DEF s
<1>5. cursor \in 0 .. Len(s)
    BY <1>1, <1>3
<1>6. Calls(s) \subseteq 1 .. 2 * units' /\ units' \in 0 .. MaxUnits
    BY <1>1, <1>3, <1>4, UnitIs
<1>7. SessionPart'
    BY <1>3, <1>4, <1>5, <1>6, SavedIs
<1>. QED BY <1>4, <1>7, IdleStep

LEMMA SlashStep ==
    ASSUME ContextInv, Slash
    PROVE  ContextInv'
<1>. DEFINE o == Append(messages, SlashUser)
            s == Append(o, SlashReply)
<1>1. /\ messages \in Seq(Entries) /\ Tidy(messages) /\ Calls(messages) \subseteq Known
      /\ cursor \in 0 .. Len(messages) /\ SessionPart
    BY DEF ContextInv, SessionPart
<1>2. /\ SlashUser \in Entries /\ SlashUser.role \notin {"call", "tool"}
      /\ SlashReply \in Entries /\ SlashReply.role \notin {"call", "tool"}
    BY MadeIs
<1>3. messages \o <<SlashUser, SlashReply>> = s
    BY <1>1, <1>2
<1>4. /\ o \in Seq(Entries) /\ Tidy(o) /\ Calls(o) = Calls(messages)
      /\ Len(o) = Len(messages) + 1 /\ Len(messages) \in Nat
    BY <1>1, <1>2, AppendedIs
<1>. HIDE DEF o
<1>5. /\ s \in Seq(Entries) /\ Tidy(s) /\ Calls(s) = Calls(o)
      /\ Len(s) = Len(o) + 1
    BY <1>2, <1>4, AppendedIs
<1>6. Save(s, cursor) /\ Unit /\ ~Running /\ initial' = initial /\ inflight' = inflight
    BY <1>3 DEF Slash
<1>. HIDE DEF s
<1>7. cursor \in 0 .. Len(s)
    BY <1>1, <1>4, <1>5
<1>8. Calls(s) \subseteq 1 .. 2 * units' /\ units' \in 0 .. MaxUnits
    BY <1>1, <1>4, <1>5, <1>6, UnitIs
<1>9. SessionPart'
    BY <1>5, <1>6, <1>7, <1>8, SavedIs
<1>. QED BY <1>6, <1>9, IdleStep

LEMMA CompactIdleStep ==
    ASSUME ContextInv, CompactIdle
    PROVE  ContextInv'
<1>1. /\ messages \in Seq(Entries) /\ Tidy(messages) /\ Calls(messages) \subseteq Known
      /\ Len(messages) <= FileCap /\ units \in 0 .. MaxUnits /\ Len(messages) \in Nat
    BY LenIs DEF ContextInv, SessionPart
<1>2. /\ messages' = messages /\ cursor' = Len(messages) /\ units' = units /\ ~Running
      /\ initial' = initial /\ inflight' = inflight
    BY DEF CompactIdle
<1>3. Len(messages) \in 0 .. Len(messages)
    BY <1>1
<1>4. SessionPart'
    BY <1>1, <1>2, <1>3 DEF SessionPart, Known
<1>. QED BY <1>2, <1>4, IdleStep

LEMMA StutterStep ==
    ASSUME ContextInv, UNCHANGED contextVars
    PROVE  ContextInv'
BY DEF contextVars, ContextInv, SessionPart, TurnPart, CompactedPart, StartedFrom, Running, Known

\* The last answer ends the turn: its messages are saved.
LEMMA FinishStep ==
    ASSUME ContextInv, NEW answer \in {Reply, Placeholder}, Finish(answer)
    PROVE  ContextInv'
<1>. DEFINE t == Append(inflight, answer)
            s == messages \o t
<1>1. /\ messages \in Seq(Entries) /\ Tidy(messages) /\ Calls(messages) \subseteq Known
      /\ cursor \in 0 .. Len(messages) /\ units \in 0 .. MaxUnits /\ Len(messages) \in Nat
    BY LenIs DEF ContextInv, SessionPart
<1>2. /\ inflight \in Seq(Entries) /\ Tidy(inflight) /\ Calls(inflight) \subseteq Known
      /\ Calls(inflight) \cap Calls(messages) = {}
    BY DEF ContextInv, TurnPart
<1>3. answer \in Entries /\ answer.role \notin {"call", "tool"}
    BY MadeIs
<1>4. /\ t \in Seq(Entries) /\ Tidy(t) /\ Calls(t) = Calls(inflight)
    BY <1>2, <1>3, AppendedIs
<1>5. /\ Save(s, cursor) /\ initial' = <<>> /\ inflight' = <<>> /\ units' = units
    BY DEF Finish
<1>. HIDE DEF t
<1>6. s \in Seq(Entries) /\ Len(s) = Len(messages) + Len(t) /\ Calls(s) = Calls(messages) \cup Calls(t)
    BY <1>1, <1>4, ConcatIs
<1>7. Tidy(s)
    <2>1. Calls(messages) \cap Calls(t) = {}
        BY <1>2, <1>4
    <2>. QED BY <1>1, <1>4, <2>1, ConcatTidy
<1>8. Len(t) \in Nat
    BY <1>4, LenIs
<1>. HIDE DEF s
<1>9. cursor \in 0 .. Len(s)
    BY <1>1, <1>6, <1>8
<1>10. Calls(s) \subseteq 1 .. 2 * units' /\ units' \in 0 .. MaxUnits
    BY <1>1, <1>2, <1>4, <1>5, <1>6 DEF Known
<1>11. SessionPart'
    BY <1>5, <1>6, <1>7, <1>9, <1>10, SavedIs
<1>12. Tidy(<<>>) /\ Full(<<>>) /\ Calls(<<>>) = {} /\ <<>> \in Seq(Entries) /\ Len(<<>>) = 0
    BY EmptyTidy
<1>13. ~Running'
    BY <1>5 DEF Running
<1>14. TurnPart'
    BY <1>5, <1>12, <1>13 DEF TurnPart
<1>15. CompactedPart'
    BY <1>13 DEF CompactedPart
<1>. QED BY <1>11, <1>14, <1>15 DEF ContextInv
-----------------------------------------------------------------------------
(* A tool round *)

\* The calls of a round and their results are a conversation of their own.
LEMMA RoundIs ==
    ASSUME NEW u \in Nat, NEW n \in {1, 2}, NEW outcomes \in [1 .. n -> Outcomes]
    PROVE  LET id(i) == 2 * u + i
               c == Call({id(i) : i \in 1 .. n})
               q == [i \in 1 .. n |-> Result(id(i), outcomes[i])]
               r == <<c>> \o q
           IN  /\ c \in Entries /\ q \in Seq(Entries) /\ <<c>> \in Seq(Entries)
               /\ r \in Seq(Entries) /\ Tidy(r) /\ Full(r)
               /\ Calls(r) \subseteq {2 * u + 1, 2 * u + 2}
<1>. DEFINE v == 2 * u
            id(i) == v + i
            ids == {id(i) : i \in 1 .. n}
            c == Call(ids)
            q == [i \in 1 .. n |-> Result(id(i), outcomes[i])]
            r == <<c>> \o q
<1>1. v \in Nat /\ n \in Nat
    OBVIOUS
<1>. HIDE DEF v
<1>2. \A i \in 1 .. n : id(i) \in Nat \ {0} /\ id(i) \in 1 .. v + 2 /\ id(i) \in {v + 1, v + 2}
    BY <1>1
<1>3. ids \in SUBSET (Nat \ {0}) /\ ids \subseteq 1 .. v + 2 /\ ids \subseteq {v + 1, v + 2}
    BY <1>2
<1>4. IsFiniteSet(ids)
    <2>. DEFINE b == v + 2
    <2>1. 1 \in Int /\ b \in Int
        BY <1>1
    <2>2. ids \subseteq 1 .. b
        BY <1>3
    <2>. HIDE DEF b, ids
    <2>3. IsFiniteSet(1 .. b)
        BY <2>1, FS_Interval
    <2>. QED BY <2>2, <2>3, FS_Subset
<1>5. \A i \in 1 .. n : id(i) \in ids
    OBVIOUS
<1>. HIDE DEF ids
<1>6. /\ c \in Entries /\ c.role = "call" /\ c.calls = ids /\ c.of = 0
    <2>1. 1 # Big
        BY ConstantsAssumption
    <2>. QED BY <1>3, <1>4, <2>1 DEF Call, Message, Entries, Roles
<1>. HIDE DEF c
<1>7. \A i \in 1 .. n : /\ q[i] \in Entries
                        /\ q[i].role = "tool" /\ q[i].of = id(i) /\ q[i].calls = {}
    <2>1. TAKE i \in 1 .. n
    <2>2. q[i] = Result(id(i), outcomes[i]) /\ outcomes[i] \in Outcomes
        OBVIOUS
    <2>. QED BY <1>2, <2>2, MessageIs
<1>8. q \in [1 .. n -> Entries]
    BY <1>7
<1>. HIDE DEF q
<1>9. q \in Seq(Entries) /\ Len(q) = n
    BY <1>1, <1>8
<1>. DEFINE o == <<c>>
<1>10. o \in Seq(Entries) /\ Len(o) = 1 /\ o[1] = c
    BY <1>6
<1>. HIDE DEF o
<1>11. /\ o \o q \in Seq(Entries) /\ Len(o \o q) = Len(o) + Len(q)
       /\ \A k \in 1 .. Len(o) : (o \o q)[k] = o[k]
       /\ \A k \in 1 .. Len(q) : (o \o q)[Len(o) + k] = q[k]
    BY <1>9, <1>10, ConcatIs
<1>12. r = o \o q
    BY DEF o
<1>. HIDE DEF r
<1>13. /\ r \in Seq(Entries) /\ Len(r) = 1 + n /\ r[1] = c
       /\ \A k \in 1 .. n : r[1 + k] = q[k]
    BY <1>9, <1>10, <1>11, <1>12
<1>14. \A k \in 1 .. Len(r) :
          \/ k = 1 /\ r[k].role = "call" /\ r[k].calls = ids
          \/ k > 1 /\ k - 1 \in 1 .. n /\ r[k].role = "tool" /\ r[k].of = v + (k - 1) /\ r[k].calls = {}
    <2>1. TAKE k \in 1 .. Len(r)
    <2>2. CASE k = 1
        BY <1>6, <1>13, <2>2
    <2>3. CASE k > 1
        <3>1. k - 1 \in 1 .. n /\ 1 + (k - 1) = k
            BY <1>1, <1>13, <2>3
        <3>2. r[k] = q[k - 1]
            BY <1>13, <3>1
        <3>. QED BY <1>7, <2>3, <3>1, <3>2
    <2>. QED BY <1>1, <1>13, <2>2, <2>3
<1>15. Sane(r)
    <2>1. \A j, k \in 1 .. Len(r) : j # k => r[j].calls \cap r[k].calls = {}
        BY <1>14
    <2>2. \A j, k \in 1 .. Len(r) :
              j # k /\ r[j].role = "tool" /\ r[k].role = "tool" => r[j].of # r[k].of
        <3>1. TAKE j, k \in 1 .. Len(r)
        <3>2. HAVE j # k /\ r[j].role = "tool" /\ r[k].role = "tool"
        <3>3. r[j].of = v + (j - 1) /\ r[k].of = v + (k - 1)
            BY <1>14, <3>2
        <3>. QED BY <1>1, <1>13, <3>2, <3>3
    <2>3. \A j, k \in 1 .. Len(r) :
              r[k].role = "tool" /\ j < k /\ r[k].of \in r[j].calls =>
                  \A h \in j + 1 .. k - 1 : r[h].role = "tool"
        <3>1. TAKE j, k \in 1 .. Len(r)
        <3>2. HAVE r[k].role = "tool" /\ j < k /\ r[k].of \in r[j].calls
        <3>3. TAKE h \in j + 1 .. k - 1
        <3>4. h \in 1 .. Len(r) /\ h # 1
            BY <1>1, <1>13
        <3>. QED BY <1>14, <3>4
    <2>. QED BY <2>1, <2>2, <2>3 DEF Sane
<1>16. LegalFrom(r, 1)
    <2>1. SUFFICES ASSUME NEW k \in 1 .. Len(r), r[k].role = "tool"
                   PROVE  \E j \in 1 .. k - 1 : r[k].of \in r[j].calls
        BY DEF LegalFrom
    <2>2. k > 1 /\ k - 1 \in 1 .. n /\ r[k].of = id(k - 1)
        BY <1>14, <2>1
    <2>3. 1 \in 1 .. k - 1
        BY <2>2
    <2>4. r[k].of \in r[1].calls
        BY <1>5, <1>6, <1>13, <2>2
    <2>. QED BY <2>3, <2>4
<1>17. Full(r)
    <2>1. SUFFICES ASSUME NEW k \in 1 .. Len(r), NEW x \in Missing(r, k)
                   PROVE  FALSE
        BY DEF Full
    <2>2. DOMAIN r = 1 .. Len(r)
        BY <1>13, LenIs
    <2>3. x \in r[k].calls
        BY DEF Missing
    <2>4. x \in ids
        BY <1>14, <2>3
    <2>5. PICK i \in 1 .. n : x = id(i)
        BY <2>4 DEF ids
    <2>6. 1 + i \in 1 .. Len(r)
        BY <1>1, <1>13
    <2>7. r[1 + i].role = "tool" /\ r[1 + i].of = x
        BY <1>7, <1>13, <2>5
    <2>. QED BY <2>2, <2>6, <2>7 DEF Missing
<1>18. Calls(r) \subseteq {v + 1, v + 2}
    <2>1. \A k \in 1 .. Len(r) : r[k].calls \subseteq ids
        BY <1>14
    <2>. QED BY <1>3, <2>1 DEF Calls
<1>. QED BY <1>6, <1>9, <1>10, <1>13, <1>15, <1>16, <1>17, <1>18 DEF Tidy, v, ids, c, q, r, o

LEMMA TwoIs ==
    ASSUME NEW S, NEW a \in S, NEW b \in S
    PROVE  <<a>> \o <<b>> = <<a, b>>
<1>. DEFINE s == <<a>> \o <<b>>
            t == <<a, b>>
<1>1. /\ <<a>> \in Seq(S) /\ <<b>> \in Seq(S)
      /\ t \in Seq(S) /\ Len(t) = 2 /\ t[1] = a /\ t[2] = b
    OBVIOUS
<1>2. s \in Seq(S) /\ Len(s) = 2 /\ s[1] = a /\ s[2] = b
    BY <1>1, ConcatProperties
<1>. HIDE DEF s, t
<1>3. \A i \in 1 .. Len(s) : s[i] = t[i]
    <2>1. \A i \in 1 .. 2 : i = 1 \/ i = 2
        OBVIOUS
    <2>. QED BY <1>1, <1>2, <2>1
<1>4. s = t
    BY <1>1, <1>2, <1>3, SeqEqual
<1>. QED BY <1>4 DEF s, t

\* The messages that are joined to a turn hold no call.
LEMMA JoinedIs ==
    ASSUME NEW m \in {Reply, Placeholder}
    PROVE  /\ <<User>> \in Seq(Entries) /\ Tidy(<<User>>) /\ Full(<<User>>)
           /\ Calls(<<User>>) = {}
           /\ <<m>> \in Seq(Entries)
           /\ LET j == <<m>> \o <<User>>
              IN  j \in Seq(Entries) /\ Tidy(j) /\ Full(j) /\ Calls(j) = {}
<1>. DEFINE a == <<m>>
            o == <<User>>
<1>1. /\ m \in Entries /\ m.role \notin {"call", "tool"}
      /\ User \in Entries /\ User.role \notin {"call", "tool"}
    BY MadeIs
<1>2. /\ a \in Seq(Entries) /\ Tidy(a) /\ Full(a) /\ Calls(a) = {}
      /\ o \in Seq(Entries) /\ Tidy(o) /\ Full(o) /\ Calls(o) = {}
    BY <1>1, OneTidy
<1>. HIDE DEF a, o
<1>3. Calls(a) \cap Calls(o) = {}
    BY <1>2
<1>4. a \o o \in Seq(Entries) /\ Calls(a \o o) = {} /\ Tidy(a \o o) /\ Full(a \o o)
    BY <1>2, <1>3, ConcatIs, ConcatTidy
<1>. QED BY <1>2, <1>4 DEF a, o

\* What a round adds.
LEMMA AddedIs ==
    ASSUME ContextInv, NEW round \in Rounds, Round(round.outcomes, round.joined)
    PROVE  \E r \in Seq(Entries) :
              /\ inflight' = inflight \o r
              /\ Tidy(r) /\ Full(r)
              /\ Calls(r) \subseteq {2 * units + 1, 2 * units + 2}
<1>. DEFINE outcomes == round.outcomes
            joined == round.joined
<1>1. /\ outcomes \in {<<x>> : x \in Outcomes} \cup (Outcomes \X Outcomes)
      /\ joined \in {<<>>, <<User>>, <<Reply, User>>}
    BY RoundsAssumption
<1>2. \E n \in {1, 2} : outcomes \in [1 .. n -> Outcomes] /\ DOMAIN outcomes = 1 .. n
    <2>. HIDE DEF outcomes
    <2>1. CASE outcomes \in {<<x>> : x \in Outcomes}
        <3>1. PICK x \in Outcomes : outcomes = <<x>>
            BY <2>1
        <3>2. outcomes \in [1 .. 1 -> Outcomes] /\ DOMAIN outcomes = 1 .. 1
            BY <3>1
        <3>. QED BY <3>2
    <2>2. CASE outcomes \in Outcomes \X Outcomes
        <3>1. PICK x \in Outcomes, y \in Outcomes : outcomes = <<x, y>>
            BY <2>2
        <3>2. outcomes \in [1 .. 2 -> Outcomes] /\ DOMAIN outcomes = 1 .. 2
            BY <3>1
        <3>. QED BY <3>2
    <2>. QED BY <1>1, <2>1, <2>2
<1>3. PICK n \in {1, 2} : outcomes \in [1 .. n -> Outcomes] /\ DOMAIN outcomes = 1 .. n
    BY <1>2
<1>. DEFINE c == Call({2 * units + i : i \in 1 .. n})
            q == [i \in 1 .. n |-> Result(2 * units + i, outcomes[i])]
<1>4. inflight' = (Append(inflight, c) \o q) \o joined
    BY <1>3 DEF Round
<1>5. units \in Nat /\ inflight \in Seq(Entries)
    BY ConstantsAssumption DEF ContextInv, SessionPart, TurnPart
<1>. HIDE DEF outcomes
<1>6. LET r == <<c>> \o q
      IN  /\ c \in Entries /\ q \in Seq(Entries) /\ <<c>> \in Seq(Entries)
          /\ r \in Seq(Entries) /\ Tidy(r) /\ Full(r)
          /\ Calls(r) \subseteq {2 * units + 1, 2 * units + 2}
    BY <1>3, <1>5, RoundIs
<1>. HIDE DEF c, q, joined
<1>7. /\ joined \in Seq(Entries) /\ Tidy(joined) /\ Full(joined) /\ Calls(joined) = {}
    <2>1. <<Reply>> \o <<User>> = <<Reply, User>>
        BY MadeIs, TwoIs
    <2>. QED BY <1>1, <2>1, JoinedIs, EmptyTidy
<1>. DEFINE r == <<c>> \o q
            t == r \o joined
<1>8. Append(inflight, c) = inflight \o <<c>>
    BY <1>5, <1>6, AppendIsConcat
<1>9. (inflight \o <<c>>) \o q = inflight \o r
    BY <1>5, <1>6, ConcatAssociative
<1>10. /\ r \in Seq(Entries) /\ Tidy(r) /\ Full(r)
       /\ Calls(r) \subseteq {2 * units + 1, 2 * units + 2}
    BY <1>6
<1>. HIDE DEF r
<1>11. (inflight \o r) \o joined = inflight \o t
    BY <1>5, <1>7, <1>10, ConcatAssociative
<1>12. t \in Seq(Entries) /\ Tidy(t) /\ Full(t) /\ Calls(t) = Calls(r)
    <2>1. Calls(r) \cap Calls(joined) = {}
        BY <1>7
    <2>2. t \in Seq(Entries) /\ Calls(t) = Calls(r) \cup Calls(joined)
        BY <1>7, <1>10, ConcatIs
    <2>3. Tidy(t) /\ Full(t)
        BY <1>7, <1>10, <2>1, ConcatTidy
    <2>. QED BY <1>7, <2>2, <2>3
<1>. QED BY <1>4, <1>8, <1>9, <1>10, <1>11, <1>12

\* What a request has replaced are results of the turn.
LEMMA SendIs ==
    ASSUME ContextInv, Running, Len(Governed(initial)) <= Len(initial), Send
    PROVE  compacted' \subseteq {inflight[k].of : k \in 1 .. Len(inflight)}
<1>. DEFINE g == Governed(initial)
            e == Governed(initial \o inflight)
            n == Len(initial)
            b == inflight
            d == Governed(b)
            own == {b[k].of : k \in 1 .. Len(b)}
<1>1. /\ n \in Nat /\ g \in Seq(Entries) /\ e = g \o d /\ e \in Seq(Entries)
    BY RequestIs
<1>2. compacted \subseteq own
    BY DEF ContextInv, CompactedPart
<1>3. compacted' = Compacted(e, n, compacted)
    BY DEF Send, Replaced
<1>4. /\ d \in Seq(Entries)
      /\ \A k \in 1 .. Len(d) : \E j \in 1 .. Len(b) : d[k] = b[j]
    BY GovernedFull DEF ContextInv, TurnPart
<1>5. Len(g) <= n /\ Len(g) \in Nat
    BY <1>1, LenIs
<1>. HIDE DEF e, n, g, d
<1>6. compacted' \subseteq compacted \cup {e[k].of : k \in n + 1 .. Len(e)}
    <2>1. LET more == Compacted(e, n, compacted)
          IN  more \subseteq compacted \cup {e[k].of : k \in n + 1 .. Len(e)}
        BY <1>1, CompactedIs
    <2>. QED BY <1>3, <2>1
<1>7. /\ Len(e) = Len(g) + Len(d) /\ Len(d) \in Nat
      /\ \A i \in 1 .. Len(d) : e[Len(g) + i] = d[i]
    BY <1>1, <1>4, ConcatIs, LenIs
<1>8. \A k \in n + 1 .. Len(e) : e[k].of \in own
    <2>1. TAKE k \in n + 1 .. Len(e)
    <2>2. k - Len(g) \in 1 .. Len(d) /\ Len(g) + (k - Len(g)) = k
        BY <1>1, <1>5, <1>7
    <2>3. e[k] = d[k - Len(g)]
        BY <1>7, <2>2
    <2>. QED BY <1>4, <2>2, <2>3
<1>. QED BY <1>2, <1>6, <1>8

\* A step that makes a request and adds r to the turn.
LEMMA GrownStep ==
    ASSUME ContextInv, Running, Unit, Send, UNCHANGED <<messages, cursor, initial>>,
           NEW r \in Seq(Entries), inflight' = inflight \o r, Tidy(r), Full(r),
           Calls(r) \subseteq {2 * units + 1, 2 * units + 2}
    PROVE  ContextInv'
<1>1. messages' = messages /\ cursor' = cursor /\ initial' = initial
    OBVIOUS
<1>2. /\ messages \in Seq(Entries) /\ Tidy(messages) /\ Calls(messages) \subseteq Known
      /\ Len(messages) <= FileCap /\ cursor \in 0 .. Len(messages) /\ SessionPart
    BY DEF ContextInv, SessionPart
<1>3. /\ inflight \in Seq(Entries) /\ Tidy(inflight) /\ Full(inflight)
      /\ Calls(inflight) \subseteq Known /\ Calls(inflight) \cap Calls(messages) = {}
      /\ Len(inflight) \in Nat
    BY LenIs DEF ContextInv, TurnPart
<1>4. PICK p : StartedFrom(p)
    BY DEF ContextInv, TurnPart
<1>5. /\ p \in Seq(Entries) /\ Tidy(p) /\ Calls(p) \subseteq Known
      /\ Calls(p) \cap Calls(inflight) = {}
      /\ initial = (<<System>> \o p) \o <<User>>
    BY <1>4 DEF StartedFrom
<1>6. /\ units' \in 0 .. MaxUnits /\ Known \subseteq 1 .. 2 * units'
      /\ Calls(r) \subseteq 1 .. 2 * units' /\ Calls(r) \cap Known = {}
    <2>1. /\ 2 * units + 1 \in (1 .. 2 * units') \ Known
          /\ 2 * units + 2 \in (1 .. 2 * units') \ Known
          /\ units' \in 0 .. MaxUnits /\ Known \subseteq 1 .. 2 * units'
        BY <1>2, UnitIs
    <2>. QED BY <2>1
<1>7. Calls(messages) \subseteq 1 .. 2 * units' /\ Calls(p) \subseteq 1 .. 2 * units'
    BY <1>2, <1>5, <1>6
<1>8. SessionPart'
    BY <1>1, <1>2, <1>6, <1>7 DEF SessionPart, Known
<1>. DEFINE t == inflight \o r
<1>9. /\ t \in Seq(Entries) /\ Len(t) = Len(inflight) + Len(r)
      /\ \A k \in 1 .. Len(inflight) : t[k] = inflight[k]
      /\ Calls(t) = Calls(inflight) \cup Calls(r)
    BY <1>3, ConcatIs
<1>10. Tidy(t) /\ Full(t)
    <2>1. Calls(inflight) \cap Calls(r) = {}
        BY <1>3, <1>6
    <2>. QED BY <1>3, <2>1, ConcatTidy
<1>. HIDE DEF t
<1>11. inflight' = t
    BY DEF t
<1>12. /\ Calls(t) \subseteq 1 .. 2 * units' /\ Calls(t) \cap Calls(messages) = {}
       /\ Calls(p) \cap Calls(t) = {}
    BY <1>2, <1>3, <1>5, <1>6, <1>9
<1>13. Running'
    BY <1>1 DEF Running
<1>14. (\E q : StartedFrom(q))'
    <2>1. /\ Calls(p) \subseteq 1 .. 2 * units' /\ Calls(p) \cap Calls(inflight') = {}
          /\ initial' = (<<System>> \o p) \o <<User>>
        BY <1>1, <1>5, <1>7, <1>11, <1>12
    <2>. QED BY <1>5, <2>1 DEF StartedFrom, Known
<1>15. TurnPart'
    <2>1. /\ inflight' \in Seq(Entries) /\ Tidy(inflight') /\ Full(inflight')
          /\ Calls(inflight') \subseteq 1 .. 2 * units'
          /\ Calls(inflight') \cap Calls(messages') = {}
        BY <1>1, <1>9, <1>10, <1>11, <1>12
    <2>. QED BY <1>13, <1>14, <2>1 DEF TurnPart, Known
<1>16. CompactedPart'
    <2>1. SUFFICES ASSUME Len(Governed(initial')) <= Len(initial')
                   PROVE  compacted' \subseteq {inflight'[k].of : k \in 1 .. Len(inflight')}
        BY DEF CompactedPart
    <2>2. Len(Governed(initial)) <= Len(initial)
        BY <1>1, <2>1
    <2>3. compacted' \subseteq {inflight[k].of : k \in 1 .. Len(inflight)}
        BY <2>2, SendIs
    <2>4. \A k \in 1 .. Len(inflight) :
              inflight[k].of \in {t[i].of : i \in 1 .. Len(t)}
        <3>1. TAKE k \in 1 .. Len(inflight)
        <3>2. Len(r) \in Nat
            BY LenIs
        <3>3. k \in 1 .. Len(t) /\ t[k] = inflight[k]
            BY <1>3, <1>9, <3>2
        <3>. QED BY <3>3
    <2>5. compacted' \subseteq {t[i].of : i \in 1 .. Len(t)}
        BY <2>3, <2>4
    <2>. QED BY <1>11, <2>5
<1>. QED BY <1>8, <1>15, <1>16 DEF ContextInv

LEMMA RoundStep ==
    ASSUME ContextInv, NEW round \in Rounds, Round(round.outcomes, round.joined)
    PROVE  ContextInv'
<1>1. Running /\ Unit /\ Send /\ UNCHANGED <<messages, cursor, initial>>
    BY DEF Round
<1>2. PICK r \in Seq(Entries) :
          /\ inflight' = inflight \o r
          /\ Tidy(r) /\ Full(r)
          /\ Calls(r) \subseteq {2 * units + 1, 2 * units + 2}
    BY AddedIs
<1>. QED BY <1>1, <1>2, GrownStep

LEMMA ContinueStep ==
    ASSUME ContextInv, NEW answer \in {<<>>, <<Reply>>, <<Placeholder>>}, Continue(answer)
    PROVE  ContextInv'
<1>. DEFINE r == answer \o <<User>>
<1>1. /\ Running /\ Unit /\ Send /\ UNCHANGED <<messages, cursor, initial>>
      /\ inflight' = (inflight \o answer) \o <<User>>
    BY DEF Continue
<1>2. inflight \in Seq(Entries)
    BY DEF ContextInv, TurnPart
<1>3. <<User>> \in Seq(Entries) /\ answer \in Seq(Entries)
    BY JoinedIs, EmptyTidy
<1>4. inflight' = inflight \o r
    BY <1>1, <1>2, <1>3, ConcatAssociative
<1>5. r \in Seq(Entries) /\ Tidy(r) /\ Full(r) /\ Calls(r) = {}
    <2>1. answer = <<>> => r = <<User>>
        OBVIOUS
    <2>. QED BY <2>1, JoinedIs
<1>. HIDE DEF r
<1>. QED BY <1>1, <1>4, <1>5, GrownStep

LEMMA BuildStep ==
    ASSUME ContextInv, NEW subagent \in BOOLEAN, Build(subagent)
    PROVE  ContextInv'
<1>. DEFINE m == IF subagent THEN Reply ELSE User
            s == Append(messages, m)
<1>1. /\ messages \in Seq(Entries) /\ Tidy(messages) /\ Sane(messages)
      /\ Calls(messages) \subseteq Known /\ Len(messages) \in Nat
      /\ cursor \in 0 .. Len(messages) /\ SessionPart
    BY LenIs DEF ContextInv, SessionPart, Tidy
<1>2. ~Running /\ Unit /\ compacted' = {} /\ inflight' = inflight
    BY DEF Build
<1>3. PICK c \in Consolidated(messages, cursor) :
          /\ initial' = <<System>> \o History(messages, c, Window, subagent, Replay) \o <<User>>
          /\ Save(s, c)
    BY DEF Build
<1>4. c \in 0 .. Len(messages)
    BY <1>1, ConsolidatedIs
<1>5. m \in Entries /\ m.role \notin {"call", "tool"}
    BY MadeIs
<1>. HIDE DEF m
<1>6. /\ s \in Seq(Entries) /\ Tidy(s) /\ Calls(s) = Calls(messages)
      /\ Len(s) = Len(messages) + 1
    BY <1>1, <1>5, AppendedIs
<1>. HIDE DEF s
<1>7. c \in 0 .. Len(s)
    BY <1>1, <1>4, <1>6
<1>8. Known \subseteq 1 .. 2 * units' /\ units' \in 0 .. MaxUnits
    BY <1>1, <1>2, UnitIs
<1>9. SessionPart'
    <2>1. Calls(s) \subseteq 1 .. 2 * units'
        BY <1>1, <1>6, <1>8
    <2>. QED BY <1>3, <1>6, <1>7, <1>8, <2>1, SavedIs
<1>. DEFINE r == Replayable(messages, c, Window, subagent)
            h == History(messages, c, Window, subagent, Replay)
<1>10. h \in Seq(Entries) /\ Tidy(h) /\ Calls(h) \subseteq Calls(messages)
    <2>1. Window \in Nat \ {0} /\ Replay \in Nat /\ Replay # 0
        BY ConstantsAssumption
    <2>2. h = TokenTail(r, Replay)
        BY <2>1 DEF History
    <2>3. r \in Seq(Entries) /\ Tidy(r) /\ Calls(r) \subseteq Calls(messages)
        BY <1>1, <1>4, <2>1, ReplayableIs
    <2>. HIDE DEF r, h
    <2>4. /\ TokenTail(r, Replay) \in Seq(Entries) /\ Tidy(TokenTail(r, Replay))
          /\ Calls(TokenTail(r, Replay)) \subseteq Calls(r)
        BY <2>1, <2>3, TokenTailTidy
    <2>. QED BY <2>2, <2>3, <2>4
<1>11. initial' = (<<System>> \o h) \o <<User>>
    BY <1>3
<1>. HIDE DEF h
<1>12. PICK p : p = h
    OBVIOUS
<1>13. /\ p \in Seq(Entries) /\ Tidy(p) /\ Calls(p) \subseteq 1 .. 2 * units'
       /\ initial' = (<<System>> \o p) \o <<User>>
    BY <1>1, <1>8, <1>10, <1>11, <1>12
<1>14. inflight' = <<>>
    BY <1>2 DEF ContextInv, TurnPart
<1>15. Tidy(<<>>) /\ Full(<<>>) /\ Calls(<<>>) = {} /\ <<>> \in Seq(Entries) /\ Len(<<>>) = 0
    BY EmptyTidy
<1>16. (\E q : StartedFrom(q))'
    <2>1. Calls(p) \cap Calls(inflight') = {}
        BY <1>14, <1>15
    <2>. QED BY <1>13, <2>1 DEF StartedFrom, Known
<1>17. TurnPart'
    BY <1>14, <1>15, <1>16 DEF TurnPart
<1>18. CompactedPart'
    BY <1>2 DEF CompactedPart
<1>. QED BY <1>9, <1>17, <1>18 DEF ContextInv

LEMMA StepKeeps ==
    ASSUME ContextInv, [ContextNext]_contextVars
    PROVE  ContextInv'
<1>1. ASSUME NEW sub \in BOOLEAN, Build(sub)
      PROVE  ContextInv'
    BY <1>1, BuildStep
<1>2. ASSUME NEW round \in Rounds, Round(round.outcomes, round.joined)
      PROVE  ContextInv'
    BY <1>2, RoundStep
<1>3. ASSUME NEW answer \in {<<>>, <<Reply>>, <<Placeholder>>}, Continue(answer)
      PROVE  ContextInv'
    BY <1>3, ContinueStep
<1>4. ASSUME NEW answer \in {Reply, Placeholder}, Finish(answer)
      PROVE  ContextInv'
    BY <1>4, FinishStep
<1>5. CASE Deliver
    BY <1>5, DeliverStep
<1>6. CASE Slash
    BY <1>6, SlashStep
<1>7. CASE CompactIdle
    BY <1>7, CompactIdleStep
<1>8. CASE UNCHANGED contextVars
    BY <1>8, StutterStep
<1>. QED BY <1>1, <1>2, <1>3, <1>4, <1>5, <1>6, <1>7, <1>8 DEF ContextNext
-----------------------------------------------------------------------------
(* The theorems about what a model is sent *)

\* The session and the running turn, with what is joined to it, stay
\* conversations with calls of their own names, the cursor stays in the session
\* and the session within the cap, and only results of the running turn are
\* replaced unless a repair has made its history longer.
THEOREM ContextStays == ContextSpec => []ContextInv
<1>1. ContextInit => ContextInv
    BY BeginsTo
<1>2. ContextInv /\ [ContextNext]_contextVars => ContextInv'
    BY StepKeeps
<1>. QED BY <1>1, <1>2, PTL DEF ContextSpec

\* prepare_for_model: every request has a legal order of calls and results, the
\* turn from its latest user message on, all of it when it fits by itself, and
\* keeps to the budget as far as what follows that message allows: wherever the
\* cap, the windows and the snip cut, and whatever was joined to the turn.
THEOREM RequestIsSound == ContextSpec => []RequestSound
<1>1. ContextInv => RequestSound
    BY SoundNow
<1>. QED BY <1>1, ContextStays, PTL

\* compact_inflight_overflow replaces results of the running turn only, and no
\* request exceeds the budget with a replaceable one of them left large, as far
\* as no repair moves the index at which the turn starts.
THEOREM InflightStays == ContextSpec => []InflightOnly
<1>1. ContextInv => InflightOnly
    BY InflightNow
<1>. QED BY <1>1, ContextStays, PTL

\* maybe_consolidate_by_tokens and get_history agree: with a user message in the
\* replay window, neither the window nor the token limit hides a message behind
\* the cursor, from the first user message on, unless consolidation has removed
\* messages that are never replayed.
THEOREM HiddenIsArchived == ContextSpec => []HiddenArchivedWithUser
<1>1. ContextInv => HiddenArchivedWithUser
    BY HiddenNow
<1>. QED BY <1>1, ContextStays, PTL
-----------------------------------------------------------------------------
(* The retry and failover loops: what an attempt may be in *)

Width == Fallbacks + 1
Kept == {"old", "now"}

Requested ==
    [at : {"new", "call", "wait", "done"}, model : 0 .. Fallbacks,
     attempt : 0 .. Retries + 1, streamed : BOOLEAN, hushed : BOOLEAN,
     shown : BOOLEAN, muted : BOOLEAN, key : Kinds \cup {None},
     same : 0 .. Identical, images : {"kept", "bare", "gone"},
     segment : SUBSET Kept, calls : Nat,
     result : Kinds \cup {"ok", "cancelled", None}]

Some(q) == "old" \in q.segment \/ "now" \in q.segment

\* The calls a request may have made before its current attempt.
Before(q) == (IF q.images = "bare" THEN Retries + 1 ELSE q.attempt - 1) * Width

\* A request that is not over: nothing it showed is unknown to the loop, and a
\* stream with segments is never hushed, muted or continued.
Open(r, q) ==
    /\ q \in Requested
    /\ q.result = None
    /\ q.images # "gone"
    /\ q.images = "kept" => q.same < Identical
    /\ Some(q) => q.shown
    /\ ~("old" \in q.segment /\ "now" \in q.segment)
    /\ Segments(r) => ~q.hushed /\ ~q.muted /\ "old" \notin q.segment

\* While a model is called: text of earlier calls means that nobody listens.
InCall(r, q) ==
    /\ Open(r, q)
    /\ q.attempt # 0
    /\ "now" \in q.segment => q.streamed
    /\ "old" \in q.segment => q.hushed \/ q.muted
    /\ ~plan[r].persistent => q.calls <= Before(q) + q.model + 1

\* Between two attempts.
BetweenAttempts(r, q) ==
    /\ Open(r, q)
    /\ q.images = "kept"
    /\ Some(q) => q.muted /\ ~Segments(r)
    /\ ~plan[r].persistent =>
          q.attempt <= Retries /\ q.calls <= q.attempt * Width

\* When an attempt is over and its response is to be handled.
Responding(r, q) ==
    /\ Open(r, q)
    /\ q.attempt # 0
    /\ ~plan[r].persistent => q.calls <= Before(q) + Width

Over(r, q) ==
    /\ q \in Requested
    /\ q.result # None
    /\ q.images # "bare" /\ (q.images = "gone" => q.result = "ok")
    /\ ~("old" \in q.segment /\ "now" \in q.segment)
    /\ Segments(r) /\ q.result = "ok" => "old" \notin q.segment
    /\ q.calls = 0

Sound(r, q) ==
    /\ q.at = "call" => InCall(r, q)
    /\ q.at \in {"new", "wait"} => BetweenAttempts(r, q)
    /\ q.at = "done" => Over(r, q)
    /\ q \in Requested

BreakerInv ==
    /\ plan \in Plans /\ broken \subseteq 1 .. Fallbacks
    /\ failures \in 0 .. Threshold
    /\ breaker \in {None, "open", "half"}
    /\ breaker # None => failures = Threshold

IInv ==
    /\ BreakerInv
    /\ req \in [Requests -> Requested]
    /\ \A r \in Requests : Sound(r, req[r])
-----------------------------------------------------------------------------
(* The chain of models *)

\* A set of natural numbers has a least element.
LEMMA LeastElement ==
    ASSUME NEW S \in SUBSET Nat, S # {}
    PROVE  First(S) \in S
  <1>. DEFINE Less == {ss \in Nat \X Nat : ss[1] < ss[2]}
  <1>1. IsWellFoundedOn(Less, Nat)
    BY NatLessThanWellFounded, Zenon DEF OpToRel
  <1>2. PICK x \in S : \A y \in S : ~ (<<y, x>> \in Less)
    <2>. HIDE DEF Less
    <2>. QED BY <1>1, WFMin, Zenon
  <1>3. \A y \in S : x <= y
    <2>. SUFFICES ASSUME NEW y \in S, y < x PROVE FALSE
      OBVIOUS
    <2>1. <<y, x>> \in Less
      OBVIOUS
    <2>. QED BY <2>1, <1>2
  <1>. QED BY <1>3 DEF First

\* The first model of an attempt is a model, and not the primary while the
\* breaker is open.
LEMMA ChainFirst ==
    ASSUME Chain # {}, RequestAssumption
    PROVE  /\ First(Chain) \in 0 .. Fallbacks
           /\ breaker' = "open" => First(Chain) # 0
  <1>1. Chain \in SUBSET Nat /\ Chain \subseteq 0 .. Fallbacks
    BY DEF Chain, Working, RequestAssumption
  <1>2. breaker' = "open" => 0 \notin Chain
    BY DEF Chain, Working, RequestAssumption
  <1>. QED BY <1>1, <1>2, LeastElement

\* The next model comes after those that were called.
LEMMA NextModel ==
    ASSUME NEW n \in Nat, Working(n) # {}, RequestAssumption
    PROVE  First(Working(n)) \in n .. Fallbacks
  <1>1. Working(n) \in SUBSET Nat /\ Working(n) \subseteq n .. Fallbacks
    BY DEF Working, RequestAssumption
  <1>. QED BY <1>1, LeastElement

\* While the breaker is open the call that begins is not one of the primary.
Spared(q) == breaker' = "open" /\ q.at = "call" => q.model # 0
-----------------------------------------------------------------------------
(* One call *)

\* What the products of the number of calls have in common.
LEMMA Products ==
    ASSUME RequestAssumption, NEW a \in 0 .. Retries + 1
    PROVE  /\ Width \in Nat /\ a * Width \in Nat
           /\ a # 0 => (a - 1) * Width \in Nat /\ (a - 1) * Width + Width = a * Width
           /\ a * Width <= (Retries + 1) * Width
           /\ (Retries + 1) * Width \in Nat
           /\ (Retries + 1) * Width + Width = Limit
  <1>1. Width \in Nat /\ Retries \in Nat
    BY DEF Width, RequestAssumption
  <1>. HIDE DEF Width
  <1>2. a * Width \in Nat /\ (Retries + 1) * Width \in Nat
    BY <1>1
  <1>3. a # 0 => (a - 1) * Width \in Nat /\ (a - 1) * Width + Width = a * Width
    BY <1>1
  <1>4. a * Width <= (Retries + 1) * Width
    <2>1. PICK d \in Nat : Retries + 1 = a + d
      <3>. WITNESS Retries + 1 - a \in Nat
      <3>. QED BY <1>1
    <2>2. (a + d) * Width = a * Width + d * Width /\ d * Width \in Nat
      BY <1>1
    <2>. QED BY <1>2, <2>1, <2>2
  <1>5. (Retries + 1) * Width + Width = (Retries + 2) * Width
    BY <1>1
  <1>. QED BY <1>1, <1>2, <1>3, <1>4, <1>5 DEF Width, Limit

\* A segment that goes to the next call.
LEMMA OldSegment ==
    ASSUME NEW seg \in SUBSET Kept
    PROVE  LET old == IF seg = {} THEN {} ELSE {"old"}
           IN /\ old \in SUBSET Kept
              /\ "now" \notin old
              /\ "old" \in old <=> "old" \in seg \/ "now" \in seg
  <1>1. seg # {} => "old" \in seg \/ "now" \in seg
    BY DEF Kept
  <1>. QED BY <1>1 DEF Kept

\* A request whose attempt may go on with a call of model m.
Callable(r, q, m) ==
    /\ m \in 0 .. Fallbacks
    /\ Open(r, q) /\ q.attempt # 0
    /\ Some(q) => (q.hushed \/ q.muted) /\ ~Segments(r)
    /\ ~plan[r].persistent => q.calls <= Before(q) + m

\* A call of another model within an attempt.
LEMMA CalledInCall ==
    ASSUME RequestAssumption, NEW r, NEW q, NEW m, Callable(r, q, m)
    PROVE  InCall(r, Called(q, m)) /\ Called(q, m).at = "call"
           /\ Called(q, m).model = m
  <1>. USE DEF Callable
  <1>. DEFINE old == IF q.segment = {} THEN {} ELSE {"old"}
              n == IF q.calls > Limit THEN q.calls ELSE q.calls + 1
              c == [q EXCEPT !.at = "call", !.model = m, !.calls = n, !.segment = old]
  <1>1. Called(q, m) = c
    BY DEF Called, Open, Requested
  <1>2. old \in SUBSET Kept /\ "now" \notin old /\ ("old" \in old <=> Some(q))
    BY OldSegment DEF Some, Open, Requested
  <1>3. n \in Nat /\ n <= q.calls + 1
    BY DEF Open, Requested
  <1>. HIDE DEF old, n
  <1>4. /\ c \in Requested /\ c.at = "call" /\ c.model = m /\ c.calls = n /\ c.segment = old
        /\ c.attempt = q.attempt /\ c.images = q.images /\ c.result = q.result
        /\ c.same = q.same /\ c.shown = q.shown /\ c.hushed = q.hushed
        /\ c.muted = q.muted /\ c.streamed = q.streamed
    BY <1>2, <1>3 DEF Open, Requested
  <1>. HIDE DEF c
  <1>5. Open(r, c)
    BY <1>2, <1>4 DEF Open, Some
  <1>6. ~plan[r].persistent => n <= Before(q) + m + 1
    <2>1. Before(q) \in Nat
      BY Products DEF Before, Open, Requested
    <2>. QED BY <1>3, <2>1 DEF Open, Requested
  <1>7. Before(c) = Before(q)
    BY <1>4 DEF Before
  <1>. QED BY <1>1, <1>2, <1>4, <1>5, <1>6, <1>7 DEF InCall

\* The first call of an attempt.
LEMMA BegunInCall ==
    ASSUME RequestAssumption, NEW r, NEW q, Chain # {},
           Open(r, q), q.attempt # 0,
           Some(q) => q.muted /\ ~Segments(r),
           ~plan[r].persistent => q.calls <= Before(q)
    PROVE  InCall(r, Begun(q)) /\ Begun(q).at = "call" /\ Spared(Begun(q))
  <1>. DEFINE m == First(Chain)
  <1>1. m \in 0 .. Fallbacks /\ (breaker' = "open" => m # 0)
    BY ChainFirst
  <1>. HIDE DEF m
  <1>2. ~plan[r].persistent => q.calls <= Before(q) + m
    <2>1. Before(q) \in Nat
      BY Products DEF Before, Open, Requested
    <2>. QED BY <1>1, <2>1 DEF Open, Requested
  <1>3. Callable(r, q, m)
    BY <1>1, <1>2 DEF Callable
  <1>. DEFINE c == Called(q, m)
  <1>4. InCall(r, c) /\ c.at = "call" /\ c.model = m
    BY <1>3, CalledInCall
  <1>5. "now" \notin c.segment /\ ("old" \in c.segment => q.muted) /\ c.muted = q.muted
    BY OldSegment DEF Called, Open, Requested, Some
  <1>. HIDE DEF c
  <1>. DEFINE b == [c EXCEPT !.streamed = FALSE, !.hushed = FALSE]
  <1>6. /\ b \in Requested /\ b.at = "call" /\ b.model = m /\ b.calls = c.calls
        /\ b.segment = c.segment
        /\ b.attempt = c.attempt /\ b.images = c.images /\ b.result = c.result
        /\ b.same = c.same /\ b.shown = c.shown /\ b.hushed = FALSE
        /\ b.muted = c.muted /\ b.streamed = FALSE
    BY <1>4 DEF InCall, Open, Requested
  <1>. HIDE DEF b
  <1>7. Before(b) = Before(c)
    BY <1>6 DEF Before
  <1>8. InCall(r, b)
    BY <1>4, <1>5, <1>6, <1>7 DEF InCall, Open, Some
  <1>. QED BY <1>1, <1>6, <1>8 DEF Begun, Spared, b, c, m
-----------------------------------------------------------------------------
(* The response of an attempt *)

\* The end of a request whose pictures are still there leaves them.
LEMMA EndedKept ==
    ASSUME NEW q, NEW result, q.images = "kept"
    PROVE  Ended(q, result) = [Ended(q, result) EXCEPT !.images = "kept"]
  BY DEF Ended, Fresh

\* What is left of a request that ends.
LEMMA EndedOver ==
    ASSUME RequestAssumption, NEW q \in Requested, NEW i \in {"kept", "gone"},
           NEW result \in Kinds \cup {"ok", "cancelled"}, NEW r,
           i = "gone" => result = "ok",
           ~("old" \in q.segment /\ "now" \in q.segment),
           Segments(r) /\ result = "ok" => "old" \notin q.segment
    PROVE  LET e == [Ended(q, result) EXCEPT !.images = i]
           IN Over(r, e) /\ Sound(r, e) /\ e.at = "done"
  <1>. DEFINE d == Ended(q, result)
              e == [d EXCEPT !.images = i]
  <1>0. Fresh \in Requested /\ Fresh.calls = 0
    BY DEF Fresh, Requested, RequestAssumption
  <1>1. d \in Requested /\ d.at = "done" /\ d.result = result
        /\ d.segment = q.segment /\ d.calls = 0
    <2>1. d = [Fresh EXCEPT !.at = "done", !.result = result,
                            !.segment = q.segment, !.images = q.images]
      BY DEF Ended
    <2>2. q.segment \in SUBSET Kept /\ q.images \in {"kept", "bare", "gone"}
      BY DEF Requested
    <2>. HIDE DEF d
    <2>. QED BY <1>0, <2>1, <2>2 DEF Requested
  <1>. HIDE DEF d
  <1>2. e \in Requested /\ e.at = "done" /\ e.result = result /\ e.images = i
        /\ e.segment = q.segment /\ e.calls = 0
    BY <1>1 DEF Requested
  <1>. HIDE DEF e
  <1>3. result # None
    BY DEF RequestAssumption
  <1>4. Over(r, e)
    BY <1>2, <1>3 DEF Over
  <1>. QED BY <1>2, <1>4 DEF Sound, e, d

\* What the loop makes of a stream that stalled, and of the error's count.
LEMMA ContinuedCounted ==
    ASSUME RequestAssumption, NEW r, NEW q, NEW kind \in Kinds,
           NEW again \in BOOLEAN, Responding(r, q), q.images = "kept"
    PROVE  LET p == Counted(r, Continued(r, q), kind, again)
           IN /\ p \in Requested /\ p.result = None /\ p.images = "kept"
              /\ p.attempt = q.attempt /\ p.calls = q.calls
              /\ p.same \in 0 .. Identical /\ (~plan[r].persistent => p.same < Identical)
              /\ Some(p) => p.shown /\ p.muted /\ ~Segments(r)
              /\ ~("old" \in p.segment /\ "now" \in p.segment)
              /\ Segments(r) => ~p.hushed /\ ~p.muted /\ "old" \notin p.segment
  <1>. DEFINE c == Continued(r, q)
              p == Counted(r, c, kind, again)
  <1>1. /\ c \in Requested /\ c.result = None /\ c.images = "kept"
        /\ c.attempt = q.attempt /\ c.calls = q.calls /\ c.same = q.same
        /\ Some(c) => c.shown /\ c.muted /\ ~Segments(r)
        /\ ~("old" \in c.segment /\ "now" \in c.segment)
        /\ Segments(r) => ~c.hushed /\ ~c.muted /\ "old" \notin c.segment
    <2>1. CASE ~q.shown \/ q.muted
      <3>1. c = q
        BY <2>1 DEF Continued
      <3>. HIDE DEF c
      <3>. QED BY <2>1, <3>1 DEF Responding, Open, Some
    <2>2. CASE q.shown /\ ~q.muted /\ Segments(r)
      <3>1. c = [q EXCEPT !.streamed = FALSE, !.shown = FALSE, !.segment = {}]
        BY <2>2 DEF Continued, Recovered
      <3>. HIDE DEF c
      <3>2. /\ c \in Requested /\ c.result = None /\ c.images = "kept"
            /\ c.attempt = q.attempt /\ c.calls = q.calls /\ c.same = q.same
            /\ c.segment = {} /\ c.hushed = q.hushed /\ c.muted = q.muted
        BY <3>1 DEF Responding, Open, Requested
      <3>. QED BY <2>2, <3>2 DEF Responding, Open, Some
    <2>3. CASE q.shown /\ ~q.muted /\ ~Segments(r)
      <3>1. c = [q EXCEPT !.muted = TRUE]
        BY <2>3 DEF Continued
      <3>. HIDE DEF c
      <3>2. /\ c \in Requested /\ c.result = None /\ c.images = "kept"
            /\ c.attempt = q.attempt /\ c.calls = q.calls /\ c.same = q.same
            /\ c.segment = q.segment /\ c.muted = TRUE /\ c.shown = q.shown
        BY <3>1 DEF Responding, Open, Requested
      <3>. QED BY <2>3, <3>2 DEF Responding, Open, Some
    <2>. QED BY <2>1, <2>2, <2>3
  <1>2. q.same < Identical /\ q.same \in Nat
    BY DEF Responding, Open, Requested
  <1>. HIDE DEF c
  <1>3. ASSUME ~plan[r].persistent PROVE p = c
    BY <1>3 DEF Counted
  <1>4. ASSUME plan[r].persistent
        PROVE  /\ p \in Requested /\ p.result = None /\ p.images = "kept"
               /\ p.attempt = c.attempt /\ p.calls = c.calls
               /\ p.same \in 0 .. Identical /\ p.segment = c.segment
               /\ p.muted = c.muted /\ p.shown = c.shown /\ p.hushed = c.hushed
    <2>. DEFINE n == IF again THEN c.same + 1 ELSE 1
    <2>1. p = [c EXCEPT !.key = kind, !.same = n]
      BY <1>4 DEF Counted, Requested
    <2>2. n \in 0 .. Identical
      BY <1>1, <1>2 DEF RequestAssumption
    <2>. HIDE DEF p, n
    <2>. QED BY <1>1, <2>1, <2>2 DEF Requested
  <1>. HIDE DEF p
  <1>5. /\ p \in Requested /\ p.result = None /\ p.images = "kept"
        /\ p.attempt = q.attempt /\ p.calls = q.calls
        /\ p.same \in 0 .. Identical /\ (~plan[r].persistent => p.same < Identical)
        /\ Some(p) => p.shown /\ p.muted /\ ~Segments(r)
        /\ ~("old" \in p.segment /\ "now" \in p.segment)
        /\ Segments(r) => ~p.hushed /\ ~p.muted /\ "old" \notin p.segment
    <2>1. c.same \in Nat /\ c.same < Identical /\ Identical \in Nat
      BY <1>1, <1>2 DEF RequestAssumption
    <2>2. CASE ~plan[r].persistent
      BY <1>1, <1>3, <2>1, <2>2
    <2>3. CASE plan[r].persistent
      BY <1>1, <1>4, <2>3 DEF Some
    <2>. QED BY <2>2, <2>3
  <1>. QED BY <1>5 DEF p, c

\* The request goes on in one of four ways, each of them sound.
LEMMA HandledSound ==
    ASSUME RequestAssumption, NEW r, NEW q, NEW kind \in Kinds \cup {"ok"},
           NEW again \in BOOLEAN, Responding(r, q)
    PROVE  Sound(r, Handled(r, q, kind, again)) /\ Spared(Handled(r, q, kind, again))
  <1>. DEFINE h == Handled(r, q, kind, again)
  <1>0. q \in Requested /\ q.images \in {"kept", "bare"}
    BY DEF Responding, Open, Requested
  <1>1. CASE kind = "ok" \/ q.images = "bare"
    <2>. DEFINE i == Stripped(q, kind)
    <2>1. i \in {"kept", "gone"} /\ (i = "gone" => kind = "ok")
      BY <1>0 DEF Stripped
    <2>2. h = [Ended(q, kind) EXCEPT !.images = i]
      <3>1. h = Ended([q EXCEPT !.images = i], kind)
        BY <1>1 DEF Handled
      <3>2. [q EXCEPT !.images = i].segment = q.segment /\ [q EXCEPT !.images = i].images = i
        BY <1>0 DEF Requested
      <3>. QED BY <3>1, <3>2 DEF Ended, Fresh
    <2>. HIDE DEF i
    <2>. QED BY <1>0, <2>1, <2>2, EndedOver DEF Responding, Open, Spared
  <1>2. CASE ~(kind = "ok" \/ q.images = "bare") /\ Guarded(q, kind)
    <2>1. h = Ended(q, kind)
      BY <1>2 DEF Handled
    <2>2. h = [Ended(q, kind) EXCEPT !.images = "kept"]
      BY <1>0, <1>2, <2>1, EndedKept
    <2>. QED BY <1>0, <1>2, <2>2, EndedOver DEF Responding, Open, Spared
  <1>3. CASE ~(kind = "ok" \/ q.images = "bare") /\ ~Guarded(q, kind)
    <2>. DEFINE p == Counted(r, Continued(r, q), kind, again)
    <2>1. kind \in Kinds /\ q.images = "kept"
      BY <1>0, <1>3
    <2>2. /\ p \in Requested /\ p.result = None /\ p.images = "kept"
          /\ p.attempt = q.attempt /\ p.calls = q.calls
          /\ p.same \in 0 .. Identical /\ (~plan[r].persistent => p.same < Identical)
          /\ Some(p) => p.shown /\ p.muted /\ ~Segments(r)
          /\ ~("old" \in p.segment /\ "now" \in p.segment)
          /\ Segments(r) => ~p.hushed /\ ~p.muted /\ "old" \notin p.segment
      BY <2>1, ContinuedCounted
    <2>3. h = IF kind \notin Transient
              THEN IF plan[r].images THEN WithoutImages(p) ELSE Ended(p, kind)
              ELSE IF Exhausted(r, p) THEN Ended(p, kind) ELSE Waiting(p)
      BY <1>3 DEF Handled
    <2>. HIDE DEF p, h
    <2>4. \A k \in Kinds : Sound(r, Ended(p, k)) /\ Ended(p, k).at = "done"
      <3>. SUFFICES ASSUME NEW k \in Kinds
                    PROVE  Sound(r, Ended(p, k)) /\ Ended(p, k).at = "done"
        OBVIOUS
      <3>1. Ended(p, k) = [Ended(p, k) EXCEPT !.images = "kept"]
        BY <2>2, EndedKept
      <3>2. Segments(r) => "old" \notin p.segment
        BY <2>2
      <3>. QED BY <2>2, <3>1, <3>2, EndedOver
    <2>5. ~plan[r].persistent => p.calls <= p.attempt * Width
      <3>1. ~plan[r].persistent => p.calls <= (q.attempt - 1) * Width + Width
        BY <2>1, <2>2 DEF Responding, Before
      <3>. QED BY <1>0, <2>2, <3>1, Products DEF Responding, Requested
    <2>6. CASE kind \notin Transient /\ plan[r].images
      <3>1. CASE Chain = {}
        <4>1. h = Ended(p, "none")
          BY <2>3, <2>6, <3>1 DEF WithoutImages
        <4>. QED BY <2>4, <4>1 DEF Kinds, Spared, h
      <3>2. CASE Chain # {}
        <4>. DEFINE b == [p EXCEPT !.images = "bare"]
        <4>1. h = Begun(b)
          BY <2>3, <2>6, <3>2 DEF WithoutImages
        <4>2. /\ b \in Requested /\ b.images = "bare" /\ b.result = None
              /\ b.attempt = p.attempt /\ b.calls = p.calls /\ b.segment = p.segment
              /\ b.shown = p.shown /\ b.muted = p.muted /\ b.hushed = p.hushed
          BY <2>2 DEF Requested
        <4>. HIDE DEF b
        <4>3. Open(r, b) /\ b.attempt # 0 /\ (Some(b) => b.muted /\ ~Segments(r))
          BY <2>2, <4>2 DEF Open, Some, Responding
        <4>4. ~plan[r].persistent => b.calls <= Before(b)
          <5>1. Before(b) = (Retries + 1) * Width
            BY <4>2 DEF Before
          <5>2. p.attempt \in 0 .. Retries + 1 /\ p.calls \in Nat
            BY <2>2 DEF Requested
          <5>. QED BY <2>5, <4>2, <5>1, <5>2, Products
        <4>5. InCall(r, h) /\ h.at = "call" /\ Spared(h)
          BY <3>2, <4>1, <4>3, <4>4, BegunInCall
        <4>. QED BY <4>5 DEF Sound, InCall, Open, h
      <3>. QED BY <3>1, <3>2 DEF h
    <2>7. CASE kind \notin Transient /\ ~plan[r].images
      BY <2>1, <2>3, <2>4, <2>7 DEF Spared, h
    <2>8. CASE kind \in Transient /\ Exhausted(r, p)
      BY <2>1, <2>3, <2>4, <2>8 DEF Spared, h
    <2>9. CASE kind \in Transient /\ ~Exhausted(r, p)
      <3>1. h = [p EXCEPT !.at = "wait", !.model = 0, !.streamed = FALSE, !.hushed = FALSE]
        BY <2>3, <2>9 DEF Waiting
      <3>0. 0 \in 0 .. Fallbacks
        BY DEF RequestAssumption
      <3>2. /\ h \in Requested /\ h.images = "kept" /\ h.result = None /\ h.at = "wait"
            /\ h.attempt = p.attempt /\ h.calls = p.calls /\ h.segment = p.segment
            /\ h.shown = p.shown /\ h.muted = p.muted /\ h.hushed = FALSE
            /\ h.same = p.same
        BY <2>2, <3>0, <3>1 DEF Requested
      <3>3. h.same < Identical
        BY <2>2, <2>9, <3>2 DEF Exhausted, RequestAssumption
      <3>4. ~plan[r].persistent => h.attempt <= Retries
        BY <2>2, <2>9, <3>2 DEF Exhausted, Requested, RequestAssumption
      <3>5. BetweenAttempts(r, h)
        BY <2>2, <2>5, <3>2, <3>3, <3>4 DEF BetweenAttempts, Open, Some
      <3>. QED BY <3>2, <3>5 DEF Sound, Spared, h
    <2>. QED BY <2>6, <2>7, <2>8, <2>9
  <1>. QED BY <1>1, <1>2, <1>3
-----------------------------------------------------------------------------
(* The steps of the loops *)

\* The response is handled by a step of the request.
LEMMA RespondsSound ==
    ASSUME RequestAssumption, NEW r, NEW q, NEW kind \in Kinds \cup {"ok"},
           Responding(r, q), Responds(r, q, kind)
    PROVE  \E h : Set(r, h) /\ Sound(r, h) /\ Spared(h)
  <1>1. PICK again \in MaySame(r, q, kind) : Set(r, Handled(r, q, kind, again))
    BY DEF Responds
  <1>2. again \in BOOLEAN
    BY DEF MaySame
  <1>. QED BY <1>1, <1>2, HandledSound

\* A call that returned may be handed to the loop.
LEMMA InCallResponding ==
    ASSUME RequestAssumption, NEW r, NEW q, InCall(r, q)
    PROVE  Responding(r, q)
  <1>1. Before(q) \in Nat
    BY Products DEF Before, InCall, Open, Requested
  <1>. QED BY <1>1 DEF InCall, Open, Responding, Width, Requested, RequestAssumption

\* What a request is like when the wrapper turns to the next model.
LEMMA StalledReady ==
    ASSUME RequestAssumption, NEW r, NEW q, InCall(r, q)
    PROVE  LET s == Stalled(r, q)
           IN /\ Responding(r, s)
              /\ s.attempt # 0
              /\ Some(s) => (s.hushed \/ s.muted) /\ ~Segments(r)
              /\ ~plan[r].persistent => s.calls <= Before(s) + q.model + 1
  <1>. DEFINE s == Stalled(r, q)
  <1>1. /\ s \in Requested /\ s.attempt = q.attempt /\ s.calls = q.calls
        /\ s.images = q.images /\ s.same = q.same /\ s.result = q.result
        /\ s.model = q.model /\ s.muted = q.muted
        /\ s.segment = q.segment \/ s.segment = {}
        /\ Some(s) => s.shown
        /\ Some(s) => (s.hushed \/ s.muted) /\ ~Segments(r)
        /\ Segments(r) => ~s.hushed
    <2>1. CASE ~q.streamed
      <3>1. s = q
        BY <2>1 DEF Stalled
      <3>. HIDE DEF s
      <3>. QED BY <2>1, <3>1 DEF InCall, Open, Some
    <2>2. CASE q.streamed /\ Segments(r)
      <3>1. s = [q EXCEPT !.streamed = FALSE, !.shown = FALSE, !.segment = {}]
        BY <2>2 DEF Stalled, Recovered
      <3>. HIDE DEF s
      <3>. QED BY <2>2, <3>1 DEF InCall, Open, Some, Requested
    <2>3. CASE q.streamed /\ ~Segments(r)
      <3>1. s = [q EXCEPT !.streamed = FALSE, !.hushed = TRUE]
        BY <2>3 DEF Stalled
      <3>. HIDE DEF s
      <3>. QED BY <2>3, <3>1 DEF InCall, Open, Some, Requested
    <2>. QED BY <2>1, <2>2, <2>3
  <1>. HIDE DEF s
  <1>2. Before(s) = Before(q)
    BY <1>1 DEF Before
  <1>3. Responding(r, q)
    BY InCallResponding
  <1>4. Responding(r, s)
    BY <1>1, <1>2, <1>3 DEF Responding, Open, InCall, Some
  <1>. QED BY <1>1, <1>2, <1>4 DEF InCall, s

\* The next model is called, or the attempt is over.
LEMMA AdvanceSound ==
    ASSUME RequestAssumption, NEW r, NEW q, InCall(r, q),
           NEW kind \in Kinds \cup {"ok"},
           Advance(r, Stalled(r, q), q.model + 1, kind)
    PROVE  \E h : Set(r, h) /\ Sound(r, h) /\ Spared(h)
  <1>. DEFINE s == Stalled(r, q)
              m == First(Working(q.model + 1))
  <1>1. /\ Responding(r, s) /\ s.attempt # 0
        /\ Some(s) => (s.hushed \/ s.muted) /\ ~Segments(r)
        /\ ~plan[r].persistent => s.calls <= Before(s) + q.model + 1
    BY StalledReady
  <1>2. q.model \in 0 .. Fallbacks
    BY DEF InCall, Open, Requested
  <1>3. CASE Working(q.model + 1) # {}
    <2>1. m \in q.model + 1 .. Fallbacks /\ m # 0 /\ m \in 0 .. Fallbacks
      BY <1>2, <1>3, NextModel DEF RequestAssumption
    <2>2. Set(r, Called(s, m))
      BY <1>3 DEF Advance
    <2>. HIDE DEF s, m
    <2>3. Open(r, s)
      BY <1>1 DEF Responding
    <2>4. ~plan[r].persistent => s.calls <= Before(s) + m
      <3>1. Before(s) \in Nat /\ s.calls \in Nat
        BY <1>1, <2>3, Products DEF Before, Open, Requested
      <3>. QED BY <1>1, <1>2, <2>1, <3>1
    <2>5. InCall(r, Called(s, m)) /\ Called(s, m).at = "call" /\ Called(s, m).model = m
      <3>1. s.attempt # 0 /\ (Some(s) => (s.hushed \/ s.muted) /\ ~Segments(r))
        BY <1>1
      <3>2. m \in 0 .. Fallbacks
        BY <2>1
      <3>3. Callable(r, s, m)
        BY <2>3, <2>4, <3>1, <3>2 DEF Callable
      <3>. QED BY <3>3, CalledInCall
    <2>6. Sound(r, Called(s, m)) /\ Spared(Called(s, m))
      BY <2>1, <2>5 DEF Sound, InCall, Open, Spared
    <2>. QED BY <2>2, <2>6
  <1>4. CASE Working(q.model + 1) = {}
    <2>1. Responds(r, s, kind)
      BY <1>4 DEF Advance
    <2>. QED BY <1>1, <2>1, RespondsSound
  <1>. QED BY <1>3, <1>4

\* What BreakerHolds says of a step.
Respects ==
    \A r \in Requests :
        breaker' = "open" /\ req'[r].at = "call" /\ req'[r].model = 0 =>
            req[r].at = "call" /\ req[r].model = 0
            /\ req[r].images = req'[r].images

Sounds == req \in [Requests -> Requested] /\ \A r \in Requests : Sound(r, req[r])

\* A step of one request leaves the others as they are.
LEMMA SetSound ==
    ASSUME IInv, NEW r \in Requests, NEW h, Set(r, h), Sound(r, h), plan' = plan,
           \/ Spared(h)
           \/ h.at = req[r].at /\ h.model = req[r].model /\ h.images = req[r].images
    PROVE  Sounds' /\ Respects
  <1>1. req' = [req EXCEPT ![r] = h] /\ h \in Requested
    BY DEF Set, Sound
  <1>2. req' \in [Requests -> Requested] /\ req'[r] = h
        /\ \A x \in Requests \ {r} : req'[x] = req[x]
    BY <1>1 DEF IInv
  <1>3. \A x \in Requests : Sound(x, req'[x])
    BY <1>2 DEF IInv
  <1>4. \A x \in Requests : Sound(x, req[x])'
    BY <1>3, plan' = plan
    DEF Sound, InCall, BetweenAttempts, Over, Open, Segments, Before, Some
  <1>5. Respects
    <2>. SUFFICES ASSUME NEW x \in Requests, breaker' = "open",
                         req'[x].at = "call", req'[x].model = 0
                  PROVE  req[x].at = "call" /\ req[x].model = 0
                         /\ req[x].images = req'[x].images
      BY DEF Respects
    <2>1. CASE x = r
      BY <1>2, <2>1 DEF Spared
    <2>2. CASE x # r
      BY <1>2, <2>2
    <2>. QED BY <2>1, <2>2
  <1>. QED BY <1>2, <1>4, <1>5 DEF Sounds

\* What a step may leave of the breaker.
BreakerKept == UNCHANGED <<plan, broken, failures, breaker>>

LEMMA BreakerUnchanged ==
    ASSUME IInv, BreakerKept
    PROVE  BreakerInv'
  BY DEF IInv, BreakerInv, BreakerKept

\* An attempt begins.
LEMMA AttemptSound ==
    ASSUME RequestAssumption, IInv, NEW r \in Requests, Attempt(r)
    PROVE  IInv' /\ Respects
  <1>. DEFINE o == req[r]
              n == IF o.attempt > Retries THEN o.attempt ELSE o.attempt + 1
              q == [o EXCEPT !.attempt = n]
  <1>1. /\ o \in Requested /\ o.at \in {"new", "wait"} /\ BetweenAttempts(r, o)
        /\ BreakerKept
        /\ IF Chain # {} THEN Set(r, Begun(q)) ELSE Responds(r, q, "none")
    BY DEF Attempt, IInv, Sound, BreakerKept
  <1>2. n \in 0 .. Retries + 1 /\ n # 0
        /\ (~plan[r].persistent => n = o.attempt + 1)
    BY <1>1 DEF BetweenAttempts, Requested, RequestAssumption
  <1>. HIDE DEF o, n
  <1>3. /\ q \in Requested /\ q.attempt = n /\ q.result = o.result
        /\ q.images = o.images /\ q.same = o.same /\ q.segment = o.segment
        /\ q.shown = o.shown /\ q.hushed = o.hushed /\ q.muted = o.muted
        /\ q.calls = o.calls
    BY <1>1, <1>2 DEF Requested
  <1>. HIDE DEF q
  <1>4. /\ Open(r, q) /\ q.attempt # 0 /\ (Some(q) => q.muted /\ ~Segments(r))
        /\ q.images = "kept"
    BY <1>1, <1>2, <1>3 DEF BetweenAttempts, Open, Some
  <1>5. ~plan[r].persistent => q.calls <= Before(q)
    <2>1. Before(q) = (n - 1) * Width
      BY <1>3, <1>4 DEF Before
    <2>2. ~plan[r].persistent => o.attempt = n - 1
      BY <1>1, <1>2 DEF Requested
    <2>. QED BY <1>1, <1>3, <2>1, <2>2 DEF BetweenAttempts
  <1>6. CASE Chain # {}
    <2>1. InCall(r, Begun(q)) /\ Begun(q).at = "call" /\ Spared(Begun(q))
      BY <1>4, <1>5, <1>6, BegunInCall
    <2>2. Sound(r, Begun(q))
      BY <2>1 DEF Sound, InCall, Open
    <2>3. Sounds' /\ Respects
      BY <1>1, <1>6, <2>1, <2>2, SetSound DEF BreakerKept
    <2>. QED BY <1>1, <2>3, BreakerUnchanged DEF IInv, Sounds
  <1>7. CASE Chain = {}
    <2>1. Responding(r, q)
      <3>1. Before(q) \in Nat /\ Width \in Nat
        BY <1>4, Products DEF Before, Open, Requested
      <3>. QED BY <1>4, <1>5, <3>1 DEF Responding, Open, Requested
    <2>2. PICK h : Set(r, h) /\ Sound(r, h) /\ Spared(h)
      BY <1>1, <1>7, <2>1, RespondsSound DEF Kinds
    <2>3. Sounds' /\ Respects
      BY <1>1, <2>2, SetSound DEF BreakerKept
    <2>. QED BY <1>1, <2>3, BreakerUnchanged DEF IInv, Sounds
  <1>. QED BY <1>6, <1>7

\* Text arrives.
LEMMA DeltaSound ==
    ASSUME RequestAssumption, IInv, NEW r \in Requests, Delta(r)
    PROVE  IInv' /\ Respects
  <1>. DEFINE q == req[r]
              h == IF q.hushed THEN q
                   ELSE IF q.muted THEN [q EXCEPT !.streamed = TRUE]
                   ELSE [q EXCEPT !.streamed = TRUE, !.shown = TRUE,
                                  !.segment = @ \cup {"now"}]
  <1>1. Set(r, h) /\ q.at = "call" /\ InCall(r, q) /\ BreakerKept
    BY DEF Delta, IInv, Sound, BreakerKept
  <1>. HIDE DEF q
  <1>2. InCall(r, h) /\ h.at = "call" /\ h.model = q.model /\ h.images = q.images
    <2>1. CASE q.hushed
      BY <1>1, <2>1
    <2>2. CASE ~q.hushed /\ q.muted
      <3>1. h = [q EXCEPT !.streamed = TRUE]
        BY <2>2
      <3>. HIDE DEF h
      <3>2. /\ h \in Requested /\ h.at = q.at /\ h.model = q.model /\ h.images = q.images
            /\ h.attempt = q.attempt /\ h.calls = q.calls /\ h.segment = q.segment
            /\ h.shown = q.shown /\ h.muted = q.muted /\ h.hushed = q.hushed
            /\ h.same = q.same /\ h.result = q.result /\ h.streamed = TRUE
        BY <1>1, <3>1 DEF InCall, Open, Requested
      <3>. QED BY <1>1, <3>2 DEF InCall, Open, Some, Before
    <2>3. CASE ~q.hushed /\ ~q.muted
      <3>1. h = [q EXCEPT !.streamed = TRUE, !.shown = TRUE,
                          !.segment = q.segment \cup {"now"}]
        BY <1>1, <2>3 DEF InCall, Open, Requested
      <3>2. q.segment \cup {"now"} \in SUBSET Kept /\ "old" \notin q.segment
        BY <1>1, <2>3 DEF InCall, Open, Requested, Kept
      <3>. HIDE DEF h
      <3>3. /\ h \in Requested /\ h.at = q.at /\ h.model = q.model /\ h.images = q.images
            /\ h.attempt = q.attempt /\ h.calls = q.calls
            /\ h.segment = q.segment \cup {"now"}
            /\ h.shown = TRUE /\ h.muted = q.muted /\ h.hushed = q.hushed
            /\ h.same = q.same /\ h.result = q.result /\ h.streamed = TRUE
        BY <1>1, <3>1, <3>2 DEF InCall, Open, Requested
      <3>. QED BY <1>1, <2>3, <3>2, <3>3 DEF InCall, Open, Some, Before
    <2>. QED BY <2>1, <2>2, <2>3
  <1>. HIDE DEF h
  <1>3. Sound(r, h)
    BY <1>2 DEF Sound, InCall, Open
  <1>4. Sounds' /\ Respects
    BY <1>1, <1>2, <1>3, SetSound DEF BreakerKept, q
  <1>. QED BY <1>1, <1>4, BreakerUnchanged DEF IInv, Sounds

\* The primary answers or fails.
LEMMA PrimarySound ==
    ASSUME RequestAssumption, IInv, NEW r \in Requests,
           PrimaryAnswers(r) \/ \E kind \in Errors : PrimaryFails(r, kind)
    PROVE  IInv' /\ Respects
  <1>1. InCall(r, req[r]) /\ req[r].model = 0 /\ plan' = plan /\ broken' = broken
    BY DEF PrimaryAnswers, PrimaryFails, IInv, Sound
  <1>2. Responding(r, req[r])
    BY <1>1, InCallResponding
  <1>3. BreakerInv'
    <2>1. CASE Reset
      BY <1>1, <2>1 DEF Reset, IInv, BreakerInv, RequestAssumption
    <2>2. CASE UNCHANGED <<failures, breaker>>
      BY <1>1, <2>2 DEF IInv, BreakerInv
    <2>3. CASE CountFailure
      BY <1>1, <2>3 DEF CountFailure, IInv, BreakerInv, RequestAssumption
    <2>. QED BY <2>1, <2>2, <2>3 DEF PrimaryAnswers, PrimaryFails
  <1>4. \E h : Set(r, h) /\ Sound(r, h) /\ Spared(h)
    <2>1. CASE PrimaryAnswers(r)
      BY <1>2, <2>1, RespondsSound DEF PrimaryAnswers
    <2>2. ASSUME NEW kind \in Errors, PrimaryFails(r, kind)
          PROVE  \E h : Set(r, h) /\ Sound(r, h) /\ Spared(h)
      <3>1. kind \in Kinds /\ "none" \in Kinds
        BY DEF Kinds
      <3>2. CASE Responds(r, req[r], kind)
        BY <1>2, <3>1, <3>2, RespondsSound
      <3>3. CASE Advance(r, Stalled(r, req[r]), 1, "none")
        <4>1. Advance(r, Stalled(r, req[r]), req[r].model + 1, "none")
          BY <1>1, <3>3
        <4>. QED BY <1>1, <3>1, <4>1, AdvanceSound
      <3>. QED BY <2>2, <3>2, <3>3 DEF PrimaryFails
    <2>. QED BY <2>1, <2>2
  <1>5. Sounds' /\ Respects
    BY <1>1, <1>4, SetSound
  <1>. QED BY <1>3, <1>5 DEF IInv, Sounds

\* A fallback returns.
LEMMA FallbackSound ==
    ASSUME RequestAssumption, IInv, NEW r \in Requests,
           NEW kind \in Errors \cup {"ok"}, FallbackReturns(r, kind)
    PROVE  IInv' /\ Respects
  <1>1. InCall(r, req[r]) /\ BreakerKept
    BY DEF FallbackReturns, IInv, Sound, BreakerKept
  <1>2. kind \in Kinds \cup {"ok"}
    BY DEF Kinds
  <1>3. \E h : Set(r, h) /\ Sound(r, h) /\ Spared(h)
    <2>1. CASE Responds(r, req[r], kind)
      BY <1>1, <1>2, <2>1, InCallResponding, RespondsSound
    <2>2. CASE Advance(r, Stalled(r, req[r]), req[r].model + 1, kind)
      BY <1>1, <1>2, <2>2, AdvanceSound
    <2>. QED BY <2>1, <2>2 DEF FallbackReturns
  <1>4. Sounds' /\ Respects
    BY <1>1, <1>3, SetSound DEF BreakerKept
  <1>. QED BY <1>1, <1>4, BreakerUnchanged DEF IInv, Sounds

\* The request is cancelled.
LEMMA CancelSound ==
    ASSUME RequestAssumption, IInv, NEW r \in Requests, Cancel(r)
    PROVE  IInv' /\ Respects
  <1>. DEFINE q == req[r]
              i == IF q.images = "bare" THEN "kept" ELSE q.images
              h == [Ended(q, "cancelled") EXCEPT !.images = i]
  <1>1. q \in Requested /\ Open(r, q) /\ BreakerKept
    BY DEF Cancel, IInv, Sound, InCall, BetweenAttempts, BreakerKept
  <1>2. i \in {"kept", "gone"} /\ i # "gone"
    BY <1>1 DEF Open, Requested
  <1>3. Set(r, h)
    <2>1. Ended(q, "cancelled").images = q.images
      BY DEF Ended, Fresh
    <2>. QED BY <2>1 DEF Cancel
  <1>4. Sound(r, h) /\ h.at = "done"
    <2>. HIDE DEF q, i
    <2>. QED BY <1>1, <1>2, EndedOver DEF Open
  <1>. HIDE DEF h
  <1>5. Sounds' /\ Respects
    BY <1>1, <1>3, <1>4, SetSound DEF BreakerKept, Spared
  <1>. QED BY <1>1, <1>5, BreakerUnchanged DEF IInv, Sounds

\* A request that is to be made.
LEMMA FreshSound ==
    ASSUME RequestAssumption, NEW r
    PROVE  Sound(r, Fresh) /\ Fresh \in Requested /\ Fresh.at = "new"
  <1>1. Fresh \in Requested
    BY DEF Fresh, Requested, RequestAssumption
  <1>2. 0 * Width = 0
    BY DEF Width, RequestAssumption
  <1>3. BetweenAttempts(r, Fresh)
    BY <1>1, <1>2 DEF BetweenAttempts, Open, Some, Fresh, RequestAssumption
  <1>. QED BY <1>1, <1>3 DEF Sound, Fresh

\* The next request, and the end of the cooldown.
LEMMA AgainSound ==
    ASSUME RequestAssumption, IInv, NEW r \in Requests, Again(r)
    PROVE  IInv' /\ Respects
  <1>1. Set(r, Fresh) /\ BreakerKept
    BY DEF Again, BreakerKept
  <1>2. Sounds' /\ Respects
    BY <1>1, FreshSound, SetSound DEF BreakerKept, Spared
  <1>. QED BY <1>1, <1>2, BreakerUnchanged DEF IInv, Sounds

LEMMA CoolDownSound ==
    ASSUME RequestAssumption, IInv, CoolDown \/ UNCHANGED vars
    PROVE  IInv' /\ Respects
  <1>1. plan' = plan /\ broken' = broken /\ failures' = failures /\ req' = req
    BY DEF CoolDown, vars
  <1>2. BreakerInv'
    <2>1. CASE CoolDown
      <3>1. breaker # None
        BY <2>1, RequestAssumption DEF CoolDown
      <3>2. failures = Threshold
        BY <3>1 DEF IInv, BreakerInv
      <3>3. breaker' \in {None, "open", "half"}
        BY <2>1 DEF CoolDown
      <3>. QED BY <1>1, <3>2, <3>3 DEF IInv, BreakerInv
    <2>2. CASE UNCHANGED vars
      BY <2>2 DEF IInv, BreakerInv, vars
    <2>. QED BY <2>1, <2>2
  <1>3. \A x \in Requests : Sound(x, req[x])'
    BY <1>1 DEF IInv, Sound, InCall, BetweenAttempts, Over, Open, Segments, Before, Some
  <1>. QED BY <1>1, <1>2, <1>3 DEF IInv, Respects
-----------------------------------------------------------------------------
(* The theorems about the loops *)

LEMMA InitSound ==
    ASSUME RequestAssumption, Init
    PROVE  IInv
  <1>1. BreakerInv
    BY DEF Init, BreakerInv, RequestAssumption
  <1>. QED BY <1>1, FreshSound DEF Init, IInv

LEMMA NextSound ==
    ASSUME RequestAssumption, IInv, [Next]_vars
    PROVE  IInv' /\ Respects
  <1>1. CASE CoolDown \/ UNCHANGED vars
    BY <1>1, CoolDownSound
  <1>2. ASSUME NEW r \in Requests,
               Attempt(r) \/ Delta(r) \/ Returns(r) \/ Cancel(r) \/ Again(r)
        PROVE  IInv' /\ Respects
    BY <1>2, AttemptSound, DeltaSound, PrimarySound, FallbackSound, CancelSound,
       AgainSound DEF Returns
  <1>. QED BY <1>1, <1>2 DEF Next

\* The strengthening from which the theorems below follow.
THEOREM Invariant == Spec => []IInv
  BY InitSound, NextSound, RequestAssumption, PTL DEF Spec

\* No segment the user sees holds the text of two calls, and when new segments
\* can be started the last one shows the answer: the flags of the retry loop
\* and of the failover together keep track of what was shown.
THEOREM SegmentsAreWhole == Spec => []SegmentsWhole
  <1>1. IInv => SegmentsWhole
    <2>. SUFFICES ASSUME IInv PROVE SegmentPure /\ LastSegmentIsAnswer
      BY DEF SegmentsWhole
    <2>1. ASSUME NEW r \in Requests
          PROVE  /\ ~("old" \in req[r].segment /\ "now" \in req[r].segment)
                 /\ Segments(r) /\ req[r].result = "ok" => "old" \notin req[r].segment
      <3>1. Sound(r, req[r]) /\ req[r].at \in {"new", "call", "wait", "done"}
        BY <2>1 DEF IInv, Requested
      <3>. QED BY <3>1 DEF Sound, InCall, BetweenAttempts, Over, Open
    <2>2. SegmentPure
      BY <2>1 DEF SegmentPure
    <2>. QED BY <2>1, <2>2 DEF LastSegmentIsAnswer
  <1>. QED BY <1>1, Invariant, PTL

\* The calls of a request that is sound.
LEMMA CallsWithin ==
    ASSUME RequestAssumption, NEW r, NEW q, Sound(r, q), ~plan[r].persistent
    PROVE  q.calls <= Limit
  <1>1. /\ q.model \in 0 .. Fallbacks /\ q.calls \in Nat
        /\ q.attempt \in 0 .. Retries + 1 /\ q.at \in {"new", "call", "wait", "done"}
    BY DEF Sound, Requested
  <1>2. /\ Width \in Nat /\ (Retries + 1) * Width \in Nat
        /\ (Retries + 1) * Width + Width = Limit
        /\ q.attempt * Width <= (Retries + 1) * Width
        /\ q.attempt * Width \in Nat
        /\ q.attempt # 0 => (q.attempt - 1) * Width \in Nat
                           /\ (q.attempt - 1) * Width + Width = q.attempt * Width
    BY ONLY RequestAssumption, <1>1, Products, Zenon
  <1>3. CASE q.at = "call"
    <2>1. q.attempt # 0 /\ q.calls <= Before(q) + q.model + 1
      BY <1>3 DEF Sound, InCall
    <2>2. Before(q) \in Nat /\ Before(q) <= (Retries + 1) * Width
      BY <1>2, <2>1 DEF Before
    <2>3. q.model + 1 <= Width
      BY <1>1 DEF Width, RequestAssumption
    <2>. QED BY <1>1, <1>2, <2>1, <2>2, <2>3
  <1>4. CASE q.at \in {"new", "wait"}
    <2>1. q.calls <= q.attempt * Width
      BY <1>4 DEF Sound, BetweenAttempts
    <2>. QED BY <1>1, <1>2, <2>1
  <1>5. CASE q.at = "done"
    <2>1. q.calls = 0
      BY <1>5 DEF Sound, Over
    <2>. QED BY <1>1, <1>2, <2>1
  <1>. QED BY <1>1, <1>3, <1>4, <1>5

\* Each request calls a model within the product of the two loops, keeps its
\* images unless it succeeded, and only as many failures as it takes trip the
\* breaker.
THEOREM CallsAreSound == Spec => []CallsSound
  <1>1. IInv => CallsSound
    <2>. SUFFICES ASSUME IInv PROVE TypeOK /\ CallsBounded /\ ImagesKept
      BY DEF CallsSound
    <2>1. ASSUME NEW r \in Requests
          PROVE  req[r] \in Requested /\ Sound(r, req[r])
      BY <2>1 DEF IInv
    <2>2. ASSUME NEW r \in Requests
          PROVE  /\ req[r].result # None <=> req[r].at = "done"
                 /\ req[r].images = "gone" => req[r].result = "ok"
      <3>1. req[r].at \in {"new", "call", "wait", "done"}
        BY <2>1, <2>2 DEF Requested
      <3>. QED BY <2>1, <2>2, <3>1 DEF Sound, InCall, BetweenAttempts, Over, Open
    <2>3. TypeOK
      BY <2>1, <2>2 DEF TypeOK, IInv, BreakerInv, Requested
    <2>4. CallsBounded
      BY <2>1, CallsWithin, RequestAssumption DEF CallsBounded
    <2>. QED BY <2>2, <2>3, <2>4 DEF ImagesKept
  <1>. QED BY <1>1, Invariant, PTL

\* While the breaker is open no new request, retry or try without images turns
\* to the primary.
THEOREM BreakerRespected == Spec => BreakerHolds
  <1>1. IInv /\ [Next]_vars => [Respects]_vars
    BY NextSound, RequestAssumption
  <1>2. [][Respects]_vars => BreakerHolds
    BY PTL DEF Respects, BreakerHolds
  <1>. QED BY <1>1, <1>2, Invariant, PTL DEF Spec
=============================================================================
