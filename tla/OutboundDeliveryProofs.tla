------------------------ MODULE OutboundDeliveryProofs ------------------------
(***************************************************************************)
(* The safety of the way out for every number of chats, messages, attempts *)
(* and requests: the coalescing buffer loses, doubles and reorders         *)
(* nothing, every stream of which something was shown is closed, and at    *)
(* most one object of the channel is live.                                 *)
(***************************************************************************)
EXTENDS OutboundDelivery, FiniteSetTheorems, WellFoundedInduction, TLAPS

\* How many messages the dispatcher has taken.
Taken == Len(book) - (Len(pending) + Len(outbound))

States == {"built", "starting", "running", "failed", "stopped"}

TypeInv ==
    /\ turns \in [Chats -> TurnRecords \cup {None}]
    /\ source \in [Chats -> Nat]
    /\ book \in Seq(Messages) /\ outbound \in Seq(Messages) /\ pending \in Seq(Messages)
    /\ shown \in Seq(Messages)
    /\ sending \in SendRecords \cup {None}
    /\ dispatcher \in {"on", "stopping", "stopped"}
    /\ objects \in Seq(States)
    /\ channel \in 0 .. Len(objects) /\ task \in 0 .. Len(objects)
    /\ request \in [Requests -> RequestRecords \cup {None}]
    /\ \A r \in Requests : request[r] # None => request[r].new \in 0 .. Len(objects)

\* Each message carries its number, and what waits is the end of the book.
QueueInv ==
    /\ \A i \in 1 .. Len(book) : book[i].ids = <<i>>
    /\ Len(pending) <= 1 /\ Len(pending) + Len(outbound) <= Len(book)
    /\ \A j \in 1 .. Len(pending) : pending[j] = book[Taken + j]
    /\ \A j \in 1 .. Len(outbound) : outbound[j] = book[(Taken + Len(pending)) + j]

\* The first and the last number of a message.
From(m) == m.ids[1]
To(m) == m.ids[Len(m.ids)]

\* A message made of the messages of b up to t: consecutive ones, of one stream
\* if they are several, with what an end among them says.
Piece(m, b, t) ==
    /\ Len(m.ids) >= 1 /\ From(m) >= 1 /\ To(m) <= t
    /\ \A k \in 1 .. Len(m.ids) : m.ids[k] + 1 = From(m) + k
    /\ \A i \in From(m) .. To(m) :
          /\ b[i].chat = m.chat
          /\ m.kind \in {"delta", "end"} =>
                b[i].kind \in {"delta", "end"} /\ b[i].stream = m.stream
          /\ m.kind = "delta" => b[i].kind = "delta"
          /\ b[i].kind = "end" => m.kind = "end" /\ m.closes = b[i].closes

\* How far the messages have their fate.
SettledTo == IF sending = None THEN Taken ELSE From(sending.message) - 1

SendInv ==
    /\ sending # None =>
          /\ Piece(sending.message, book, Taken) /\ To(sending.message) = Taken
          /\ sending.attempt \in 1 .. MaxAttempts
    /\ DOMAIN fates = 1 .. SettledTo

\* What is remembered of replies was taken.
Key(m) == <<m.chat, IF m.origin # 0 THEN m.origin ELSE m.by>>
Source(key, text, b, t) == \E j \in 1 .. t :
    b[j].kind = "reply" /\ key = Key(b[j]) /\ text = b[j].text
FingerInv ==
    \A key \in DOMAIN fingerprints : Source(key, fingerprints[key], book, Taken)

\* m is n again, or comes before it.
Before(m, n) == m.ids = n.ids \/ To(m) < From(n)

\* Where s shows the message i, and how often it may.
Places(s, i) == {n \in 1 .. Len(s) : i \in From(s[n]) .. To(s[n])}
Allowed(i) ==
    IF sending # None /\ i >= From(sending.message) THEN sending.attempt - 1 ELSE MaxAttempts

ShownInv ==
    /\ \A n \in 1 .. Len(shown) : Piece(shown[n], book, Taken)
    /\ \A i, j \in 1 .. Len(shown) : i < j => Before(shown[i], shown[j])
    /\ sending # None => \A n \in 1 .. Len(shown) : Before(shown[n], sending.message)
    /\ \A i \in 1 .. Taken : Cardinality(Places(shown, i)) <= Allowed(i)

\* The stream of a delta is open, or was left open, or an end closes it; and an end
\* that has gone out was shown.
Closes(m, s) == m.kind = "end" /\ m.stream = s /\ m.closes
OpenIn(m, t, s) == /\ t[m.chat] # None /\ t[m.chat].open
                   /\ m.stream = <<m.chat, s[m.chat], t[m.chat].segment>>
DeltaInv == \A i \in 1 .. Len(book) : book[i].kind = "delta" =>
    \/ OpenIn(book[i], turns, source)
    \/ book[i].stream \in leftOpen
    \/ \E j \in 1 .. Len(book) : Closes(book[j], book[i].stream)
EndShown(i) ==
    \/ fates[i] \in {"given up", "unrouted", "stopped"}
    \/ \E n \in 1 .. Len(shown) :
          shown[n].kind = "end" /\ i \in Range(shown[n].ids) /\ shown[n].closes
EndInv == \A i \in DOMAIN fates : book[i].kind = "end" /\ book[i].closes => EndShown(i)

\* Without a race one request runs at a time, and its object has the name.
ChannelInv == ~raced =>
    /\ \A o \in 1 .. Len(objects) : Live(o) => o = channel /\ dispatcher # "stopped"
    /\ \A r \in Requests : request[r] # None =>
          channel # 0 /\ request[r].old = channel /\ request[r].new # channel
    /\ \A r, q \in Requests : request[r] # None /\ request[q] # None => r = q

\* What the dispatcher and the platform know.
DeliveryInv ==
    /\ QueueInv /\ SendInv /\ FingerInv /\ ShownInv /\ EndInv
    /\ OnlyRepeatsDropped

IInv == TypeInv /\ DeliveryInv /\ DeltaInv /\ ChannelInv
-----------------------------------------------------------------------------
(* Messages *)

\* Another list of numbers leaves the rest of a message as it is.
Alike(m, n) ==
    /\ m.kind = n.kind /\ m.chat = n.chat
    /\ m.kind \in {"delta", "end"} => m.stream = n.stream
    /\ m.kind = "end" => m.closes = n.closes

LEMMA WithIds ==
    ASSUME NEW m \in Messages, NEW s \in Seq(Nat)
    PROVE  LET n == [m EXCEPT !.ids = s]
           IN n \in Messages /\ n.ids = s /\ Alike(n, m)
  <1>. DEFINE n == [m EXCEPT !.ids = s]
  <1>1. CASE m \in [kind : {"delta"}, chat : Chats, stream : Streams, ids : Seq(Nat)]
    BY <1>1 DEF Messages, Alike
  <1>2. CASE m \in [kind : {"end"}, chat : Chats, stream : Streams, tail : BOOLEAN,
                    closes : BOOLEAN, ids : Seq(Nat)]
    BY <1>2 DEF Messages, Alike
  <1>3. CASE m \in [kind : {"notice"}, chat : Chats, visible : BOOLEAN, ids : Seq(Nat)]
    BY <1>3 DEF Messages, Alike
  <1>4. CASE m \in [kind : {"streamed"}, chat : Chats, ids : Seq(Nat)]
    BY <1>4 DEF Messages, Alike
  <1>5. CASE m \in [kind : {"reply"}, chat : Chats, text : Texts \cup {Apology},
                    by : Nat, origin : Nat, ids : Seq(Nat)]
    BY <1>5 DEF Messages, Alike
  <1>. QED BY <1>1, <1>2, <1>3, <1>4, <1>5 DEF Messages

\* The fields every message has.
LEMMA Fields ==
    ASSUME NEW m \in Messages
    PROVE  /\ m.ids \in Seq(Nat) /\ m.chat \in Chats
           /\ m.kind \in {"delta", "end", "notice", "streamed", "reply"}
           /\ m.kind = "end" => m.closes \in BOOLEAN
  BY DEF Messages

\* Of what a piece consists.
LEMMA PieceRange ==
    ASSUME NEW m \in Messages, NEW b, NEW t \in Nat, Piece(m, b, t)
    PROVE  /\ m.ids \in Seq(Nat) /\ m.ids # <<>>
           /\ From(m) \in Nat \ {0} /\ To(m) \in Nat /\ From(m) <= To(m) /\ To(m) <= t
           /\ Head(m.ids) = From(m) /\ Last(m.ids) = To(m)
           /\ Range(m.ids) = From(m) .. To(m)
  <1>1. m.ids \in Seq(Nat) /\ Len(m.ids) \in Nat /\ Len(m.ids) >= 1
    BY Fields DEF Piece
  <1>2. \A k \in 1 .. Len(m.ids) : m.ids[k] \in Nat /\ m.ids[k] + 1 = From(m) + k
    BY <1>1 DEF Piece
  <1>3. From(m) \in Nat /\ To(m) \in Nat /\ To(m) + 1 = From(m) + Len(m.ids)
    BY <1>1, <1>2 DEF From, To
  <1>4. Range(m.ids) = {m.ids[k] : k \in 1 .. Len(m.ids)}
    BY <1>1 DEF Range
  <1>5. ASSUME NEW i \in From(m) .. To(m) PROVE i \in Range(m.ids)
    <2>1. PICK k \in Int : i + 1 = From(m) + k
      <3>1. (i + 1) - From(m) \in Int /\ i + 1 = From(m) + ((i + 1) - From(m))
        BY <1>3
      <3>. QED BY <3>1
    <2>2. k \in 1 .. Len(m.ids)
      BY <2>1, <1>3, <1>1
    <2>3. m.ids[k] = i
      BY <2>1, <2>2, <1>2
    <2>. QED BY <2>2, <2>3, <1>4
  <1>6. ASSUME NEW i \in Range(m.ids) PROVE i \in From(m) .. To(m)
    <2>1. PICK k \in 1 .. Len(m.ids) : i = m.ids[k]
      BY <1>4
    <2>2. i \in Nat /\ i + 1 = From(m) + k
      BY <2>1, <1>2
    <2>3. k >= 1 /\ k <= Len(m.ids) /\ k \in Nat
      BY <1>1
    <2>. QED BY <2>2, <2>3, <1>3, <1>1
  <1>7. Range(m.ids) = From(m) .. To(m)
    BY <1>5, <1>6
  <1>8. Head(m.ids) = From(m) /\ Last(m.ids) = To(m) /\ m.ids # <<>>
    BY <1>1 DEF From, To, Last
  <1>9. From(m) >= 1 /\ To(m) <= t
    BY DEF Piece
  <1>. QED BY <1>1, <1>3, <1>7, <1>8, <1>9

\* A piece stays one when the book grows and more is taken.
LEMMA PieceStays ==
    ASSUME NEW m \in Messages, NEW b, NEW c, NEW t \in Nat, NEW u \in Nat,
           Piece(m, b, t), t <= u, \A i \in 1 .. t : c[i] = b[i]
    PROVE  Piece(m, c, u)
  <1>1. From(m) \in Nat \ {0} /\ To(m) \in Nat /\ From(m) <= To(m) /\ To(m) <= t
    BY PieceRange
  <1>2. \A i \in From(m) .. To(m) : c[i] = b[i]
    BY <1>1
  <1>. QED BY <1>1, <1>2 DEF Piece

\* What is remembered keeps its reason.
LEMMA SourceStays ==
    ASSUME NEW key, NEW text, NEW b, NEW c, NEW t \in Nat, NEW u \in Nat,
           Source(key, text, b, t), t <= u, \A i \in 1 .. t : c[i] = b[i]
    PROVE  Source(key, text, c, u)
  <1>1. PICK j \in 1 .. t : b[j].kind = "reply" /\ key = Key(b[j]) /\ text = b[j].text
    BY DEF Source
  <1>2. j \in 1 .. u /\ c[j] = b[j]
    OBVIOUS
  <1>. QED BY <1>1, <1>2 DEF Source
-----------------------------------------------------------------------------
(* What turns publish *)

\* The dispatcher and the platform, apart from the queue.
sentVars == <<sending, fingerprints, fates, shown>>

\* How far the dispatcher and the fates are.
LEMMA Counts ==
    ASSUME TypeInv, QueueInv, SendInv
    PROVE  /\ Taken \in Nat /\ Taken <= Len(book) /\ Len(book) \in Nat
           /\ SettledTo \in Nat /\ SettledTo <= Taken
           /\ sending # None => /\ sending \in SendRecords /\ sending.message \in Messages
                                /\ From(sending.message) \in Nat
                                /\ From(sending.message) <= Taken
  <1>1. Taken \in Nat /\ Taken <= Len(book) /\ Len(book) \in Nat
    BY DEF TypeInv, QueueInv, Taken
  <1>2. ASSUME sending # None
        PROVE  /\ sending \in SendRecords /\ sending.message \in Messages
               /\ From(sending.message) \in Nat \ {0} /\ From(sending.message) <= Taken
    <2>1. sending \in SendRecords /\ sending.message \in Messages
      BY <1>2 DEF TypeInv, SendRecords
    <2>2. From(sending.message) \in Nat \ {0} /\ To(sending.message) \in Nat
          /\ From(sending.message) <= To(sending.message) /\ To(sending.message) <= Taken
      BY <1>1, <1>2, <2>1, PieceRange DEF SendInv
    <2>. QED BY <1>1, <2>1, <2>2
  <1>3. SettledTo \in Nat /\ SettledTo <= Taken
    BY <1>1, <1>2 DEF SettledTo
  <1>. QED BY <1>1, <1>2, <1>3

\* A step that touches none of this.
LEMMA IdleKeepsDelivery ==
    ASSUME DeliveryInv, UNCHANGED <<book, queues, sentVars>>
    PROVE  DeliveryInv'
  <1>1. book' = book /\ outbound' = outbound /\ pending' = pending /\ sending' = sending
        /\ fingerprints' = fingerprints /\ fates' = fates /\ shown' = shown
    BY DEF queues, sentVars
  <1>2. Taken' = Taken
    BY <1>1 DEF Taken
  <1>3. QueueInv' /\ SendInv' /\ FingerInv'
    BY <1>1, <1>2 DEF DeliveryInv, QueueInv, SendInv, FingerInv, SettledTo
  <1>4. ShownInv'
    BY <1>1, <1>2 DEF DeliveryInv, ShownInv, Allowed
  <1>5. EndInv'
    BY <1>1 DEF DeliveryInv, EndInv, EndShown
  <1>6. OnlyRepeatsDropped'
    BY <1>1 DEF DeliveryInv, OnlyRepeatsDropped
  <1>. QED BY <1>3, <1>4, <1>5, <1>6 DEF DeliveryInv

\* The message x is published.
Published(x) ==
    /\ x \in Messages /\ x.ids = <<Len(book) + 1>>
    /\ book' = Append(book, x) /\ outbound' = Append(outbound, x)
    /\ UNCHANGED <<pending, sentVars>>

LEMMA PublishedKeepsDelivery ==
    ASSUME TypeInv, DeliveryInv, NEW x, Published(x)
    PROVE  /\ DeliveryInv'
           /\ book' \in Seq(Messages) /\ outbound' \in Seq(Messages)
           /\ Len(book') = Len(book) + 1 /\ book'[Len(book) + 1] = x
           /\ \A i \in 1 .. Len(book) : book'[i] = book[i]
  <1>1. /\ book' \in Seq(Messages) /\ outbound' \in Seq(Messages)
        /\ Len(book') = Len(book) + 1 /\ book'[Len(book) + 1] = x
        /\ \A i \in 1 .. Len(book) : book'[i] = book[i]
        /\ Len(outbound') = Len(outbound) + 1 /\ outbound'[Len(outbound) + 1] = x
        /\ \A i \in 1 .. Len(outbound) : outbound'[i] = outbound[i]
        /\ Len(book) \in Nat /\ Len(outbound) \in Nat /\ Len(pending) \in Nat
    BY DEF TypeInv, Published
  <1>2. pending' = pending /\ sending' = sending /\ fingerprints' = fingerprints
        /\ fates' = fates /\ shown' = shown
    BY DEF Published, sentVars
  <1>3. /\ Taken \in Nat /\ Taken <= Len(book)
        /\ SettledTo \in Nat /\ SettledTo <= Taken
    BY Counts DEF DeliveryInv
  <1>4. Taken' = Taken /\ SettledTo' = SettledTo
    <2>1. Taken' = Taken
      BY <1>1, <1>2 DEF Taken
    <2>. QED BY <2>1, <1>2 DEF SettledTo
  <1>5. \A i \in 1 .. Taken : book'[i] = book[i]
    BY <1>1, <1>3
  <1>6. QueueInv'
    <2>1. \A i \in 1 .. Len(book') : book'[i].ids = <<i>>
      <3>1. ASSUME NEW i \in 1 .. Len(book'), i # Len(book) + 1 PROVE book'[i].ids = <<i>>
        BY <3>1, <1>1 DEF DeliveryInv, QueueInv
      <3>2. book'[Len(book) + 1].ids = <<Len(book) + 1>>
        BY <1>1 DEF Published
      <3>. QED BY <3>1, <3>2
    <2>2. Len(pending') <= 1 /\ Len(pending') + Len(outbound') <= Len(book')
      BY <1>1, <1>2 DEF DeliveryInv, QueueInv
    <2>3. \A j \in 1 .. Len(pending) : pending[j] = book'[Taken + j]
      <3>1. \A j \in 1 .. Len(pending) : Taken + j \in 1 .. Len(book)
        BY <1>1, <1>3 DEF Taken
      <3>. QED BY <3>1, <1>1 DEF DeliveryInv, QueueInv
    <2>4. \A j \in 1 .. Len(outbound') : outbound'[j] = book'[(Taken + Len(pending)) + j]
      <3>1. \A j \in 1 .. Len(outbound) : (Taken + Len(pending)) + j \in 1 .. Len(book)
        BY <1>1, <1>3 DEF Taken
      <3>2. (Taken + Len(pending)) + (Len(outbound) + 1) = Len(book) + 1
        BY <1>1 DEF Taken
      <3>3. \A j \in 1 .. Len(outbound) : outbound'[j] = book'[(Taken + Len(pending)) + j]
        BY <3>1, <1>1 DEF DeliveryInv, QueueInv
      <3>4. outbound'[Len(outbound) + 1] = book'[(Taken + Len(pending)) + (Len(outbound) + 1)]
        BY <3>2, <1>1
      <3>5. \A j \in 1 .. Len(outbound') : j \in 1 .. Len(outbound) \/ j = Len(outbound) + 1
        BY <1>1
      <3>. QED BY <3>3, <3>4, <3>5
    <2>. QED BY <2>1, <2>2, <2>3, <2>4, <1>2, <1>4 DEF QueueInv
  <1>7. SendInv'
    <2>1. ASSUME sending # None PROVE Piece(sending.message, book', Taken)
      <3>1. Piece(sending.message, book, Taken) /\ sending.message \in Messages
        BY <2>1, Counts DEF DeliveryInv, SendInv
      <3>. QED BY <3>1, <1>3, <1>5, PieceStays
    <2>. QED BY <2>1, <1>2, <1>4 DEF DeliveryInv, SendInv
  <1>8. FingerInv'
    <2>1. ASSUME NEW key \in DOMAIN fingerprints
          PROVE  Source(key, fingerprints[key], book', Taken)
      <3>1. Source(key, fingerprints[key], book, Taken)
        BY DEF DeliveryInv, FingerInv
      <3>. QED BY <3>1, <1>3, <1>5, SourceStays
    <2>. QED BY <2>1, <1>2, <1>4 DEF FingerInv
  <1>9. ShownInv'
    <2>1. ASSUME NEW n \in 1 .. Len(shown) PROVE Piece(shown[n], book', Taken)
      <3>1. Piece(shown[n], book, Taken) /\ shown[n] \in Messages
        BY DEF DeliveryInv, ShownInv, TypeInv
      <3>. QED BY <3>1, <1>3, <1>5, PieceStays
    <2>. QED BY <2>1, <1>2, <1>4 DEF DeliveryInv, ShownInv, Allowed
  <1>10. DOMAIN fates = 1 .. SettledTo
    BY DEF DeliveryInv, SendInv
  <1>11. \A i \in DOMAIN fates : i \in Int /\ book'[i] = book[i]
                                /\ \A j \in 1 .. (i - 1) : book'[j] = book[j]
    BY <1>10, <1>3, <1>5
  <1>12. EndInv'
    <2>1. \A i \in DOMAIN fates : EndShown(i) => EndShown(i)'
      BY <1>2 DEF EndShown
    <2>2. \A i \in DOMAIN fates : book[i].kind = "end" /\ book[i].closes => EndShown(i)
      BY DEF DeliveryInv, EndInv
    <2>. QED BY <2>1, <2>2, <1>2, <1>11 DEF EndInv
  <1>13. OnlyRepeatsDropped'
    <2>. SUFFICES ASSUME NEW i \in DOMAIN fates, fates[i] = "repeat"
         PROVE  \E j \in 1 .. (i - 1) :
                  /\ book'[j].kind = "reply" /\ book'[j].chat = book'[i].chat
                  /\ book'[j].text = book'[i].text
                  /\ book'[i].origin \in {book'[j].by, book'[j].origin}
                  /\ j \in DOMAIN fates
      BY <1>2 DEF OnlyRepeatsDropped
    <2>1. PICK j \in 1 .. (i - 1) :
             /\ book[j].kind = "reply" /\ book[j].chat = book[i].chat
             /\ book[j].text = book[i].text
             /\ book[i].origin \in {book[j].by, book[j].origin}
             /\ j \in DOMAIN fates
      BY DEF DeliveryInv, OnlyRepeatsDropped
    <2>2. book'[j] = book[j] /\ book'[i] = book[i]
      BY <1>11
    <2>. QED BY <2>1, <2>2
  <1>. QED BY <1>1, <1>6, <1>7, <1>8, <1>9, <1>12, <1>13 DEF DeliveryInv
\* Steps that leave channels alone.
LEMMA ChannelsStay ==
    ASSUME ChannelInv, UNCHANGED <<dispatcher, channelVars, raced>>
    PROVE  ChannelInv'
  BY DEF ChannelInv, channelVars, Live

\* The messages a turn publishes.
LEMMA Publishes ==
    ASSUME TypeInv, NEW m, Publish(m),
           [y \in DOMAIN m \cup {"ids"} |-> IF y = "ids" THEN <<Len(book) + 1>> ELSE m[y]]
              \in Messages
    PROVE  /\ Published([y \in DOMAIN m \cup {"ids"} |->
                           IF y = "ids" THEN <<Len(book) + 1>> ELSE m[y]])
           /\ UNCHANGED <<dispatcher, channelVars, raced>>
  BY DEF Publish, Published, sentVars

Delta(c, n) == [kind |-> "delta", chat |-> c, stream |-> Stream(c), ids |-> <<n>>]
End(c, tail, closes, n) ==
    [kind |-> "end", chat |-> c, stream |-> Stream(c), tail |-> tail, closes |-> closes,
     ids |-> <<n>>]
Other == {m \in Messages : m.kind \notin {"delta", "end"}}

\* The stream of a running turn.
LEMMA StreamType ==
    ASSUME TypeInv, NEW c \in Chats, turns[c] # None
    PROVE  turns[c] \in TurnRecords /\ Stream(c) \in Streams
           /\ Len(book) + 1 \in Nat /\ <<Len(book) + 1>> \in Seq(Nat)
  BY DEF TypeInv, Stream, Streams, TurnRecords

LEMMA PublishesDelta ==
    ASSUME TypeInv, NEW c \in Chats, turns[c] # None,
           Publish([kind |-> "delta", chat |-> c, stream |-> Stream(c)])
    PROVE  Published(Delta(c, Len(book) + 1)) /\ UNCHANGED <<dispatcher, channelVars, raced>>
  <1>. DEFINE m == [kind |-> "delta", chat |-> c, stream |-> Stream(c)]
  <1>1. [y \in DOMAIN m \cup {"ids"} |-> IF y = "ids" THEN <<Len(book) + 1>> ELSE m[y]]
        = Delta(c, Len(book) + 1)
    BY DEF Delta
  <1>2. Delta(c, Len(book) + 1) \in Messages
    BY StreamType DEF Delta, Messages
  <1>3. Publish(m)
    OBVIOUS
  <1>. HIDE DEF m
  <1>. QED BY <1>1, <1>2, <1>3, Publishes

LEMMA PublishesEnd ==
    ASSUME TypeInv, NEW c \in Chats, turns[c] # None,
           NEW tail \in BOOLEAN, NEW closes \in BOOLEAN,
           Publish([kind |-> "end", chat |-> c, stream |-> Stream(c),
                    tail |-> tail, closes |-> closes])
    PROVE  /\ Published(End(c, tail, closes, Len(book) + 1))
           /\ UNCHANGED <<dispatcher, channelVars, raced>>
  <1>. DEFINE m == [kind |-> "end", chat |-> c, stream |-> Stream(c),
                    tail |-> tail, closes |-> closes]
  <1>1. [y \in DOMAIN m \cup {"ids"} |-> IF y = "ids" THEN <<Len(book) + 1>> ELSE m[y]]
        = End(c, tail, closes, Len(book) + 1)
    BY DEF End
  <1>2. End(c, tail, closes, Len(book) + 1) \in Messages
    BY StreamType DEF End, Messages
  <1>3. Publish(m)
    OBVIOUS
  <1>. HIDE DEF m
  <1>. QED BY <1>1, <1>2, <1>3, Publishes

LEMMA PublishesNotice ==
    ASSUME TypeInv, NEW c \in Chats, NEW visible \in BOOLEAN,
           Publish([kind |-> "notice", chat |-> c, visible |-> visible])
    PROVE  (\E x \in Other : Published(x)) /\ UNCHANGED <<dispatcher, channelVars, raced>>
  <1>. DEFINE m == [kind |-> "notice", chat |-> c, visible |-> visible]
              x == [kind |-> "notice", chat |-> c, visible |-> visible, ids |-> <<Len(book) + 1>>]
  <1>1. [y \in DOMAIN m \cup {"ids"} |-> IF y = "ids" THEN <<Len(book) + 1>> ELSE m[y]] = x
    OBVIOUS
  <1>2. x \in Messages /\ x \in Other
    BY DEF Messages, Other, TypeInv
  <1>3. Publish(m)
    OBVIOUS
  <1>. HIDE DEF m, x
  <1>. QED BY <1>1, <1>2, <1>3, Publishes

LEMMA PublishesStreamed ==
    ASSUME TypeInv, NEW c \in Chats, Publish([kind |-> "streamed", chat |-> c])
    PROVE  (\E x \in Other : Published(x)) /\ UNCHANGED <<dispatcher, channelVars, raced>>
  <1>. DEFINE m == [kind |-> "streamed", chat |-> c]
              x == [kind |-> "streamed", chat |-> c, ids |-> <<Len(book) + 1>>]
  <1>1. [y \in DOMAIN m \cup {"ids"} |-> IF y = "ids" THEN <<Len(book) + 1>> ELSE m[y]] = x
    OBVIOUS
  <1>2. x \in Messages /\ x \in Other
    BY DEF Messages, Other, TypeInv
  <1>3. Publish(m)
    OBVIOUS
  <1>. HIDE DEF m, x
  <1>. QED BY <1>1, <1>2, <1>3, Publishes

LEMMA PublishesReply ==
    ASSUME TypeInv, NEW c \in Chats, NEW text \in Texts \cup {Apology},
           NEW by \in Nat, NEW origin \in Nat, Publish(Reply(c, text, by, origin))
    PROVE  (\E x \in Other : Published(x)) /\ UNCHANGED <<dispatcher, channelVars, raced>>
  <1>. DEFINE m == Reply(c, text, by, origin)
              x == [kind |-> "reply", chat |-> c, text |-> text, by |-> by,
                    origin |-> origin, ids |-> <<Len(book) + 1>>]
  <1>1. [y \in DOMAIN m \cup {"ids"} |-> IF y = "ids" THEN <<Len(book) + 1>> ELSE m[y]] = x
    BY DEF Reply
  <1>2. x \in Messages /\ x \in Other
    BY DEF Messages, Other, TypeInv
  <1>3. Publish(m)
    OBVIOUS
  <1>. HIDE DEF m, x
  <1>. QED BY <1>1, <1>2, <1>3, Publishes
-----------------------------------------------------------------------------
(* Turns *)

Turned == turns' \in [Chats -> TurnRecords \cup {None}] /\ source' \in [Chats -> Nat]

\* What is open stays open, is left open or closed by x.
Kept(x) == \A m \in Messages : OpenIn(m, turns, source) =>
    \/ OpenIn(m, turns', source')
    \/ m.stream \in leftOpen'
    \/ Closes(x, m.stream)

\* A turn publishes x.
LEMMA PublishedKeepsIInv ==
    ASSUME IInv, Turned, NEW x, Published(x), leftOpen \subseteq leftOpen', Kept(x),
           x.kind = "delta" => OpenIn(x, turns', source'),
           UNCHANGED <<dispatcher, channelVars, raced>>
    PROVE  IInv'
  <1>1. TypeInv /\ DeliveryInv /\ DeltaInv /\ ChannelInv
    BY DEF IInv
  <1>2. /\ DeliveryInv'
        /\ book' \in Seq(Messages) /\ outbound' \in Seq(Messages)
        /\ Len(book') = Len(book) + 1 /\ book'[Len(book) + 1] = x
        /\ \A i \in 1 .. Len(book) : book'[i] = book[i]
    BY <1>1, PublishedKeepsDelivery
  <1>3. TypeInv'
    BY <1>1, <1>2 DEF TypeInv, Turned, Published, sentVars, channelVars
  <1>4. DeltaInv'
    <2>. SUFFICES ASSUME NEW i \in 1 .. Len(book'), book'[i].kind = "delta"
         PROVE  \/ OpenIn(book'[i], turns', source')
                \/ book'[i].stream \in leftOpen'
                \/ \E j \in 1 .. Len(book') : Closes(book'[j], book'[i].stream)
      BY DEF DeltaInv
    <2>1. Len(book) \in Nat /\ book \in Seq(Messages)
      BY <1>1 DEF TypeInv
    <2>2. CASE i = Len(book) + 1
      BY <2>2, <1>2
    <2>3. CASE i # Len(book) + 1
      <3>1. i \in 1 .. Len(book) /\ book'[i] = book[i] /\ book[i] \in Messages
        BY <2>1, <2>3, <1>2
      <3>2. CASE OpenIn(book[i], turns, source)
        <4>1. Len(book) + 1 \in 1 .. Len(book')
          BY <2>1, <1>2
        <4>. QED BY <3>1, <3>2, <4>1, <1>2 DEF Kept
      <3>3. CASE book[i].stream \in leftOpen
        BY <3>1, <3>3
      <3>4. ASSUME NEW j \in 1 .. Len(book), Closes(book[j], book[i].stream)
            PROVE  \E k \in 1 .. Len(book') : Closes(book'[k], book'[i].stream)
        <4>1. j \in 1 .. Len(book') /\ book'[j] = book[j]
          BY <2>1, <1>2
        <4>. QED BY <3>1, <3>4, <4>1
      <3>. QED BY <3>1, <3>2, <3>3, <3>4, <1>1 DEF DeltaInv
    <2>. QED BY <2>2, <2>3
  <1>5. ChannelInv'
    BY <1>1, ChannelsStay
  <1>. QED BY <1>2, <1>3, <1>4, <1>5 DEF IInv

\* A turn begins or ends without a message.
LEMMA TurnedKeepsIInv ==
    ASSUME IInv, Turned,
           \A m \in Messages : OpenIn(m, turns, source) => OpenIn(m, turns', source'),
           UNCHANGED <<queues, sending, fingerprints, dispatcher, channelVars, book,
                       fates, history>>
    PROVE  IInv'
  <1>1. TypeInv /\ DeliveryInv /\ DeltaInv /\ ChannelInv
    BY DEF IInv
  <1>2. DeliveryInv'
    BY <1>1, IdleKeepsDelivery DEF sentVars, history
  <1>3. TypeInv'
    BY <1>1 DEF TypeInv, Turned, queues, channelVars, history
  <1>4. DeltaInv'
    <2>1. book' = book /\ leftOpen' = leftOpen /\ \A i \in 1 .. Len(book) : book[i] \in Messages
      BY <1>1 DEF history, TypeInv
    <2>. QED BY <2>1, <1>1 DEF DeltaInv
  <1>5. ChannelInv'
    BY <1>1, ChannelsStay DEF history
  <1>. QED BY <1>2, <1>3, <1>4, <1>5 DEF IInv

LEMMA BeginKeepsIInv ==
    ASSUME IInv, NEW c \in Chats, Begin(c)
    PROVE  IInv'
  <1>. DEFINE q == [segment |-> 0, open |-> FALSE, merged |-> FALSE, streamed |-> FALSE]
  <1>1. turns \in [Chats -> TurnRecords \cup {None}] /\ source \in [Chats -> Nat]
    BY DEF IInv, TypeInv
  <1>2. q \in TurnRecords
    BY DEF TurnRecords
  <1>3. turns[c] = None /\ turns' = [turns EXCEPT ![c] = q]
        /\ source' = [source EXCEPT ![c] = @ + 1]
    BY DEF Begin
  <1>. HIDE DEF q
  <1>4. Turned
    BY <1>1, <1>2, <1>3 DEF Turned
  <1>5. ASSUME NEW m \in Messages, OpenIn(m, turns, source)
        PROVE  OpenIn(m, turns', source')
    <2>1. m.chat \in Chats /\ m.chat # c
      BY <1>3, <1>5, Fields DEF OpenIn
    <2>2. turns'[m.chat] = turns[m.chat] /\ source'[m.chat] = source[m.chat]
      BY <2>1, <1>1, <1>3
    <2>. QED BY <2>2, <1>5 DEF OpenIn
  <1>6. UNCHANGED <<queues, sending, fingerprints, dispatcher, channelVars, book,
                    fates, history>>
    BY DEF Begin
  <1>. QED BY <1>4, <1>5, <1>6, TurnedKeepsIInv

\* The turn of c goes on as q: its stream is kept or closed.
LEMMA TurnGoesOn ==
    ASSUME TypeInv, NEW c \in Chats, NEW q \in TurnRecords, NEW x,
           turns[c] # None, turns' = [turns EXCEPT ![c] = q], UNCHANGED source,
           \/ q.segment = turns[c].segment /\ (turns[c].open => q.open)
           \/ Closes(x, Stream(c))
    PROVE  Turned /\ Kept(x)
  <1>1. turns \in [Chats -> TurnRecords \cup {None}] /\ source \in [Chats -> Nat]
    BY DEF TypeInv
  <1>2. Turned
    BY <1>1 DEF Turned
  <1>3. q # None /\ turns'[c] = q
    BY <1>1, ConstantsAssumption
  <1>4. ASSUME NEW m \in Messages, OpenIn(m, turns, source)
        PROVE  OpenIn(m, turns', source') \/ Closes(x, m.stream)
    <2>1. CASE m.chat = c
      BY <2>1, <1>3, <1>4 DEF OpenIn, Stream
    <2>2. CASE m.chat # c
      <3>1. turns'[m.chat] = turns[m.chat]
        BY <2>2, <1>1, Fields
      <3>. QED BY <3>1, <1>4 DEF OpenIn
    <2>. QED BY <2>1, <2>2
  <1>. QED BY <1>2, <1>4 DEF Kept

\* The turn of c ends: its open stream is left open or closed.
LEMMA TurnEnds ==
    ASSUME TypeInv, NEW c \in Chats, NEW x, turns[c] # None, EndTurn(c),
           turns[c].open => Stream(c) \in leftOpen' \/ Closes(x, Stream(c))
    PROVE  Turned /\ Kept(x)
  <1>1. turns \in [Chats -> TurnRecords \cup {None}] /\ source \in [Chats -> Nat]
    BY DEF TypeInv
  <1>2. turns' = [turns EXCEPT ![c] = None] /\ source' = source
    BY DEF EndTurn
  <1>3. Turned
    BY <1>1, <1>2 DEF Turned
  <1>4. ASSUME NEW m \in Messages, OpenIn(m, turns, source)
        PROVE  OpenIn(m, turns', source') \/ m.stream \in leftOpen' \/ Closes(x, m.stream)
    <2>1. CASE m.chat = c
      BY <2>1, <1>4 DEF OpenIn, Stream
    <2>2. CASE m.chat # c
      <3>1. turns'[m.chat] = turns[m.chat]
        BY <2>2, <1>1, <1>2, Fields
      <3>. QED BY <3>1, <1>2, <1>4 DEF OpenIn
    <2>. QED BY <2>1, <2>2
  <1>. QED BY <1>3, <1>4 DEF Kept
LEMMA StreamDeltaKeepsIInv ==
    ASSUME IInv, NEW c \in Chats, StreamDelta(c)
    PROVE  IInv'
  <1>. DEFINE q == [turns[c] EXCEPT !.open = TRUE, !.merged = FALSE, !.streamed = TRUE]
              x == Delta(c, Len(book) + 1)
  <1>1. TypeInv /\ turns[c] # None
    BY DEF IInv, StreamDelta
  <1>2. turns[c] \in TurnRecords /\ turns \in [Chats -> TurnRecords \cup {None}]
    BY <1>1, StreamType DEF TypeInv
  <1>3. q \in TurnRecords /\ q.segment = turns[c].segment /\ q.open
    BY <1>2 DEF TurnRecords
  <1>4. turns' = [turns EXCEPT ![c] = q] /\ source' = source /\ leftOpen' = leftOpen
    BY <1>2 DEF StreamDelta
  <1>5. Published(x) /\ UNCHANGED <<dispatcher, channelVars, raced>>
    BY <1>1, PublishesDelta DEF StreamDelta
  <1>6. x.chat = c /\ x.stream = Stream(c)
    BY DEF Delta
  <1>. HIDE DEF q, x
  <1>7. Turned /\ Kept(x)
    BY <1>1, <1>3, <1>4, TurnGoesOn
  <1>8. OpenIn(x, turns', source')
    <2>1. turns'[c] = q /\ q # None
      BY <1>2, <1>3, <1>4, ConstantsAssumption
    <2>. QED BY <2>1, <1>3, <1>4, <1>6 DEF OpenIn, Stream
  <1>. QED BY <1>4, <1>5, <1>7, <1>8, PublishedKeepsIInv

LEMMA StreamEndedKeepsIInv ==
    ASSUME IInv, NEW c \in Chats, NEW merge \in BOOLEAN, NEW tail \in BOOLEAN,
           StreamEnded(c, merge, tail)
    PROVE  IInv'
  <1>. DEFINE q == [turns[c] EXCEPT !.open = merge, !.merged = merge,
                                    !.segment = IF merge THEN @ ELSE @ + 1]
              x == End(c, tail, ~merge, Len(book) + 1)
  <1>1. TypeInv /\ turns[c] # None
    BY DEF IInv, StreamEnded
  <1>2. turns[c] \in TurnRecords /\ turns \in [Chats -> TurnRecords \cup {None}]
    BY <1>1, StreamType DEF TypeInv
  <1>. DEFINE segment == IF merge THEN turns[c].segment ELSE turns[c].segment + 1
  <1>3. q \in TurnRecords /\ (merge => q.segment = turns[c].segment /\ q.open)
    <2>1. segment \in Nat
      BY <1>2 DEF TurnRecords
    <2>2. q = [turns[c] EXCEPT !.open = merge, !.merged = merge, !.segment = segment]
      BY <1>2 DEF TurnRecords
    <2>3. merge => segment = turns[c].segment
      OBVIOUS
    <2>. HIDE DEF q, segment
    <2>. QED BY <1>2, <2>1, <2>2, <2>3 DEF TurnRecords
  <1>4. turns' = [turns EXCEPT ![c] = q] /\ source' = source /\ leftOpen' = leftOpen
    BY <1>2 DEF StreamEnded
  <1>5. Published(x) /\ UNCHANGED <<dispatcher, channelVars, raced>>
    BY <1>1, PublishesEnd DEF StreamEnded
  <1>6. x.kind = "end" /\ (~merge => Closes(x, Stream(c)))
    BY DEF End, Closes
  <1>. HIDE DEF q, x
  <1>7. Turned /\ Kept(x)
    BY <1>1, <1>3, <1>4, <1>6, TurnGoesOn
  <1>. QED BY <1>4, <1>5, <1>6, <1>7, PublishedKeepsIInv

\* A message outside the streams, while the turns stay.
LEMMA OtherKeepsIInv ==
    ASSUME IInv, UNCHANGED <<turnVars, leftOpen, dispatcher, channelVars, raced>>,
           \E x \in Other : Published(x)
    PROVE  IInv'
  <1>1. PICK x \in Other : Published(x)
    OBVIOUS
  <1>2. Turned /\ Kept(x)
    BY DEF IInv, TypeInv, turnVars, Turned, Kept
  <1>3. x.kind # "delta"
    BY DEF Other
  <1>. QED BY <1>1, <1>2, <1>3, PublishedKeepsIInv

LEMMA SpokenKeepsIInv ==
    ASSUME IInv, NEW c \in Chats,
           \/ \E visible \in BOOLEAN : Notice(c, visible)
           \/ \E text \in Texts : ToolMessage(c, text) \/ Background(c, text)
    PROVE  IInv'
  <1>1. TypeInv /\ source[c] \in Nat
    BY DEF IInv, TypeInv
  <1>2. ASSUME NEW visible \in BOOLEAN, Notice(c, visible) PROVE IInv'
    BY <1>1, <1>2, PublishesNotice, OtherKeepsIInv DEF Notice
  <1>3. ASSUME NEW text \in Texts, ToolMessage(c, text) PROVE IInv'
    BY <1>1, <1>3, PublishesReply, OtherKeepsIInv DEF ToolMessage
  <1>4. ASSUME NEW text \in Texts, Background(c, text) PROVE IInv'
    BY <1>1, <1>4, PublishesReply, OtherKeepsIInv DEF Background
  <1>. QED BY <1>2, <1>3, <1>4

\* The last words of a turn.
LEMMA EndingKeepsIInv ==
    ASSUME IInv, NEW c \in Chats, (\E text \in Texts : Complete(c, text)) \/ Fail(c)
    PROVE  IInv'
  <1>1. TypeInv /\ source[c] \in Nat
    BY DEF IInv, TypeInv
  <1>2. /\ turns[c] # None /\ EndTurn(c)
        /\ leftOpen' = IF turns[c].open THEN leftOpen \cup {Stream(c)} ELSE leftOpen
    BY DEF Complete, Fail
  <1>3. (\E x \in Other : Published(x)) /\ UNCHANGED <<dispatcher, channelVars, raced>>
    BY <1>1, PublishesReply, PublishesStreamed DEF Complete, Fail
  <1>4. PICK x \in Other : Published(x)
    BY <1>3
  <1>5. Turned /\ Kept(x)
    BY <1>1, <1>2, TurnEnds
  <1>6. x.kind # "delta"
    BY DEF Other
  <1>. QED BY <1>2, <1>3, <1>4, <1>5, <1>6, PublishedKeepsIInv

LEMMA AbortKeepsIInv ==
    ASSUME IInv, NEW c \in Chats, Abort(c)
    PROVE  IInv'
  <1>1. TypeInv /\ turns[c] # None /\ EndTurn(c)
    BY DEF IInv, Abort
  <1>2. CASE turns[c].open
    <2>. DEFINE x == End(c, FALSE, TRUE, Len(book) + 1)
    <2>1. Published(x) /\ UNCHANGED <<dispatcher, channelVars, raced>>
      BY <1>1, <1>2, PublishesEnd DEF Abort
    <2>2. x.kind = "end" /\ Closes(x, Stream(c))
      BY DEF End, Closes
    <2>3. leftOpen' = leftOpen
      BY <1>2 DEF Abort
    <2>. HIDE DEF x
    <2>4. Turned /\ Kept(x)
      BY <1>1, <2>2, TurnEnds
    <2>. QED BY <2>1, <2>2, <2>3, <2>4, PublishedKeepsIInv
  <1>3. CASE ~turns[c].open
    <2>1. UNCHANGED <<queues, sending, fingerprints, dispatcher, channelVars, book,
                      fates, history>>
      BY <1>3 DEF Abort
    <2>2. Turned
      BY <1>1, <1>3, TurnEnds
    <2>3. turns' = [turns EXCEPT ![c] = None] /\ source' = source
          /\ turns \in [Chats -> TurnRecords \cup {None}]
      BY <1>1 DEF EndTurn, TypeInv
    <2>4. ASSUME NEW m \in Messages, OpenIn(m, turns, source)
          PROVE  OpenIn(m, turns', source')
      <3>1. m.chat \in Chats /\ m.chat # c
        BY <1>3, <2>4, Fields DEF OpenIn
      <3>2. turns'[m.chat] = turns[m.chat]
        BY <3>1, <2>3
      <3>. QED BY <3>2, <2>3, <2>4 DEF OpenIn
    <2>. QED BY <2>1, <2>2, <2>4, TurnedKeepsIInv
  <1>. QED BY <1>2, <1>3
-----------------------------------------------------------------------------
(* Channel objects *)

LEMMA DeltasStay ==
    ASSUME DeltaInv, UNCHANGED <<book, turnVars, leftOpen>>
    PROVE  DeltaInv'
  BY DEF DeltaInv, turnVars

\* A step that moves channel objects only.
LEMMA ObjectsKeepIInv ==
    ASSUME IInv, UNCHANGED <<turnVars, dispatchVars, book, history>> \/
                 UNCHANGED <<turnVars, dispatchVars, book, shown, leftOpen>>,
           dispatcher' \in {"on", "stopping", "stopped"}, objects' \in Seq(States),
           channel' \in 0 .. Len(objects'), task' \in 0 .. Len(objects'),
           request' \in [Requests -> RequestRecords \cup {None}],
           \A r \in Requests : request'[r] # None => request'[r].new \in 0 .. Len(objects'),
           ChannelInv'
    PROVE  IInv'
  <1>1. /\ UNCHANGED <<turnVars, book, leftOpen, queues, sentVars>>
        /\ turns' = turns /\ source' = source /\ outbound' = outbound /\ pending' = pending
        /\ shown' = shown /\ sending' = sending
    BY DEF dispatchVars, history, queues, sentVars, turnVars
  <1>2. DeliveryInv'
    BY <1>1, IdleKeepsDelivery DEF IInv
  <1>3. DeltaInv'
    BY <1>1, DeltasStay DEF IInv
  <1>4. TypeInv'
    BY <1>1 DEF IInv, TypeInv
  <1>. QED BY <1>2, <1>3, <1>4 DEF IInv

LEMMA StartedKeepsIInv ==
    ASSUME IInv, NEW o \in 1 .. Len(objects), NEW ok \in BOOLEAN, Started(o, ok)
    PROVE  IInv'
  <1>1. PICK s \in {"running", "failed"} : objects' = [objects EXCEPT ![o] = s]
    BY DEF Started
  <1>2. TypeInv /\ ChannelInv
    BY DEF IInv
  <1>3. objects' \in Seq(States) /\ Len(objects') = Len(objects) /\ objects'[o] = s
        /\ \A p \in 1 .. Len(objects) : p # o => objects'[p] = objects[p]
    BY <1>1, <1>2 DEF TypeInv, States
  <1>4. objects[o] = "starting" /\ dispatcher' = dispatcher /\ channel' = channel
        /\ task' = task /\ request' = request /\ raced' = raced
        /\ UNCHANGED <<turnVars, dispatchVars, book, history>>
    BY DEF Started, history
  <1>5. ChannelInv'
    <2>. SUFFICES ASSUME ~raced PROVE ChannelInv'
      BY <1>4 DEF ChannelInv
    <2>1. \A p \in 1 .. Len(objects') : Live(p)' => p = channel /\ dispatcher # "stopped"
      BY <1>2, <1>3, <1>4 DEF ChannelInv, Live
    <2>. QED BY <2>1, <1>2, <1>4 DEF ChannelInv
  <1>. QED BY <1>2, <1>3, <1>4, <1>5, ObjectsKeepIInv DEF TypeInv

\* What is built and what is stopped is not live.
LEMMA Built ==
    ASSUME TypeInv
    PROVE  LET objs == Append(objects, "built")
           IN /\ objs \in Seq(States) /\ Len(objs) = Len(objects) + 1
              /\ \A o \in 1 .. Len(objs) :
                    objs[o] \in {"starting", "running"} => o \in 1 .. Len(objects) /\ Live(o)
  <1>. DEFINE objs == Append(objects, "built")
  <1>1. objects \in Seq(States) /\ "built" \in States /\ Len(objects) \in Nat
    BY DEF TypeInv, States
  <1>2. objs \in Seq(States) /\ Len(objs) = Len(objects) + 1
        /\ objs[Len(objects) + 1] = "built"
        /\ \A o \in 1 .. Len(objects) : objs[o] = objects[o]
    BY <1>1
  <1>3. \A o \in 1 .. Len(objs) : o \in 1 .. Len(objects) \/ o = Len(objects) + 1
    BY <1>1, <1>2
  <1>. HIDE DEF objs
  <1>4. \A o \in 1 .. Len(objs) :
           objs[o] \in {"starting", "running"} => o \in 1 .. Len(objects) /\ Live(o)
    BY <1>2, <1>3 DEF Live
  <1>. QED BY <1>2, <1>4 DEF objs

LEMMA Stopping ==
    ASSUME TypeInv, NEW p \in Nat
    PROVE  LET objs == Stop(objects, p)
           IN /\ objs \in Seq(States) /\ Len(objs) = Len(objects)
              /\ \A o \in 1 .. Len(objs) :
                    objs[o] \in {"starting", "running"} => o # p /\ Live(o)
  <1>. DEFINE objs == Stop(objects, p)
  <1>1. objects \in Seq(States) /\ "stopped" \in States
    BY DEF TypeInv, States
  <1>2. objs \in Seq(States) /\ Len(objs) = Len(objects)
    <2>1. CASE p \in 1 .. Len(objects)
      BY <1>1, <2>1 DEF Stop
    <2>2. CASE p \notin 1 .. Len(objects)
      <3>1. objs = objects
        BY <1>1, <2>2 DEF Stop
      <3>. QED BY <1>1, <3>1
    <2>. QED BY <2>1, <2>2
  <1>3. \A o \in 1 .. Len(objects) : objs[o] = IF o = p THEN "stopped" ELSE objects[o]
    BY <1>1 DEF Stop
  <1>. HIDE DEF objs
  <1>4. \A o \in 1 .. Len(objs) : objs[o] \in {"starting", "running"} => o # p /\ Live(o)
    BY <1>2, <1>3 DEF Live
  <1>. QED BY <1>2, <1>4 DEF objs

\* The new object has the name, and of objs only it is live then.
LEMMA Installs ==
    ASSUME TypeInv, NEW new, NEW objs \in Seq(States), new \in 1 .. Len(objs),
           Len(objects) <= Len(objs), Install(new, objs)
    PROVE  /\ objects' \in Seq(States) /\ Len(objects') = Len(objs)
           /\ channel' = new /\ channel' \in 0 .. Len(objects') /\ task' \in 0 .. Len(objects')
           /\ \A o \in 1 .. Len(objs) : objects'[o] \in {"starting", "running"} =>
                 \/ o = new /\ dispatcher = "on"
                 \/ objs[o] \in {"starting", "running"}
  <1>1. task \in 0 .. Len(objs) /\ "starting" \in States
    BY DEF TypeInv, States
  <1>2. CASE dispatcher = "on"
    <2>1. objects' = [objs EXCEPT ![new] = "starting"] /\ task' = new /\ channel' = new
      BY <1>2 DEF Install
    <2>. QED BY <1>1, <1>2, <2>1
  <1>3. CASE dispatcher # "on"
    BY <1>1, <1>3 DEF Install
  <1>. QED BY <1>2, <1>3

LEMMA AppliedKeepsIInv ==
    ASSUME IInv, NEW r \in Requests, Applied(r)
    PROVE  IInv'
  <1>. DEFINE objs == Stop(objects, request[r].old)
  <1>1. TypeInv /\ ChannelInv /\ request[r] # None
    BY DEF IInv, Applied
  <1>2. request' = [request EXCEPT ![r] = None] /\ dispatcher' = dispatcher /\ raced' = raced
        /\ UNCHANGED <<turnVars, dispatchVars, book, history>>
    BY DEF Applied, history
  <1>3. /\ objs \in Seq(States) /\ Len(objs) = Len(objects)
        /\ \A o \in 1 .. Len(objs) :
              objs[o] \in {"starting", "running"} => o # request[r].old /\ Live(o)
    <2>1. request[r].old \in Nat
      BY <1>1 DEF TypeInv, RequestRecords
    <2>. QED BY <1>1, <2>1, Stopping
  <1>4. IF request[r].new # 0 THEN Install(request[r].new, objs)
        ELSE channel' = 0 /\ objects' = objs /\ task' = task
    BY DEF Applied
  <1>5. request[r].new \in 0 .. Len(objects) /\ task \in 0 .. Len(objects)
        /\ request \in [Requests -> RequestRecords \cup {None}]
        /\ \A q \in Requests : request[q] # None => request[q].new \in 0 .. Len(objects)
    BY <1>1 DEF TypeInv
  <1>. HIDE DEF objs
  <1>6. /\ objects' \in Seq(States) /\ Len(objects') = Len(objects)
        /\ channel' \in 0 .. Len(objects') /\ task' \in 0 .. Len(objects')
        /\ \A o \in 1 .. Len(objs) : objects'[o] \in {"starting", "running"} =>
              \/ o = channel' /\ dispatcher = "on"
              \/ objs[o] \in {"starting", "running"}
    <2>1. CASE request[r].new # 0
      <3>1. request[r].new \in 1 .. Len(objs) /\ Len(objects) <= Len(objs)
        BY <2>1, <1>1, <1>3, <1>5 DEF TypeInv
      <3>. QED BY <2>1, <3>1, <1>1, <1>3, <1>4, Installs
    <2>2. CASE request[r].new = 0
      BY <2>2, <1>1, <1>3, <1>4, <1>5 DEF TypeInv
    <2>. QED BY <2>1, <2>2
  <1>7. /\ request' \in [Requests -> RequestRecords \cup {None}]
        /\ \A q \in Requests : request'[q] # None => q # r /\ request'[q] = request[q]
    BY <1>2, <1>5
  <1>8. ChannelInv'
    <2>. SUFFICES ASSUME ~raced PROVE ChannelInv'
      BY <1>2 DEF ChannelInv
    <2>1. \A o \in 1 .. Len(objs) : ~ (objs[o] \in {"starting", "running"})
      BY <1>1, <1>3 DEF ChannelInv
    <2>2. \A o \in 1 .. Len(objects') : Live(o)' => o = channel' /\ dispatcher' # "stopped"
      BY <2>1, <1>2, <1>3, <1>6 DEF Live
    <2>3. \A q \in Requests : request'[q] = None
      BY <1>1, <1>7 DEF ChannelInv
    <2>. QED BY <2>2, <2>3 DEF ChannelInv
  <1>9. \A q \in Requests : request'[q] # None => request'[q].new \in 0 .. Len(objects')
    BY <1>5, <1>6, <1>7
  <1>10. dispatcher' \in {"on", "stopping", "stopped"}
    BY <1>1, <1>2 DEF TypeInv
  <1>. QED BY <1>2, <1>6, <1>7, <1>8, <1>9, <1>10, ObjectsKeepIInv
LEMMA ApplyKeepsIInv ==
    ASSUME IInv, NEW r \in Requests, NEW enable \in BOOLEAN, Apply(r, enable)
    PROVE  IInv'
  <1>. DEFINE new == Len(objects) + 1
              objs == Append(objects, "built")
              q == [old |-> channel, new |-> IF enable THEN new ELSE 0]
  <1>1. TypeInv /\ ChannelInv
    BY DEF IInv
  <1>2. /\ UNCHANGED <<turnVars, dispatchVars, book, shown, leftOpen>>
        /\ dispatcher' = dispatcher
    BY DEF Apply
  <1>3. /\ objects \in Seq(States) /\ Len(objects) \in Nat
        /\ channel \in 0 .. Len(objects) /\ task \in 0 .. Len(objects)
        /\ dispatcher \in {"on", "stopping", "stopped"}
        /\ request \in [Requests -> RequestRecords \cup {None}]
        /\ \A p \in Requests : request[p] # None => request[p].new \in 0 .. Len(objects)
    BY <1>1 DEF TypeInv
  <1>4. /\ objs \in Seq(States) /\ Len(objs) = Len(objects) + 1
        /\ \A o \in 1 .. Len(objs) :
              objs[o] \in {"starting", "running"} => o \in 1 .. Len(objects) /\ Live(o)
    BY <1>1, Built
  <1>5. CASE channel # 0
    <2>1. /\ request' = [request EXCEPT ![r] = q]
          /\ objects' = IF enable THEN objs ELSE objects
          /\ task' = 0 /\ channel' = channel
          /\ raced' = (raced \/ \E p \in Requests : request[p] # None)
      BY <1>5 DEF Apply
    <2>2. q \in RequestRecords /\ q.old = channel /\ q.new # channel
          /\ q.new \in 0 .. (IF enable THEN Len(objs) ELSE Len(objects))
      BY <1>3, <1>4, <1>5 DEF RequestRecords
    <2>. HIDE DEF objs, q
    <2>3. /\ objects' \in Seq(States) /\ Len(objects) <= Len(objects')
          /\ q.new \in 0 .. Len(objects')
          /\ \A o \in 1 .. Len(objects') : objects'[o] \in {"starting", "running"} =>
                o \in 1 .. Len(objects) /\ Live(o)
      BY <1>3, <1>4, <2>1, <2>2 DEF Live
    <2>4. /\ channel' \in 0 .. Len(objects') /\ task' \in 0 .. Len(objects')
          /\ dispatcher' \in {"on", "stopping", "stopped"}
      BY <1>2, <1>3, <2>1, <2>3
    <2>5. /\ request' \in [Requests -> RequestRecords \cup {None}]
          /\ request'[r] = q /\ \A p \in Requests : p # r => request'[p] = request[p]
      BY <1>3, <2>1, <2>2
    <2>6. \A p \in Requests : request'[p] # None => request'[p].new \in 0 .. Len(objects')
      <3>. SUFFICES ASSUME NEW p \in Requests, request'[p] # None
           PROVE  request'[p].new \in 0 .. Len(objects')
        OBVIOUS
      <3>1. CASE p = r
        BY <3>1, <2>3, <2>5
      <3>2. CASE p # r
        <4>1. request[p].new \in 0 .. Len(objects)
          BY <3>2, <1>3, <2>5
        <4>. QED BY <3>2, <4>1, <1>3, <2>3, <2>5
      <3>. QED BY <3>1, <3>2
    <2>7. ChannelInv'
      <3>. SUFFICES ASSUME ~raced, \A p \in Requests : request[p] = None
           PROVE  ChannelInv'
        BY <2>1 DEF ChannelInv
      <3>1. \A o \in 1 .. Len(objects') : Live(o)' => o = channel' /\ dispatcher' # "stopped"
        BY <1>1, <1>2, <2>1, <2>3 DEF ChannelInv, Live
      <3>2. \A p \in Requests : request'[p] # None => p = r
        BY <2>5
      <3>. QED BY <3>1, <3>2, <1>5, <2>1, <2>2, <2>5 DEF ChannelInv
    <2>. QED BY <1>2, <2>3, <2>4, <2>5, <2>6, <2>7, ObjectsKeepIInv
  <1>6. CASE channel = 0
    <2>1. request' = request /\ raced' = raced
      BY <1>6 DEF Apply
    <2>2. CASE enable
      <3>1. Install(new, objs)
        BY <1>6, <2>2 DEF Apply
      <3>2. new \in 1 .. Len(objs) /\ Len(objects) <= Len(objs)
        BY <1>3, <1>4
      <3>. HIDE DEF objs, new
      <3>3. /\ objects' \in Seq(States) /\ Len(objects') = Len(objs)
            /\ channel' = new /\ channel' \in 0 .. Len(objects')
            /\ task' \in 0 .. Len(objects')
            /\ \A o \in 1 .. Len(objs) : objects'[o] \in {"starting", "running"} =>
                 \/ o = new /\ dispatcher = "on"
                 \/ objs[o] \in {"starting", "running"}
        BY <1>1, <1>4, <3>1, <3>2, Installs
      <3>4. /\ request' \in [Requests -> RequestRecords \cup {None}]
            /\ \A p \in Requests : request'[p] # None =>
                  request'[p].new \in 0 .. Len(objects')
            /\ dispatcher' \in {"on", "stopping", "stopped"}
        BY <1>2, <1>3, <1>4, <2>1, <3>3
      <3>5. ChannelInv'
        <4>. SUFFICES ASSUME ~raced PROVE ChannelInv'
          BY <2>1 DEF ChannelInv
        <4>1. \A o \in 1 .. Len(objs) : ~ (objs[o] \in {"starting", "running"})
          BY <1>1, <1>3, <1>4, <1>6 DEF ChannelInv
        <4>2. \A o \in 1 .. Len(objects') : Live(o)' => o = channel' /\ dispatcher' # "stopped"
          BY <4>1, <1>2, <3>3 DEF Live
        <4>3. \A p \in Requests : request'[p] = None
          BY <1>1, <1>6, <2>1 DEF ChannelInv
        <4>. QED BY <4>2, <4>3 DEF ChannelInv
      <3>. QED BY <1>2, <3>3, <3>4, <3>5, ObjectsKeepIInv
    <2>3. CASE ~enable
      <3>1. channel' = channel /\ task' = task /\ objects' = objects
        BY <1>6, <2>3 DEF Apply
      <3>2. ChannelInv'
        BY <1>1, <1>2, <2>1, <3>1, ChannelsStay DEF channelVars
      <3>. QED BY <1>2, <1>3, <2>1, <3>1, <3>2, ObjectsKeepIInv
    <2>. QED BY <2>2, <2>3
  <1>. QED BY <1>5, <1>6

LEMMA AllStoppedKeepsIInv ==
    ASSUME IInv, AllStopped
    PROVE  IInv'
  <1>. DEFINE objs == Stop(objects, channel)
  <1>1. TypeInv /\ ChannelInv
    BY DEF IInv
  <1>2. /\ UNCHANGED <<turnVars, dispatchVars, book, history>>
        /\ dispatcher' = "stopped" /\ channel' = channel /\ request' = request
        /\ raced' = raced /\ task' = 0
        /\ objects' = IF channel = 0 THEN objects ELSE objs
    BY DEF AllStopped, history
  <1>3. /\ objects \in Seq(States) /\ Len(objects) \in Nat
        /\ channel \in 0 .. Len(objects)
        /\ request \in [Requests -> RequestRecords \cup {None}]
        /\ \A p \in Requests : request[p] # None => request[p].new \in 0 .. Len(objects)
    BY <1>1 DEF TypeInv
  <1>4. /\ objs \in Seq(States) /\ Len(objs) = Len(objects)
        /\ \A o \in 1 .. Len(objs) :
              objs[o] \in {"starting", "running"} => o # channel /\ Live(o)
    BY <1>1, <1>3, Stopping
  <1>. HIDE DEF objs
  <1>5. objects' \in Seq(States) /\ Len(objects') = Len(objects)
    BY <1>2, <1>3, <1>4
  <1>6. ChannelInv'
    <2>. SUFFICES ASSUME ~raced PROVE ChannelInv'
      BY <1>2 DEF ChannelInv
    <2>1. \A o \in 1 .. Len(objects') : ~ (objects'[o] \in {"starting", "running"})
      <3>1. CASE channel = 0
        BY <3>1, <1>1, <1>2, <1>3 DEF ChannelInv, Live
      <3>2. CASE channel # 0
        BY <3>2, <1>1, <1>2, <1>4 DEF ChannelInv
      <3>. QED BY <3>1, <3>2
    <2>2. \A o \in 1 .. Len(objects') : ~ Live(o)'
      BY <2>1 DEF Live
    <2>. QED BY <2>2, <1>1, <1>2 DEF ChannelInv
  <1>. QED BY <1>2, <1>3, <1>5, <1>6, ObjectsKeepIInv
-----------------------------------------------------------------------------
(* Sending *)

\* The message that is sent, of which the platform may have got one more.
Reached == shown' = shown \/ shown' = Append(shown, sending.message)

\* One more place shows the numbers of m.
LEMMA OneMorePlace ==
    ASSUME NEW s \in Seq(Messages), NEW m \in Messages, NEW i
    PROVE  /\ Cardinality(Places(s, i)) \in Nat
           /\ Cardinality(Places(Append(s, m), i)) =
                 IF i \in From(m) .. To(m) THEN Cardinality(Places(s, i)) + 1
                                           ELSE Cardinality(Places(s, i))
  <1>. DEFINE t == Append(s, m)
  <1>1. Len(s) \in Nat /\ Len(t) = Len(s) + 1 /\ t[Len(s) + 1] = m
        /\ \A n \in 1 .. Len(s) : t[n] = s[n]
    OBVIOUS
  <1>2. IsFiniteSet(1 .. Len(s))
    BY <1>1, FS_Interval
  <1>3. Places(s, i) \subseteq 1 .. Len(s)
    BY DEF Places
  <1>4. IsFiniteSet(Places(s, i))
    BY <1>2, <1>3, FS_Subset
  <1>. HIDE DEF t
  <1>5. Places(t, i) = IF i \in From(m) .. To(m) THEN Places(s, i) \cup {Len(s) + 1}
                                                 ELSE Places(s, i)
    <2>1. \A n \in 1 .. Len(t) : n \in 1 .. Len(s) \/ n = Len(s) + 1
      BY <1>1
    <2>2. \A n : n \in 1 .. Len(t) <=> n \in 1 .. Len(s) \/ n = Len(s) + 1
      BY <1>1
    <2>. QED BY <1>1, <2>2 DEF Places
  <1>6. Len(s) + 1 \notin Places(s, i)
    BY <1>1, <1>3
  <1>7. Cardinality(Places(s, i)) \in Nat
        /\ Cardinality(Places(s, i) \cup {Len(s) + 1}) = Cardinality(Places(s, i)) + 1
    BY <1>4, <1>6, FS_AddElement, FS_CardinalityType
  <1>. QED BY <1>5, <1>7 DEF t

\* What is shown then.
LEMMA ReachedShows ==
    ASSUME TypeInv, DeliveryInv, sending # None, Reached
    PROVE  /\ shown' \in Seq(Messages) /\ Len(shown) <= Len(shown')
           /\ \A n \in 1 .. Len(shown) : shown'[n] = shown[n]
           /\ \A n \in 1 .. Len(shown') : Piece(shown'[n], book, Taken)
           /\ \A i, j \in 1 .. Len(shown') : i < j => Before(shown'[i], shown'[j])
           /\ \A n \in 1 .. Len(shown') : Before(shown'[n], sending.message)
           /\ \A i \in 1 .. Taken : Cardinality(Places(shown', i)) <=
                 IF i >= From(sending.message) THEN sending.attempt ELSE MaxAttempts
  <1>. DEFINE m == sending.message
  <1>1. /\ Taken \in Nat /\ sending \in SendRecords /\ m \in Messages
        /\ From(m) \in Nat /\ To(m) = Taken /\ Piece(m, book, Taken)
        /\ sending.attempt \in Nat /\ MaxAttempts \in Nat
    BY Counts, ConstantsAssumption DEF DeliveryInv, SendInv
  <1>2. /\ shown \in Seq(Messages) /\ Len(shown) \in Nat
        /\ \A n \in 1 .. Len(shown) : shown[n] \in Messages
    BY DEF TypeInv
  <1>3. /\ \A n \in 1 .. Len(shown) : Piece(shown[n], book, Taken)
        /\ \A i, j \in 1 .. Len(shown) : i < j => Before(shown[i], shown[j])
        /\ \A n \in 1 .. Len(shown) : Before(shown[n], m)
    BY DEF DeliveryInv, ShownInv
  <1>4. \A i \in 1 .. Taken : Cardinality(Places(shown, i)) <=
           IF i >= From(m) THEN sending.attempt - 1 ELSE MaxAttempts
    BY DEF DeliveryInv, ShownInv, Allowed
  <1>5. \A i \in 1 .. Taken : Cardinality(Places(shown, i)) \in Nat
    BY <1>1, <1>2, OneMorePlace
  <1>. HIDE DEF m
  <1>6. CASE shown' = shown
    <2>1. \A i \in 1 .. Taken : Cardinality(Places(shown, i)) <=
             IF i >= From(m) THEN sending.attempt ELSE MaxAttempts
      BY <1>1, <1>4, <1>5
    <2>. QED BY <1>6, <1>1, <1>2, <1>3, <2>1 DEF m
  <1>7. CASE shown' = Append(shown, m)
    <2>1. /\ shown' \in Seq(Messages) /\ Len(shown') = Len(shown) + 1
          /\ shown'[Len(shown) + 1] = m
          /\ \A n \in 1 .. Len(shown) : shown'[n] = shown[n]
      BY <1>7, <1>1, <1>2
    <2>2. \A n \in 1 .. Len(shown') : n \in 1 .. Len(shown) \/ n = Len(shown) + 1
      BY <1>2, <2>1
    <2>3. Before(m, m)
      BY DEF Before
    <2>4. \A n \in 1 .. Len(shown') : Piece(shown'[n], book, Taken) /\ Before(shown'[n], m)
      BY <1>1, <1>3, <2>1, <2>2, <2>3
    <2>5. ASSUME NEW i \in 1 .. Len(shown'), NEW j \in 1 .. Len(shown'), i < j
          PROVE  Before(shown'[i], shown'[j])
      <3>1. CASE j = Len(shown) + 1
        BY <3>1, <2>1, <2>4
      <3>2. CASE j # Len(shown) + 1
        <4>1. i \in 1 .. Len(shown) /\ j \in 1 .. Len(shown)
          BY <3>2, <2>5, <1>2, <2>1
        <4>. QED BY <4>1, <2>5, <1>3, <2>1
      <3>. QED BY <3>1, <3>2
    <2>6. ASSUME NEW i \in 1 .. Taken
          PROVE  Cardinality(Places(shown', i)) <=
                    IF i >= From(m) THEN sending.attempt ELSE MaxAttempts
      <3>1. i >= From(m) <=> i \in From(m) .. To(m)
        BY <1>1
      <3>2. Cardinality(Places(shown', i)) =
               IF i \in From(m) .. To(m) THEN Cardinality(Places(shown, i)) + 1
                                         ELSE Cardinality(Places(shown, i))
        BY <1>1, <1>2, <1>7, OneMorePlace
      <3>. QED BY <3>1, <3>2, <1>1, <1>4, <1>5
    <2>7. Len(shown) <= Len(shown')
      BY <1>2, <2>1
    <2>. QED BY <2>1, <2>4, <2>5, <2>6, <2>7 DEF m
  <1>. QED BY <1>6, <1>7 DEF Reached, m

\* An end that was shown stays shown.
LEMMA EndStaysShown ==
    ASSUME NEW i \in DOMAIN fates, EndShown(i), fates'[i] = fates[i],
           Len(shown) \in Nat, Len(shown') \in Nat, Len(shown) <= Len(shown'),
           \A n \in 1 .. Len(shown) : shown'[n] = shown[n]
    PROVE  EndShown(i)'
  <1>1. CASE fates[i] \in {"given up", "unrouted", "stopped"}
    BY <1>1 DEF EndShown
  <1>2. ASSUME NEW n \in 1 .. Len(shown), shown[n].kind = "end",
               i \in Range(shown[n].ids), shown[n].closes
        PROVE  EndShown(i)'
    <2>1. n \in 1 .. Len(shown') /\ shown'[n] = shown[n]
      OBVIOUS
    <2>. QED BY <1>2, <2>1 DEF EndShown
  <1>. QED BY <1>1, <1>2 DEF EndShown

\* What was a repetition is one still.
LEMMA RepeatsStay ==
    ASSUME OnlyRepeatsDropped, book' = book, DOMAIN fates \subseteq DOMAIN fates',
           \A i \in DOMAIN fates' : fates'[i] = "repeat" => i \in DOMAIN fates /\ fates[i] = "repeat"
    PROVE  OnlyRepeatsDropped'
  BY DEF OnlyRepeatsDropped

\* Sending is over.
Finished(fate) ==
    /\ fate \in {"sent", "given up", "stopped"}
    /\ Drop(sending.message, fate)
    /\ sending' = None
    /\ fate = "sent" => \/ sending.message.kind = "streamed"
                        \/ shown' = Append(shown, sending.message)

LEMMA FinishKeepsDelivery ==
    ASSUME TypeInv, DeliveryInv, sending # None, Reached, NEW fate, Finished(fate),
           UNCHANGED <<book, queues, fingerprints>>
    PROVE  DeliveryInv' /\ shown' \in Seq(Messages)
  <1>. DEFINE m == sending.message
  <1>1. /\ Taken \in Nat /\ sending \in SendRecords /\ m \in Messages
        /\ To(m) = Taken /\ Piece(m, book, Taken)
        /\ sending.attempt \in 1 .. MaxAttempts
    BY Counts DEF DeliveryInv, SendInv
  <1>2. /\ From(m) \in Nat \ {0} /\ From(m) <= Taken /\ Range(m.ids) = From(m) .. Taken
    BY <1>1, PieceRange
  <1>3. DOMAIN fates = 1 .. (From(m) - 1)
    BY DEF DeliveryInv, SendInv, SettledTo
  <1>4. /\ DOMAIN fates' = DOMAIN fates \cup Range(m.ids)
        /\ \A i \in DOMAIN fates' : fates'[i] = IF i \in DOMAIN fates THEN fates[i] ELSE fate
    BY DEF Finished, Drop, Settled
  <1>5. book' = book /\ outbound' = outbound /\ pending' = pending
        /\ fingerprints' = fingerprints /\ Taken' = Taken /\ sending' = None
    BY DEF queues, Taken, Finished
  <1>6. /\ shown' \in Seq(Messages) /\ Len(shown) <= Len(shown')
        /\ \A n \in 1 .. Len(shown) : shown'[n] = shown[n]
        /\ \A n \in 1 .. Len(shown') : Piece(shown'[n], book, Taken)
        /\ \A i, j \in 1 .. Len(shown') : i < j => Before(shown'[i], shown'[j])
        /\ \A i \in 1 .. Taken : Cardinality(Places(shown', i)) <=
              IF i >= From(m) THEN sending.attempt ELSE MaxAttempts
    BY ReachedShows
  <1>. HIDE DEF m
  <1>7. QueueInv' /\ FingerInv'
    BY <1>5 DEF DeliveryInv, QueueInv, FingerInv
  <1>8. SendInv'
    <2>1. PICK f \in Nat \ {0} : f = From(m) /\ f <= Taken
      BY <1>2
    <2>2. 1 .. (f - 1) \cup f .. Taken = 1 .. Taken
      BY <1>1, <2>1
    <2>3. DOMAIN fates' = 1 .. Taken
      BY <1>2, <1>3, <1>4, <2>1, <2>2
    <2>. QED BY <2>3, <1>5 DEF SendInv, SettledTo
  <1>9. ShownInv'
    <2>1. \A i \in 1 .. Taken : Cardinality(Places(shown', i)) <= MaxAttempts
      <3>1. \A i \in 1 .. Taken : Cardinality(Places(shown', i)) \in Nat
        BY <1>1, <1>6, OneMorePlace
      <3>2. MaxAttempts \in Nat /\ sending.attempt \in Nat /\ sending.attempt <= MaxAttempts
        BY <1>1, ConstantsAssumption
      <3>3. \A i \in 1 .. Taken : Cardinality(Places(shown', i)) <=
               IF i >= From(m) THEN sending.attempt ELSE MaxAttempts
        BY <1>6
      <3>. QED BY <3>1, <3>2, <3>3
    <2>. QED BY <2>1, <1>5, <1>6 DEF ShownInv, Allowed
  <1>10. EndInv'
    <2>. SUFFICES ASSUME NEW i \in DOMAIN fates', book[i].kind = "end", book[i].closes
         PROVE  EndShown(i)'
      BY <1>5 DEF EndInv
    <2>1. CASE i \in DOMAIN fates
      <3>1. EndShown(i) /\ fates'[i] = fates[i]
        BY <2>1, <1>4 DEF DeliveryInv, EndInv
      <3>2. Len(shown) \in Nat /\ Len(shown') \in Nat
        <4>1. shown \in Seq(Messages) /\ shown' \in Seq(Messages)
          BY <1>6 DEF TypeInv
        <4>. QED BY <4>1
      <3>. QED BY <2>1, <3>1, <3>2, <1>6, EndStaysShown
    <2>2. CASE i \notin DOMAIN fates
      <3>1. i \in From(m) .. To(m) /\ i \in Range(m.ids) /\ fates'[i] = fate
        BY <2>2, <1>1, <1>2, <1>4
      <3>2. m.kind = "end" /\ m.closes
        BY <3>1, <1>1 DEF Piece
      <3>3. CASE fate # "sent"
        BY <3>1, <3>3 DEF EndShown, Finished
      <3>4. CASE fate = "sent"
        <4>1. shown' = Append(shown, m) /\ shown \in Seq(Messages) /\ Len(shown) \in Nat
          BY <3>2, <3>4 DEF m, TypeInv, Finished
        <4>2. Len(shown) + 1 \in 1 .. Len(shown') /\ shown'[Len(shown) + 1] = m
          BY <4>1, <1>1
        <4>. QED BY <4>2, <3>1, <3>2 DEF EndShown
      <3>. QED BY <3>3, <3>4
    <2>. QED BY <2>1, <2>2
  <1>11. OnlyRepeatsDropped'
    <2>1. \A i \in DOMAIN fates' :
             fates'[i] = "repeat" => i \in DOMAIN fates /\ fates[i] = "repeat"
      BY <1>4 DEF Finished
    <2>2. DOMAIN fates \subseteq DOMAIN fates'
      BY <1>4
    <2>. QED BY <2>1, <2>2, <1>5, RepeatsStay DEF DeliveryInv
  <1>. QED BY <1>6, <1>7, <1>8, <1>9, <1>10, <1>11 DEF DeliveryInv
LEMMA DeliveredKeepsIInv ==
    ASSUME IInv, Delivered
    PROVE  IInv'
  <1>1. TypeInv /\ DeliveryInv /\ DeltaInv /\ ChannelInv /\ sending # None
    BY DEF IInv, Delivered
  <1>2. Reached /\ Finished("sent")
    BY DEF Delivered, Reach, Reached, Finished
  <1>3. /\ UNCHANGED <<book, queues, fingerprints>> /\ UNCHANGED <<book, turnVars, leftOpen>>
        /\ UNCHANGED <<dispatcher, channelVars, raced>>
    BY DEF Delivered
  <1>4. DeliveryInv' /\ shown' \in Seq(Messages)
    BY <1>1, <1>2, <1>3, FinishKeepsDelivery
  <1>5. TypeInv'
    BY <1>1, <1>2, <1>3, <1>4 DEF TypeInv, Finished, queues, turnVars, channelVars
  <1>. QED BY <1>1, <1>3, <1>4, <1>5, DeltasStay, ChannelsStay DEF IInv

\* The next attempt.
LEMMA RetryKeepsDelivery ==
    ASSUME TypeInv, DeliveryInv, sending # None, Reached, ~Exhausted,
           sending' = [sending EXCEPT !.attempt = @ + 1],
           UNCHANGED <<book, queues, fingerprints, fates>>
    PROVE  DeliveryInv' /\ shown' \in Seq(Messages) /\ sending' \in SendRecords
  <1>1. /\ Taken \in Nat /\ sending \in SendRecords /\ sending.message \in Messages
        /\ From(sending.message) \in Nat
    BY Counts DEF DeliveryInv
  <1>2. sending.attempt \in Nat /\ sending.attempt + 1 \in 1 .. MaxAttempts
    BY ConstantsAssumption DEF DeliveryInv, SendInv, Exhausted
  <1>3. sending' \in SendRecords /\ sending'.message = sending.message
        /\ sending'.attempt = sending.attempt + 1
    BY <1>1, <1>2 DEF SendRecords
  <1>4. sending' # None
    BY <1>3, ConstantsAssumption
  <1>5. book' = book /\ outbound' = outbound /\ pending' = pending /\ fates' = fates
        /\ fingerprints' = fingerprints /\ Taken' = Taken
    BY DEF queues, Taken
  <1>6. /\ shown' \in Seq(Messages) /\ Len(shown) <= Len(shown')
        /\ \A n \in 1 .. Len(shown) : shown'[n] = shown[n]
        /\ \A n \in 1 .. Len(shown') : Piece(shown'[n], book, Taken)
        /\ \A i, j \in 1 .. Len(shown') : i < j => Before(shown'[i], shown'[j])
        /\ \A n \in 1 .. Len(shown') : Before(shown'[n], sending.message)
        /\ \A i \in 1 .. Taken : Cardinality(Places(shown', i)) <=
              IF i >= From(sending.message) THEN sending.attempt ELSE MaxAttempts
    BY ReachedShows
  <1>7. QueueInv' /\ FingerInv'
    BY <1>5 DEF DeliveryInv, QueueInv, FingerInv
  <1>8. SendInv'
    <2>1. SettledTo' = SettledTo
      BY <1>3, <1>4, <1>5 DEF SettledTo
    <2>. QED BY <2>1, <1>2, <1>3, <1>4, <1>5 DEF DeliveryInv, SendInv
  <1>9. ShownInv'
    <2>1. (sending.attempt + 1) - 1 = sending.attempt
      BY <1>2
    <2>2. \A i \in 1 .. Taken : Cardinality(Places(shown', i)) <= Allowed(i)'
      BY <2>1, <1>3, <1>4, <1>6 DEF Allowed
    <2>. QED BY <2>2, <1>3, <1>4, <1>5, <1>6 DEF ShownInv
  <1>10. EndInv'
    <2>1. Len(shown) \in Nat /\ Len(shown') \in Nat
      <3>1. shown \in Seq(Messages) /\ shown' \in Seq(Messages)
        BY <1>6 DEF TypeInv
      <3>. QED BY <3>1
    <2>2. \A i \in DOMAIN fates : EndShown(i) => EndShown(i)'
      BY <2>1, <1>5, <1>6, EndStaysShown
    <2>. QED BY <2>2, <1>5 DEF DeliveryInv, EndInv
  <1>11. OnlyRepeatsDropped'
    BY <1>5 DEF DeliveryInv, OnlyRepeatsDropped
  <1>. QED BY <1>3, <1>6, <1>7, <1>8, <1>9, <1>10, <1>11 DEF DeliveryInv

LEMMA FailedKeepsIInv ==
    ASSUME IInv, NEW retryable \in BOOLEAN, NEW reached \in BOOLEAN,
           Failed(retryable, reached)
    PROVE  IInv'
  <1>1. TypeInv /\ DeliveryInv /\ DeltaInv /\ ChannelInv /\ sending # None
    BY DEF IInv, Failed
  <1>2. Reached
    BY DEF Failed, Reach, Reached
  <1>3. /\ UNCHANGED <<book, queues, fingerprints>> /\ UNCHANGED <<book, turnVars, leftOpen>>
        /\ UNCHANGED <<dispatcher, channelVars, raced>>
    BY DEF Failed
  <1>4. DeliveryInv' /\ shown' \in Seq(Messages) /\ sending' \in SendRecords \cup {None}
    <2>1. CASE retryable /\ ~Exhausted
      <3>1. sending' = [sending EXCEPT !.attempt = @ + 1] /\ fates' = fates
        BY <2>1 DEF Failed
      <3>2. UNCHANGED <<book, queues, fingerprints, fates>>
        BY <3>1, <1>3
      <3>. QED BY <2>1, <3>1, <3>2, <1>1, <1>2, RetryKeepsDelivery
    <2>2. CASE ~ (retryable /\ ~Exhausted)
      <3>1. Finished("given up") /\ sending' = None
        BY <2>2 DEF Failed, Finished
      <3>. QED BY <3>1, <1>1, <1>2, <1>3, FinishKeepsDelivery
    <2>. QED BY <2>1, <2>2
  <1>5. TypeInv'
    BY <1>1, <1>3, <1>4 DEF TypeInv, queues, turnVars, channelVars
  <1>. QED BY <1>1, <1>3, <1>4, <1>5, DeltasStay, ChannelsStay DEF IInv

LEMMA StopAllKeepsIInv ==
    ASSUME IInv, StopAll
    PROVE  IInv'
  <1>1. TypeInv /\ DeliveryInv /\ DeltaInv /\ ChannelInv
    BY DEF IInv
  <1>2. /\ UNCHANGED <<book, queues, fingerprints>> /\ UNCHANGED <<book, turnVars, leftOpen>>
        /\ UNCHANGED <<channelVars, raced>> /\ shown' = shown /\ sending' = None
        /\ dispatcher' = "stopping"
    BY DEF StopAll, history
  <1>3. DeliveryInv'
    <2>1. CASE sending = None
      <3>1. fates' = fates
        BY <2>1 DEF StopAll
      <3>. QED BY <2>1, <3>1, <1>1, <1>2, IdleKeepsDelivery DEF sentVars
    <2>2. CASE sending # None
      <3>1. Reached /\ Finished("stopped")
        BY <2>2, <1>2 DEF StopAll, Reached, Finished
      <3>. QED BY <2>2, <3>1, <1>1, <1>2, FinishKeepsDelivery
    <2>. QED BY <2>1, <2>2
  <1>4. TypeInv'
    BY <1>1, <1>2 DEF TypeInv, queues, turnVars, channelVars
  <1>5. ChannelInv'
    BY <1>1, <1>2 DEF ChannelInv, channelVars, Live
  <1>. QED BY <1>1, <1>2, <1>3, <1>4, <1>5, DeltasStay DEF IInv
-----------------------------------------------------------------------------
(* Taking *)

Waits == pending # <<>> \/ outbound # <<>>

\* The queue as the dispatcher sees it is the rest of the book.
LEMMA View ==
    ASSUME TypeInv, QueueInv, Waits
    PROVE  /\ Taken \in Nat /\ First \in Messages /\ First = book[Taken + 1]
           /\ Taken + 1 \in 1 .. Len(book)
           /\ Queue \in Seq(Messages) /\ (Taken + 1) + Len(Queue) = Len(book)
           /\ \A i \in 1 .. Len(Queue) : Queue[i] = book[(Taken + 1) + i]
  <1>1. /\ book \in Seq(Messages) /\ outbound \in Seq(Messages) /\ pending \in Seq(Messages)
        /\ Len(book) \in Nat /\ Len(outbound) \in Nat /\ Len(pending) \in Nat
    BY DEF TypeInv
  <1>2. Taken \in Nat /\ Taken + (Len(pending) + Len(outbound)) = Len(book)
        /\ Len(pending) <= 1
    BY <1>1 DEF QueueInv, Taken
  <1>3. /\ \A j \in 1 .. Len(pending) : pending[j] = book[Taken + j]
        /\ \A j \in 1 .. Len(outbound) : outbound[j] = book[(Taken + Len(pending)) + j]
    BY DEF QueueInv
  <1>4. CASE pending # <<>>
    <2>1. First = Head(pending) /\ Queue = outbound
      BY <1>4 DEF First, Queue
    <2>2. Len(pending) = 1 /\ First = pending[1] /\ First \in Messages /\ Queue = outbound
      <3>1. Len(pending) >= 1 /\ Head(pending) = pending[1] /\ pending[1] \in Messages
        BY <1>1, <1>4
      <3>2. Len(pending) \in Nat /\ Len(pending) <= 1
        BY <1>1, <1>2
      <3>3. Len(pending) = 1
        BY <3>1, <3>2
      <3>. QED BY <2>1, <3>1, <3>3
    <2>3. First = book[Taken + 1]
      BY <1>2, <1>3, <2>2
    <2>4. \A i \in 1 .. Len(Queue) : Queue[i] = book[(Taken + 1) + i]
      BY <1>3, <2>2
    <2>5. Taken + 1 \in 1 .. Len(book) /\ (Taken + 1) + Len(Queue) = Len(book)
      BY <1>1, <1>2, <2>2
    <2>. QED BY <1>1, <1>2, <2>2, <2>3, <2>4, <2>5
  <1>5. CASE pending = <<>>
    <2>1. outbound # <<>> /\ First = Head(outbound) /\ Queue = Tail(outbound)
          /\ Len(pending) = 0
      BY <1>5 DEF First, Queue, Waits
    <2>2. /\ Len(outbound) >= 1 /\ First = outbound[1]
          /\ Queue \in Seq(Messages) /\ Len(Queue) + 1 = Len(outbound)
          /\ \A i \in 1 .. Len(Queue) : Queue[i] = outbound[i + 1]
      BY <1>1, <2>1
    <2>3. \A j \in 1 .. Len(outbound) : outbound[j] = book[Taken + j]
      BY <1>2, <1>3, <2>1
    <2>4. First = book[Taken + 1] /\ First \in Messages
      BY <1>1, <2>2, <2>3
    <2>5. ASSUME NEW i \in 1 .. Len(Queue) PROVE Queue[i] = book[(Taken + 1) + i]
      <3>1. i + 1 \in 1 .. Len(outbound) /\ Taken + (i + 1) = (Taken + 1) + i
        BY <1>1, <1>2, <2>2
      <3>. QED BY <3>1, <2>2, <2>3
    <2>6. Taken + 1 \in 1 .. Len(book) /\ (Taken + 1) + Len(Queue) = Len(book)
      BY <1>1, <1>2, <2>1, <2>2
    <2>. QED BY <1>2, <2>2, <2>4, <2>5, <2>6
  <1>. QED BY <1>4, <1>5

\* A set of numbers has a least one.
LEMMA LeastElement ==
    ASSUME NEW S \in SUBSET Nat, S # {}
    PROVE  \E x \in S : \A y \in S : x <= y
  <1>. DEFINE Less == {ss \in Nat \X Nat : ss[1] < ss[2]}
  <1>1. IsWellFoundedOn(Less, Nat)
    BY NatLessThanWellFounded, Zenon DEF OpToRel
  <1>2. PICK x \in S : \A y \in S : ~ (<<y, x>> \in Less)
    <2>. HIDE DEF Less
    <2>. QED BY <1>1, WFMin, Zenon
  <1>3. \A y \in S : x <= y
    <2>. SUFFICES ASSUME NEW y \in S, y < x PROVE FALSE
      OBVIOUS
    <2>1. <<y, x>> \in Less
      OBVIOUS
    <2>. QED BY <2>1, <1>2
  <1>. QED BY <1>3

\* Where joining stops there is one place only to stop at.
Stops(m, k) ==
    \/ k = Len(Queue)
    \/ k > 0 /\ Queue[k].kind = "end"
    \/ ~Joins(m, Queue[k + 1])

LEMMA RunStops ==
    ASSUME Queue \in Seq(Messages), NEW m
    PROVE  /\ Run(m) \in 0 .. Len(Queue) /\ Stops(m, Run(m))
           /\ \A i \in 1 .. Run(m) :
                 Joins(m, Queue[i]) /\ (i < Run(m) => Queue[i].kind = "delta")
  <1>1. Len(Queue) \in Nat
    OBVIOUS
  <1>. DEFINE S == {k \in 0 .. Len(Queue) : Stops(m, k)}
  <1>2. Len(Queue) \in S /\ S \in SUBSET Nat
    BY <1>1 DEF Stops
  <1>3. PICK k \in S : \A n \in S : k <= n
    BY <1>2, LeastElement
  <1>4. k \in 0 .. Len(Queue) /\ Stops(m, k)
        /\ \A n \in 0 .. Len(Queue) : n < k => ~Stops(m, n)
    BY <1>1, <1>3
  <1>5. ASSUME NEW i \in 1 .. k
        PROVE  Joins(m, Queue[i]) /\ (i < k => Queue[i].kind = "delta")
    <2>1. i - 1 \in 0 .. Len(Queue) /\ i - 1 < k /\ (i - 1) + 1 = i
      BY <1>1, <1>4
    <2>2. Joins(m, Queue[i])
      <3>1. ~Stops(m, i - 1)
        BY <2>1, <1>4
      <3>. QED BY <3>1, <2>1 DEF Stops
    <2>3. ASSUME i < k PROVE Queue[i].kind = "delta"
      <3>1. i \in 0 .. Len(Queue) /\ i > 0
        BY <1>1, <1>4
      <3>2. ~Stops(m, i)
        BY <3>1, <2>3, <1>4
      <3>3. Queue[i].kind # "end"
        BY <3>1, <3>2 DEF Stops
      <3>. QED BY <3>3, <2>2 DEF Joins
    <2>. QED BY <2>2, <2>3
  <1>. HIDE DEF S
  <1>6. \E n \in 0 .. Len(Queue) :
           /\ \A i \in 1 .. n : Joins(m, Queue[i]) /\ (i < n => Queue[i].kind = "delta")
           /\ Stops(m, n)
    BY <1>4, <1>5
  <1>. QED BY <1>6 DEF Run, Stops
\* What is taken from the queue when k messages join the first.
Takes(k) ==
    /\ outbound' \in Seq(Messages) /\ pending' \in Seq(Messages)
    /\ QueueInv' /\ Taken' = (Taken + 1) + k

LEMMA TakesOne ==
    ASSUME TypeInv, QueueInv, Waits, book' = book, outbound' = Queue, pending' = <<>>
    PROVE  Takes(0)
  <1>1. /\ Taken \in Nat /\ Len(book) \in Nat /\ Queue \in Seq(Messages)
        /\ (Taken + 1) + Len(Queue) = Len(book)
        /\ \A i \in 1 .. Len(Queue) : Queue[i] = book[(Taken + 1) + i]
    BY View DEF TypeInv
  <1>2. Len(pending') = 0 /\ Len(outbound') = Len(Queue) /\ Len(Queue) \in Nat
        /\ pending' \in Seq(Messages)
    BY <1>1
  <1>3. Taken' = Taken + 1
    BY <1>1, <1>2 DEF Taken
  <1>4. QueueInv'
    <2>1. \A i \in 1 .. Len(book) : book[i].ids = <<i>>
      BY DEF QueueInv
    <2>2. Len(pending') + Len(outbound') <= Len(book)
      BY <1>1, <1>2
    <2>3. (Taken + 1) + Len(pending') = Taken + 1
      BY <1>1, <1>2
    <2>. QED BY <2>1, <2>2, <2>3, <1>1, <1>2, <1>3 DEF QueueInv
  <1>. QED BY <1>1, <1>2, <1>3, <1>4 DEF Takes

LEMMA TakesSome ==
    ASSUME TypeInv, QueueInv, Waits, book' = book, NEW k \in 0 .. Len(Queue), HandBack(k)
    PROVE  Takes(k)
  <1>1. /\ Taken \in Nat /\ Len(book) \in Nat /\ Queue \in Seq(Messages)
        /\ (Taken + 1) + Len(Queue) = Len(book)
        /\ \A i \in 1 .. Len(Queue) : Queue[i] = book[(Taken + 1) + i]
    BY View DEF TypeInv
  <1>2. PICK l \in Nat : l = Len(Queue)
    BY <1>1
  <1>3. PICK n \in Nat : /\ n = k \/ (n = k + 1 /\ k < l)
                         /\ outbound' = SubSeq(Queue, n + 1, l)
                         /\ pending' = SubSeq(Queue, k + 1, n)
    <2>. DEFINE n == IF k = Len(Queue) \/ (k > 0 /\ Queue[k].kind = "end") THEN k ELSE k + 1
    <2>1. n \in Nat /\ (n = k \/ (n = k + 1 /\ k < l))
      BY <1>2
    <2>2. outbound' = SubSeq(Queue, n + 1, l) /\ pending' = SubSeq(Queue, k + 1, n)
      BY <1>2 DEF HandBack
    <2>. HIDE DEF n
    <2>. QED BY <2>1, <2>2
  <1>4. k \in Nat /\ k <= l /\ k <= n /\ n <= k + 1 /\ n <= l
    BY <1>2, <1>3
  <1>5. /\ outbound' \in Seq(Messages) /\ Len(outbound') + n = l
        /\ \A j \in 1 .. Len(outbound') : outbound'[j] = Queue[n + j]
    BY <1>1, <1>2, <1>3, <1>4
  <1>6. /\ pending' \in Seq(Messages) /\ Len(pending') + k = n
        /\ \A j \in 1 .. Len(pending') : pending'[j] = Queue[k + j]
    BY <1>1, <1>2, <1>3, <1>4
  <1>7. Len(outbound') \in Nat /\ Len(pending') \in Nat
    BY <1>5, <1>6
  <1>8. Taken' = (Taken + 1) + k
    <2>1. PICK b \in Nat : b = Len(book) /\ (Taken + 1) + l = b
      BY <1>1, <1>2
    <2>2. Taken' = b - (Len(pending') + Len(outbound'))
      BY <2>1 DEF Taken
    <2>3. PICK c \in Nat, a \in Nat : c = Len(pending') /\ a = Len(outbound')
      BY <1>7
    <2>4. c + k = n /\ a + n = l /\ Taken' = b - (c + a)
      BY <2>2, <2>3, <1>5, <1>6
    <2>5. PICK t \in Nat : t = Taken /\ (t + 1) + l = b
      BY <2>1, <1>1
    <2>. QED BY <2>4, <2>5, <1>4
  <1>9. \A j \in 1 .. Len(pending') : pending'[j] = book[Taken' + j]
    <2>. SUFFICES ASSUME NEW j \in 1 .. Len(pending') PROVE pending'[j] = book[Taken' + j]
      OBVIOUS
    <2>1. k + j \in 1 .. l /\ (Taken + 1) + (k + j) = ((Taken + 1) + k) + j
      <3>1. PICK c \in Nat : c + k = n /\ j \in 1 .. c
        BY <1>6, <1>7
      <3>. QED BY <3>1, <1>1, <1>4
    <2>. QED BY <2>1, <1>1, <1>2, <1>6, <1>8
  <1>10. \A j \in 1 .. Len(outbound') : outbound'[j] = book[(Taken' + Len(pending')) + j]
    <2>. SUFFICES ASSUME NEW j \in 1 .. Len(outbound')
         PROVE  outbound'[j] = book[(Taken' + Len(pending')) + j]
      OBVIOUS
    <2>1. n + j \in 1 .. l /\ (Taken + 1) + (n + j) = (((Taken + 1) + k) + Len(pending')) + j
      <3>1. PICK c \in Nat, a \in Nat : c = Len(pending') /\ a = Len(outbound')
        BY <1>7
      <3>2. c + k = n /\ a + n = l /\ j \in 1 .. a
        BY <3>1, <1>5, <1>6
      <3>3. (Taken + 1) + (n + j) = (((Taken + 1) + k) + c) + j /\ n + j \in 1 .. l
        BY <3>2, <1>1, <1>4
      <3>. QED BY <3>1, <3>3
    <2>. QED BY <2>1, <1>1, <1>2, <1>5, <1>8
  <1>11. Len(pending') <= 1 /\ Len(pending') + Len(outbound') <= Len(book)
    BY <1>1, <1>2, <1>4, <1>5, <1>6, <1>7
  <1>12. \A i \in 1 .. Len(book) : book[i].ids = <<i>>
    BY DEF QueueInv
  <1>. QED BY <1>5, <1>6, <1>8, <1>9, <1>10, <1>11, <1>12 DEF QueueInv, Takes
\* The numbers of a message that k others have joined.
LEMMA IdsOfJoined ==
    ASSUME TypeInv, QueueInv, Waits, NEW k \in 0 .. Len(Queue)
    PROVE  LET s == JoinedIds(First, k)
           IN /\ s \in Seq(Nat) /\ Len(s) = k + 1
              /\ \A i \in 1 .. (k + 1) : s[i] = Taken + i
  <1>1. /\ Taken \in Nat /\ First = book[Taken + 1] /\ Taken + 1 \in 1 .. Len(book)
        /\ Len(Queue) \in Nat /\ (Taken + 1) + Len(Queue) = Len(book)
        /\ \A i \in 1 .. Len(Queue) : Queue[i] = book[(Taken + 1) + i]
        /\ Len(book) \in Nat
    BY View DEF TypeInv
  <1>2. \A i \in 1 .. Len(book) : book[i].ids = <<i>>
    BY DEF QueueInv
  <1>. DEFINE rest == [i \in 1 .. k |-> Queue[i].ids[1]]
              s == First.ids \o rest
  <1>3. First.ids = <<Taken + 1>>
    BY <1>1, <1>2
  <1>4. ASSUME NEW i \in 1 .. k PROVE rest[i] = (Taken + 1) + i
    <2>1. (Taken + 1) + i \in 1 .. Len(book) /\ Queue[i] = book[(Taken + 1) + i]
      BY <1>1
    <2>2. Queue[i].ids = <<(Taken + 1) + i>>
      BY <2>1, <1>2
    <2>. QED BY <2>2
  <1>5. rest \in Seq(Nat) /\ Len(rest) = k
    <2>1. \A i \in 1 .. k : Queue[i].ids[1] \in Nat
      BY <1>1, <1>4
    <2>. QED BY <2>1, <1>1
  <1>. HIDE DEF rest
  <1>6. s \in Seq(Nat) /\ Len(s) = k + 1 /\ s[1] = Taken + 1
        /\ \A i \in 1 .. k : s[i + 1] = rest[i]
    BY <1>1, <1>3, <1>5
  <1>. HIDE DEF s
  <1>7. ASSUME NEW i \in 1 .. (k + 1) PROVE s[i] = Taken + i
    <2>1. CASE i = 1
      BY <2>1, <1>6
    <2>2. CASE i # 1
      <3>1. PICK j \in 1 .. k : i = j + 1
        <4>1. i - 1 \in 1 .. k /\ i = (i - 1) + 1
          BY <2>2, <1>1
        <4>. QED BY <4>1
      <3>2. s[i] = (Taken + 1) + j
        BY <3>1, <1>4, <1>6
      <3>. QED BY <3>1, <3>2, <1>1
    <2>. QED BY <2>1, <2>2
  <1>8. s = JoinedIds(First, k)
    BY DEF s, rest, JoinedIds
  <1>. QED BY <1>6, <1>7, <1>8

\* The message that is taken: it starts where taking stopped, and is a piece.
Whole(m, k) ==
    /\ m \in Messages /\ Piece(m, book, (Taken + 1) + k)
    /\ From(m) = Taken + 1 /\ To(m) = (Taken + 1) + k

LEMMA FirstIsWhole ==
    ASSUME TypeInv, QueueInv, Waits
    PROVE  Whole(First, 0)
  <1>1. /\ Taken \in Nat /\ First = book[Taken + 1] /\ Taken + 1 \in 1 .. Len(book)
        /\ First \in Messages
    BY View
  <1>2. First.ids = <<Taken + 1>>
    BY <1>1 DEF QueueInv
  <1>3. Len(First.ids) = 1 /\ From(First) = Taken + 1 /\ To(First) = Taken + 1
    BY <1>1, <1>2 DEF From, To
  <1>4. \A i \in From(First) .. To(First) : book[i] = First
    BY <1>1, <1>3
  <1>5. \A k \in 1 .. Len(First.ids) : First.ids[k] + 1 = From(First) + k
    BY <1>1, <1>2, <1>3
  <1>6. (Taken + 1) + 0 = Taken + 1
    BY <1>1
  <1>7. Piece(First, book, Taken + 1)
    BY <1>1, <1>3, <1>4, <1>5 DEF Piece
  <1>. QED BY <1>1, <1>3, <1>6, <1>7 DEF Whole

LEMMA JoinedIsWhole ==
    ASSUME TypeInv, QueueInv, Waits,
           NEW k, k = IF First.kind = "delta" THEN Run(First) ELSE 0
    PROVE  k \in 0 .. Len(Queue) /\ Whole(Joined(First, k), k)
  <1>1. /\ Taken \in Nat /\ First = book[Taken + 1] /\ First \in Messages
        /\ Queue \in Seq(Messages) /\ Len(Queue) \in Nat
        /\ \A i \in 1 .. Len(Queue) : Queue[i] = book[(Taken + 1) + i]
    BY View
  <1>2. /\ k \in 0 .. Len(Queue) /\ (k > 0 => First.kind = "delta")
        /\ \A i \in 1 .. k :
              Joins(First, Queue[i]) /\ (i < k => Queue[i].kind = "delta")
    <2>1. CASE First.kind = "delta"
      BY <2>1, <1>1, RunStops
    <2>2. CASE First.kind # "delta"
      BY <2>2, <1>1
    <2>. QED BY <2>1, <2>2
  <1>. DEFINE s == JoinedIds(First, k)
              last == IF k > 0 THEN Queue[k] ELSE First
              m == Joined(First, k)
  <1>3. s \in Seq(Nat) /\ Len(s) = k + 1 /\ \A i \in 1 .. (k + 1) : s[i] = Taken + i
    BY <1>2, IdsOfJoined
  <1>4. last \in Messages /\ m = [last EXCEPT !.ids = s]
    BY <1>1, <1>2 DEF Joined
  <1>. HIDE DEF s, last, m
  <1>5. m \in Messages /\ m.ids = s /\ Alike(m, last)
    BY <1>3, <1>4, WithIds
  <1>6. Len(m.ids) = k + 1 /\ From(m) = Taken + 1 /\ To(m) = (Taken + 1) + k
    <2>1. s[1] = Taken + 1 /\ s[k + 1] = Taken + (k + 1)
      <3>1. 1 \in 1 .. (k + 1) /\ k + 1 \in 1 .. (k + 1)
        BY <1>2
      <3>2. \A i \in 1 .. (k + 1) : s[i] = Taken + i
        BY <1>3
      <3>. QED BY <3>1, <3>2
    <2>2. Len(m.ids) = k + 1 /\ From(m) = s[1] /\ To(m) = s[k + 1]
      <3>1. m.ids = s /\ Len(s) = k + 1
        BY <1>3, <1>5
      <3>. QED BY <3>1, Zenon DEF From, To
    <2>3. Taken + (k + 1) = (Taken + 1) + k
      <3>1. Taken \in Nat /\ k \in Nat
        BY <1>1, <1>2
      <3>. QED BY <3>1
    <2>. QED BY <2>1, <2>2, <2>3
  <1>7. \A i \in 1 .. Len(m.ids) : m.ids[i] + 1 = From(m) + i
    <2>1. \A i \in 1 .. (k + 1) : (Taken + i) + 1 = (Taken + 1) + i
      BY <1>1, <1>2
    <2>. QED BY <2>1, <1>3, <1>5, <1>6
  <1>8. ASSUME NEW i \in From(m) .. To(m)
        PROVE  /\ book[i].chat = m.chat
               /\ m.kind \in {"delta", "end"} =>
                     book[i].kind \in {"delta", "end"} /\ book[i].stream = m.stream
               /\ m.kind = "delta" => book[i].kind = "delta"
               /\ book[i].kind = "end" => m.kind = "end" /\ m.closes = book[i].closes
    <2>1. CASE k = 0
      <3>1. i = Taken + 1 /\ last = First
        BY <2>1, <1>1, <1>6 DEF last
      <3>. QED BY <3>1, <1>1, <1>5 DEF Alike
    <2>2. CASE k # 0
      <3>1. k \in 1 .. k /\ last = Queue[k] /\ First.kind = "delta"
        BY <2>2, <1>1, <1>2 DEF last
      <3>2. /\ m.kind \in {"delta", "end"} /\ m.kind = Queue[k].kind
            /\ m.chat = First.chat /\ m.stream = First.stream
        BY <3>1, <1>2, <1>5 DEF Joins, Alike
      <3>3. CASE i = Taken + 1
        BY <3>1, <3>2, <3>3, <1>1
      <3>4. CASE i # Taken + 1
        <4>1. PICK j \in 1 .. k : i = (Taken + 1) + j
          <5>1. i - (Taken + 1) \in 1 .. k /\ i = (Taken + 1) + (i - (Taken + 1))
            BY <3>4, <1>1, <1>2, <1>6
          <5>. QED BY <5>1
        <4>2. book[i] = Queue[j]
          BY <4>1, <1>1, <1>2
        <4>3. /\ Queue[j].kind \in {"delta", "end"}
              /\ Queue[j].chat = m.chat /\ Queue[j].stream = m.stream
          BY <4>1, <3>2, <1>2 DEF Joins
        <4>4. CASE j = k
          <5>1. Queue[j].kind = "end" => m.closes = Queue[j].closes
            BY <4>4, <3>1, <3>2, <1>5 DEF Alike
          <5>. QED BY <5>1, <4>2, <4>3, <4>4, <3>2
        <4>5. CASE j # k
          <5>1. Queue[j].kind = "delta"
            BY <4>5, <4>1, <1>2
          <5>. QED BY <5>1, <4>2, <4>3
        <4>. QED BY <4>4, <4>5
      <3>. QED BY <3>3, <3>4
    <2>. QED BY <2>1, <2>2
  <1>9. Piece(m, book, (Taken + 1) + k)
    <2>1. k + 1 >= 1 /\ Taken + 1 >= 1 /\ (Taken + 1) + k <= (Taken + 1) + k
      BY <1>1, <1>2
    <2>. QED BY <2>1, <1>6, <1>7, <1>8 DEF Piece
  <1>. QED BY <1>2, <1>5, <1>6, <1>9 DEF Whole, m
\* Messages up to k after the first were taken, as m.
TakenAs(m, k) ==
    /\ k \in Nat /\ Whole(m, k) /\ Takes(k)
    /\ sending = None /\ book' = book /\ shown' = shown

LEMMA TakenGrows ==
    ASSUME TypeInv, DeliveryInv, NEW m, NEW k, TakenAs(m, k)
    PROVE  /\ Taken \in Nat /\ Taken' \in Nat /\ Taken < Taken' /\ QueueInv'
           /\ m \in Messages /\ Piece(m, book, Taken') /\ From(m) = Taken + 1 /\ To(m) = Taken'
           /\ \A n \in 1 .. Len(shown) : Piece(shown[n], book, Taken')
           /\ \A key \in DOMAIN fingerprints : Source(key, fingerprints[key], book, Taken')
           /\ DOMAIN fates = 1 .. Taken
  <1>1. Taken \in Nat /\ Taken' = (Taken + 1) + k /\ k \in Nat /\ QueueInv'
    BY Counts DEF TakenAs, Takes, DeliveryInv
  <1>2. Taken' \in Nat /\ Taken < Taken'
    BY <1>1
  <1>3. ASSUME NEW n \in 1 .. Len(shown) PROVE Piece(shown[n], book, Taken')
    <2>1. Piece(shown[n], book, Taken) /\ shown[n] \in Messages
      BY DEF DeliveryInv, ShownInv, TypeInv
    <2>. QED BY <2>1, <1>1, <1>2, PieceStays
  <1>4. ASSUME NEW key \in DOMAIN fingerprints
        PROVE  Source(key, fingerprints[key], book, Taken')
    <2>1. Source(key, fingerprints[key], book, Taken)
      BY DEF DeliveryInv, FingerInv
    <2>. QED BY <2>1, <1>1, <1>2, SourceStays
  <1>5. DOMAIN fates = 1 .. Taken
    BY DEF TakenAs, DeliveryInv, SendInv, SettledTo
  <1>6. m \in Messages /\ Piece(m, book, Taken') /\ From(m) = Taken + 1 /\ To(m) = Taken'
    BY <1>1 DEF TakenAs, Whole
  <1>. QED BY <1>1, <1>2, <1>3, <1>4, <1>5, <1>6

\* What was shown comes before what is taken now, and shows nothing of it.
LEMMA ShownBefore ==
    ASSUME TypeInv, DeliveryInv, NEW m, NEW k, TakenAs(m, k)
    PROVE  /\ \A n \in 1 .. Len(shown) : Before(shown[n], m)
           /\ \A i \in 1 .. Taken' :
                 Cardinality(Places(shown, i)) <= IF i > Taken THEN 0 ELSE MaxAttempts
  <1>1. /\ Taken \in Nat /\ Taken' \in Nat /\ Taken < Taken' /\ From(m) = Taken + 1
    BY TakenGrows
  <1>2. ASSUME NEW n \in 1 .. Len(shown)
        PROVE  To(shown[n]) \in Nat /\ From(shown[n]) \in Nat /\ To(shown[n]) <= Taken
    <2>1. Piece(shown[n], book, Taken) /\ shown[n] \in Messages
      BY DEF DeliveryInv, ShownInv, TypeInv
    <2>. QED BY <2>1, <1>1, PieceRange
  <1>3. \A n \in 1 .. Len(shown) : Before(shown[n], m)
    BY <1>1, <1>2 DEF Before
  <1>4. ASSUME NEW i \in 1 .. Taken', i > Taken PROVE Cardinality(Places(shown, i)) = 0
    <2>1. \A n \in 1 .. Len(shown) : i \notin From(shown[n]) .. To(shown[n])
      BY <1>1, <1>2, <1>4
    <2>2. Places(shown, i) = {}
      BY <2>1 DEF Places
    <2>. QED BY <2>2, FS_EmptySet
  <1>5. ASSUME NEW i \in 1 .. Taken', ~ (i > Taken)
        PROVE  Cardinality(Places(shown, i)) <= MaxAttempts
    <2>1. i \in 1 .. Taken
      BY <1>1, <1>5
    <2>. QED BY <2>1 DEF DeliveryInv, ShownInv, Allowed, TakenAs
  <1>. QED BY <1>1, <1>3, <1>4, <1>5

LEMMA SendKeepsDelivery ==
    ASSUME TypeInv, DeliveryInv, NEW m, NEW k, TakenAs(m, k), Send(m),
           FingerInv', UNCHANGED fates
    PROVE  DeliveryInv' /\ sending' \in SendRecords
  <1>1. /\ Taken \in Nat /\ Taken' \in Nat /\ Taken < Taken' /\ QueueInv'
        /\ m \in Messages /\ Piece(m, book, Taken') /\ From(m) = Taken + 1 /\ To(m) = Taken'
        /\ \A n \in 1 .. Len(shown) : Piece(shown[n], book, Taken')
        /\ DOMAIN fates = 1 .. Taken
    BY TakenGrows
  <1>2. /\ sending' = [message |-> m, object |-> channel, attempt |-> 1]
        /\ channel \in Nat
    BY DEF Send, TypeInv
  <1>3. sending' \in SendRecords /\ sending'.message = m /\ sending'.attempt = 1
    BY <1>1, <1>2 DEF SendRecords
  <1>4. sending' # None
    BY <1>3, ConstantsAssumption
  <1>5. book' = book /\ shown' = shown /\ fates' = fates
    BY DEF TakenAs
  <1>6. SendInv'
    <2>1. SettledTo' = Taken
      <3>1. SettledTo' = From(m) - 1
        BY <1>3, <1>4 DEF SettledTo
      <3>. QED BY <3>1, <1>1
    <2>2. 1 \in 1 .. MaxAttempts
      BY ConstantsAssumption
    <2>. QED BY <2>1, <2>2, <1>1, <1>3, <1>4, <1>5 DEF SendInv
  <1>7. ShownInv'
    <2>1. /\ \A n \in 1 .. Len(shown) : Before(shown[n], m)
          /\ \A i \in 1 .. Taken' :
                Cardinality(Places(shown, i)) <= IF i > Taken THEN 0 ELSE MaxAttempts
      BY ShownBefore
    <2>2. ASSUME NEW i \in 1 .. Taken' PROVE Cardinality(Places(shown', i)) <= Allowed(i)'
      <3>1. i > Taken <=> i >= From(m)
        BY <1>1
      <3>2. Allowed(i)' = IF i >= From(m) THEN 1 - 1 ELSE MaxAttempts
        BY <1>3, <1>4 DEF Allowed
      <3>. QED BY <3>1, <3>2, <2>1, <1>5
    <2>3. \A i, j \in 1 .. Len(shown) : i < j => Before(shown[i], shown[j])
      BY DEF DeliveryInv, ShownInv
    <2>. QED BY <2>1, <2>2, <2>3, <1>1, <1>3, <1>4, <1>5 DEF ShownInv
  <1>8. EndInv'
    BY <1>5 DEF DeliveryInv, EndInv, EndShown
  <1>9. OnlyRepeatsDropped'
    BY <1>5 DEF DeliveryInv, OnlyRepeatsDropped
  <1>. QED BY <1>1, <1>3, <1>6, <1>7, <1>8, <1>9 DEF DeliveryInv

\* The message i repeats one that was taken.
Repeats(i) == \E j \in 1 .. (i - 1) :
    /\ book[j].kind = "reply" /\ book[j].chat = book[i].chat
    /\ book[j].text = book[i].text
    /\ book[i].origin \in {book[j].by, book[j].origin}

\* Dropping m with this fate is right.
Dropped(m, fate) ==
    /\ Drop(m, fate)
    /\ fate = "repeat" => \A i \in From(m) .. To(m) : Repeats(i)
    /\ fate # "unrouted" => m.kind # "end"

LEMMA DropKeepsDelivery ==
    ASSUME TypeInv, DeliveryInv, NEW m, NEW k, TakenAs(m, k), NEW fate, Dropped(m, fate),
           FingerInv', UNCHANGED sending
    PROVE  DeliveryInv'
  <1>1. /\ Taken \in Nat /\ Taken' \in Nat /\ Taken < Taken' /\ QueueInv'
        /\ m \in Messages /\ Piece(m, book, Taken') /\ From(m) = Taken + 1 /\ To(m) = Taken'
        /\ \A n \in 1 .. Len(shown) : Piece(shown[n], book, Taken')
        /\ DOMAIN fates = 1 .. Taken
    BY TakenGrows
  <1>2. book' = book /\ shown' = shown /\ sending' = None /\ sending = None
    BY DEF TakenAs
  <1>3. Range(m.ids) = From(m) .. To(m)
    BY <1>1, PieceRange
  <1>4. /\ DOMAIN fates' = DOMAIN fates \cup Range(m.ids)
        /\ \A i \in DOMAIN fates' : fates'[i] = IF i \in DOMAIN fates THEN fates[i] ELSE fate
    BY DEF Dropped, Drop, Settled
  <1>5. DOMAIN fates' = 1 .. Taken'
    <2>1. 1 .. Taken \cup ((Taken + 1) .. Taken') = 1 .. Taken'
      BY <1>1
    <2>. QED BY <2>1, <1>1, <1>3, <1>4
  <1>6. SendInv'
    BY <1>2, <1>5 DEF SendInv, SettledTo
  <1>7. ShownInv'
    <2>1. \A i \in 1 .. Taken' :
             Cardinality(Places(shown, i)) <= IF i > Taken THEN 0 ELSE MaxAttempts
      BY ShownBefore
    <2>2. \A i \in 1 .. Taken' : Cardinality(Places(shown, i)) <= MaxAttempts
      <3>1. \A i \in 1 .. Taken' : Cardinality(Places(shown, i)) \in Nat
        BY OneMorePlace, <1>1 DEF TypeInv
      <3>. QED BY <3>1, <2>1, ConstantsAssumption
    <2>3. \A i, j \in 1 .. Len(shown) : i < j => Before(shown[i], shown[j])
      BY DEF DeliveryInv, ShownInv
    <2>. QED BY <2>2, <2>3, <1>1, <1>2 DEF ShownInv, Allowed
  <1>8. EndInv'
    <2>. SUFFICES ASSUME NEW i \in DOMAIN fates', book[i].kind = "end", book[i].closes
         PROVE  EndShown(i)'
      BY <1>2 DEF EndInv
    <2>1. CASE i \in DOMAIN fates
      <3>1. EndShown(i) /\ fates'[i] = fates[i]
        BY <2>1, <1>4 DEF DeliveryInv, EndInv
      <3>. QED BY <3>1, <1>2 DEF EndShown
    <2>2. CASE i \notin DOMAIN fates
      <3>1. i \in From(m) .. To(m) /\ fates'[i] = fate
        BY <2>2, <1>3, <1>4
      <3>2. m.kind = "end"
        BY <3>1, <1>1 DEF Piece
      <3>. QED BY <3>1, <3>2 DEF Dropped, EndShown
    <2>. QED BY <2>1, <2>2
  <1>9. OnlyRepeatsDropped'
    <2>. SUFFICES ASSUME NEW i \in DOMAIN fates', fates'[i] = "repeat"
         PROVE  \E j \in 1 .. (i - 1) :
                  /\ book[j].kind = "reply" /\ book[j].chat = book[i].chat
                  /\ book[j].text = book[i].text
                  /\ book[i].origin \in {book[j].by, book[j].origin}
                  /\ j \in DOMAIN fates'
      BY <1>2 DEF OnlyRepeatsDropped
    <2>1. Repeats(i)
      <3>1. CASE i \in DOMAIN fates
        <4>1. fates[i] = "repeat"
          BY <3>1, <1>4
        <4>. QED BY <3>1, <4>1 DEF DeliveryInv, OnlyRepeatsDropped, Repeats
      <3>2. CASE i \notin DOMAIN fates
        <4>1. i \in From(m) .. To(m) /\ fate = "repeat"
          BY <3>2, <1>3, <1>4
        <4>. QED BY <4>1 DEF Dropped
      <3>. QED BY <3>1, <3>2
    <2>2. \A j \in 1 .. (i - 1) : j \in DOMAIN fates'
      BY <1>1, <1>5
    <2>. QED BY <2>1, <2>2 DEF Repeats
  <1>. QED BY <1>1, <1>6, <1>7, <1>8, <1>9 DEF DeliveryInv
\* The fingerprints still have their replies.
LEMMA FingersStay ==
    ASSUME TypeInv, DeliveryInv, NEW m, NEW k, TakenAs(m, k), UNCHANGED fingerprints
    PROVE  FingerInv'
  <1>1. /\ book' = book
        /\ \A key \in DOMAIN fingerprints : Source(key, fingerprints[key], book, Taken')
    BY TakenGrows DEF TakenAs
  <1>. QED BY <1>1 DEF FingerInv

LEMMA ReplyRemembered ==
    ASSUME TypeInv, DeliveryInv, NEW m, NEW k, TakenAs(m, k), m.kind = "reply",
           book[Taken + 1] = m, fingerprints' = Remembered(m)
    PROVE  FingerInv'
  <1>1. /\ Taken \in Nat /\ Taken' \in Nat /\ Taken < Taken' /\ book' = book
        /\ \A key \in DOMAIN fingerprints : Source(key, fingerprints[key], book, Taken')
    BY TakenGrows DEF TakenAs
  <1>2. /\ DOMAIN fingerprints' = DOMAIN fingerprints \cup {Key(m)}
        /\ \A key \in DOMAIN fingerprints' :
              fingerprints'[key] = IF key = Key(m) THEN m.text ELSE fingerprints[key]
    BY DEF Remembered, Key
  <1>3. Source(Key(m), m.text, book, Taken')
    <2>1. Taken + 1 \in 1 .. Taken'
      BY <1>1
    <2>. QED BY <2>1 DEF Source
  <1>4. ASSUME NEW key \in DOMAIN fingerprints'
        PROVE  Source(key, fingerprints'[key], book, Taken')
    BY <1>1, <1>2, <1>3
  <1>. QED BY <1>1, <1>4 DEF FingerInv

\* A reply whose fingerprint is known repeats the reply it comes from.
LEMMA KnownRepeats ==
    ASSUME TypeInv, DeliveryInv, NEW m, NEW k, TakenAs(m, k), book[Taken + 1] = m,
           IsRepeat(m)
    PROVE  Repeats(Taken + 1)
  <1>1. Taken \in Nat
    BY TakenGrows
  <1>2. Source(<<m.chat, m.origin>>, m.text, book, Taken)
    BY DEF IsRepeat, DeliveryInv, FingerInv
  <1>3. PICK j \in 1 .. Taken :
           book[j].kind = "reply" /\ <<m.chat, m.origin>> = Key(book[j]) /\ m.text = book[j].text
    BY <1>2 DEF Source
  <1>4. m.chat = book[j].chat /\ m.origin \in {book[j].by, book[j].origin}
    BY <1>3 DEF Key
  <1>5. j \in 1 .. ((Taken + 1) - 1)
    BY <1>1
  <1>. QED BY <1>3, <1>4, <1>5 DEF Repeats

LEMMA TakeKeepsIInv ==
    ASSUME IInv, Take
    PROVE  IInv'
  <1>. DEFINE k == IF First.kind = "delta" THEN Run(First) ELSE 0
  <1>1. TypeInv /\ DeliveryInv /\ DeltaInv /\ ChannelInv /\ QueueInv
    BY DEF IInv, DeliveryInv
  <1>2. /\ Waits /\ sending = None /\ book' = book /\ shown' = shown
        /\ UNCHANGED <<book, turnVars, leftOpen>> /\ UNCHANGED <<dispatcher, channelVars, raced>>
        /\ IF First.kind = "delta" THEN HandBack(k) ELSE outbound' = Queue /\ pending' = <<>>
        /\ \/ /\ Hidden(First)
              /\ Drop(First, "hidden") /\ UNCHANGED <<sending, fingerprints>>
           \/ /\ ~Hidden(First) /\ channel = 0
              /\ Drop(Joined(First, k), "unrouted") /\ UNCHANGED <<sending, fingerprints>>
           \/ /\ channel # 0 /\ First.kind = "reply"
              /\ TakeReply(First)
           \/ /\ ~Hidden(First) /\ channel # 0 /\ First.kind # "reply"
              /\ Send(Joined(First, k)) /\ UNCHANGED <<fingerprints, fates>>
    BY DEF Take, Waits, history
  <1>3. First = book[Taken + 1] /\ First \in Messages /\ Taken \in Nat
    BY <1>1, <1>2, View
  <1>4. k \in 0 .. Len(Queue) /\ Whole(Joined(First, k), k)
    BY <1>1, <1>2, JoinedIsWhole
  <1>5. First.kind # "delta" => k = 0
    OBVIOUS
  <1>. HIDE DEF k
  <1>6. Takes(k)
    <2>1. CASE First.kind = "delta"
      BY <2>1, <1>1, <1>2, <1>4, TakesSome
    <2>2. CASE First.kind # "delta"
      BY <2>2, <1>1, <1>2, <1>5, TakesOne
    <2>. QED BY <2>1, <2>2
  <1>7. k \in Nat /\ TakenAs(Joined(First, k), k)
    BY <1>2, <1>4, <1>6 DEF TakenAs
  <1>8. k = 0 => TakenAs(First, k)
    BY <1>1, <1>2, <1>6, <1>7, FirstIsWhole DEF TakenAs
  <1>9. DeliveryInv' /\ sending' \in SendRecords \cup {None}
    <2>1. ASSUME Hidden(First), Drop(First, "hidden"), UNCHANGED <<sending, fingerprints>>
          PROVE  DeliveryInv' /\ sending' \in SendRecords \cup {None}
      <3>1. TakenAs(First, k)
        BY <2>1, <1>5, <1>8 DEF Hidden
      <3>2. Dropped(First, "hidden")
        BY <2>1 DEF Dropped, Hidden
      <3>3. FingerInv'
        BY <2>1, <3>1, <1>1, FingersStay
      <3>. QED BY <2>1, <3>1, <3>2, <3>3, <1>1, <1>2, DropKeepsDelivery
    <2>2. ASSUME Drop(Joined(First, k), "unrouted"), UNCHANGED <<sending, fingerprints>>
          PROVE  DeliveryInv' /\ sending' \in SendRecords \cup {None}
      <3>1. Dropped(Joined(First, k), "unrouted")
        BY <2>2 DEF Dropped
      <3>2. FingerInv'
        BY <2>2, <1>1, <1>7, FingersStay
      <3>. QED BY <2>2, <3>1, <3>2, <1>1, <1>2, <1>7, DropKeepsDelivery
    <2>3. ASSUME First.kind = "reply", TakeReply(First)
          PROVE  DeliveryInv' /\ sending' \in SendRecords \cup {None}
      <3>1. TakenAs(First, k) /\ book[Taken + 1] = First
        BY <2>3, <1>3, <1>5, <1>8
      <3>2. CASE IsRepeat(First)
        <4>1. Drop(First, "repeat") /\ UNCHANGED <<sending, fingerprints>>
          BY <2>3, <3>2 DEF TakeReply
        <4>2. Repeats(Taken + 1)
          BY <3>1, <3>2, <1>1, KnownRepeats
        <4>3. From(First) = Taken + 1 /\ To(First) = Taken + 1
          <5>1. Whole(First, 0) /\ (Taken + 1) + 0 = Taken + 1
            BY <1>1, <1>2, <1>3, FirstIsWhole
          <5>. QED BY <5>1 DEF Whole
        <4>4. \A i \in From(First) .. To(First) : Repeats(i)
          BY <4>2, <4>3, <1>3
        <4>5. Dropped(First, "repeat")
          BY <2>3, <4>1, <4>4 DEF Dropped
        <4>6. FingerInv'
          BY <3>1, <4>1, <1>1, FingersStay
        <4>. QED BY <3>1, <4>1, <4>5, <4>6, <1>1, <1>2, DropKeepsDelivery
      <3>3. CASE ~IsRepeat(First)
        <4>1. Send(First) /\ fingerprints' = Remembered(First) /\ UNCHANGED fates
          BY <2>3, <3>3 DEF TakeReply
        <4>2. FingerInv'
          BY <2>3, <3>1, <4>1, <1>1, ReplyRemembered
        <4>. QED BY <3>1, <4>1, <4>2, <1>1, SendKeepsDelivery
      <3>. QED BY <3>2, <3>3
    <2>4. ASSUME Send(Joined(First, k)), UNCHANGED <<fingerprints, fates>>
          PROVE  DeliveryInv' /\ sending' \in SendRecords \cup {None}
      <3>1. FingerInv'
        BY <2>4, <1>1, <1>7, FingersStay
      <3>. QED BY <2>4, <3>1, <1>1, <1>7, SendKeepsDelivery
    <2>. QED BY <2>1, <2>2, <2>3, <2>4, <1>2
  <1>10. outbound' \in Seq(Messages) /\ pending' \in Seq(Messages)
    BY <1>6 DEF Takes
  <1>11. TypeInv'
    BY <1>1, <1>2, <1>9, <1>10 DEF TypeInv, turnVars, channelVars
  <1>. QED BY <1>1, <1>2, <1>9, <1>11, DeltasStay, ChannelsStay DEF IInv
-----------------------------------------------------------------------------
(* The theorems *)

LEMMA InitIInv ==
    ASSUME Init
    PROVE  IInv
  <1>1. /\ book = <<>> /\ outbound = <<>> /\ pending = <<>> /\ shown = <<>> /\ fates = <<>>
        /\ fingerprints = <<>> /\ sending = None /\ dispatcher = "on" /\ objects = <<"running">>
        /\ channel = 1 /\ task = 1 /\ turns = [c \in Chats |-> None]
        /\ source = [c \in Chats |-> 0] /\ request = [r \in Requests |-> None]
    BY DEF Init
  <1>2. Len(book) = 0 /\ Len(outbound) = 0 /\ Len(pending) = 0 /\ Len(shown) = 0
        /\ Len(objects) = 1 /\ objects \in Seq(States)
    BY <1>1 DEF States
  <1>3. Taken = 0 /\ SettledTo = 0 /\ DOMAIN fates = {} /\ DOMAIN fingerprints = {}
        /\ 1 .. 0 = {}
    <2>1. Taken = 0
      BY <1>2 DEF Taken
    <2>2. SettledTo = 0
      BY <2>1, <1>1 DEF SettledTo
    <2>3. DOMAIN fates = {} /\ DOMAIN fingerprints = {}
      BY <1>1
    <2>. QED BY <2>1, <2>2, <2>3
  <1>4. TypeInv
    BY <1>1, <1>2 DEF TypeInv
  <1>5. QueueInv /\ SendInv /\ FingerInv
    BY <1>1, <1>2, <1>3 DEF QueueInv, SendInv, FingerInv
  <1>6. ShownInv /\ EndInv /\ OnlyRepeatsDropped
    BY <1>1, <1>2, <1>3 DEF ShownInv, EndInv, OnlyRepeatsDropped
  <1>7. DeltaInv
    BY <1>2 DEF DeltaInv
  <1>8. ChannelInv
    <2>1. \A o \in 1 .. Len(objects) : o = channel
      BY <1>1, <1>2
    <2>. QED BY <2>1, <1>1 DEF ChannelInv
  <1>. QED BY <1>4, <1>5, <1>6, <1>7, <1>8 DEF IInv, DeliveryInv

LEMMA NextKeepsIInv ==
    ASSUME IInv, [Next]_vars
    PROVE  IInv'
  <1>1. CASE Turns
    <2>. PICK c \in Chats :
           \/ Begin(c)
           \/ StreamDelta(c)
           \/ \E merge, tail \in BOOLEAN : StreamEnded(c, merge, tail)
           \/ \E visible \in BOOLEAN : Notice(c, visible)
           \/ \E text \in Texts : ToolMessage(c, text) \/ Complete(c, text)
                                  \/ Background(c, text)
           \/ Fail(c) \/ Abort(c)
      BY <1>1 DEF Turns
    <2>1. CASE Begin(c)
      BY <2>1, BeginKeepsIInv
    <2>2. CASE StreamDelta(c)
      BY <2>2, StreamDeltaKeepsIInv
    <2>3. CASE \E merge, tail \in BOOLEAN : StreamEnded(c, merge, tail)
      BY <2>3, StreamEndedKeepsIInv
    <2>4. CASE \/ \E visible \in BOOLEAN : Notice(c, visible)
               \/ \E text \in Texts : ToolMessage(c, text) \/ Background(c, text)
      BY <2>4, SpokenKeepsIInv
    <2>5. CASE (\E text \in Texts : Complete(c, text)) \/ Fail(c)
      BY <2>5, EndingKeepsIInv
    <2>6. CASE Abort(c)
      BY <2>6, AbortKeepsIInv
    <2>. QED BY <2>1, <2>2, <2>3, <2>4, <2>5, <2>6
  <1>2. CASE Take
    BY <1>2, TakeKeepsIInv
  <1>3. CASE Sends
    BY <1>3, DeliveredKeepsIInv, FailedKeepsIInv DEF Sends
  <1>4. CASE Channels
    BY <1>4, StopAllKeepsIInv, AllStoppedKeepsIInv, StartedKeepsIInv, AppliedKeepsIInv,
       ApplyKeepsIInv DEF Channels
  <1>5. CASE UNCHANGED vars
    <2>1. UNCHANGED <<turnVars, dispatchVars, book, history>>
          /\ UNCHANGED <<dispatcher, channelVars, raced>>
      BY <1>5 DEF vars, turnVars, dispatchVars, history, channelVars
    <2>2. TypeInv /\ ChannelInv
      BY DEF IInv
    <2>3. ChannelInv'
      BY <2>1, <2>2, ChannelsStay
    <2>4. dispatcher' = dispatcher /\ objects' = objects /\ channel' = channel
          /\ task' = task /\ request' = request
      BY <1>5 DEF vars
    <2>. QED BY <2>1, <2>2, <2>3, <2>4, ObjectsKeepIInv DEF TypeInv
  <1>. QED BY <1>1, <1>2, <1>3, <1>4, <1>5 DEF Next

\* The strengthening from which the theorems below follow.
THEOREM Invariant == Spec => []IInv
  BY InitIInv, NextKeepsIInv, PTL DEF Spec

\* Whatever is published waits in one place or has one fate.
LEMMA PlacesApart ==
    ASSUME IInv
    PROVE  NothingLost
  <1>1. TypeInv /\ QueueInv /\ SendInv
    BY DEF IInv, DeliveryInv
  <1>2. /\ Taken \in Nat /\ Taken <= Len(book) /\ Len(book) \in Nat
        /\ Len(outbound) \in Nat /\ Len(pending) \in Nat
    BY <1>1, Counts DEF TypeInv
  <1>3. PICK b \in Nat, o \in Nat, p \in Nat, t \in Nat :
           /\ b = Len(book) /\ o = Len(outbound) /\ p = Len(pending) /\ t = Taken
           /\ t + (p + o) = b
    <2>1. Taken + (Len(pending) + Len(outbound)) = Len(book)
      BY <1>2 DEF Taken
    <2>. QED BY <2>1, <1>2
  <1>4. Range(outbound) = {outbound[j] : j \in 1 .. o}
        /\ Range(pending) = {pending[j] : j \in 1 .. p}
    <2>1. DOMAIN outbound = 1 .. o /\ DOMAIN pending = 1 .. p
      BY <1>1, <1>3 DEF TypeInv
    <2>. QED BY <2>1 DEF Range
  <1>5. \A i \in 1 .. b : Range(book[i].ids) = {i}
    BY <1>1, <1>3 DEF QueueInv, Range
  <1>6. ASSUME NEW i \in WaitingIds PROVE i \in (t + 1) .. b
    <2>1. PICK m \in Range(outbound) \cup Range(pending) : i \in Range(m.ids)
      BY <1>6 DEF WaitingIds
    <2>2. PICK j \in 1 .. (p + o) : m = book[t + j]
      <3>1. ASSUME NEW j \in 1 .. p PROVE j \in 1 .. (p + o) /\ pending[j] = book[t + j]
        BY <1>1, <1>3 DEF QueueInv
      <3>2. ASSUME NEW j \in 1 .. o
            PROVE  p + j \in 1 .. (p + o) /\ outbound[j] = book[t + (p + j)]
        <4>1. outbound[j] = book[(t + p) + j] /\ (t + p) + j = t + (p + j)
          BY <1>1, <1>3 DEF QueueInv
        <4>. QED BY <4>1
      <3>3. CASE m \in Range(pending)
        BY <3>1, <3>3, <1>4
      <3>4. CASE m \in Range(outbound)
        BY <3>2, <3>4, <1>4
      <3>. QED BY <3>3, <3>4
    <2>3. t + j \in 1 .. b
      BY <1>3
    <2>4. i = t + j
      BY <2>1, <2>2, <2>3, <1>5
    <2>. QED BY <2>4, <1>3
  <1>7. ASSUME NEW i \in (t + 1) .. b PROVE i \in WaitingIds
    <2>1. i \in 1 .. b /\ i \in Range(book[i].ids)
      <3>1. i \in 1 .. b
        BY <1>3
      <3>. QED BY <3>1, <1>5
    <2>2. CASE i <= t + p
      <3>1. i - t \in 1 .. p /\ t + (i - t) = i
        BY <2>2, <1>3
      <3>2. pending[i - t] = book[i]
        BY <3>1, <1>1, <1>3 DEF QueueInv
      <3>3. book[i] \in Range(pending)
        BY <3>1, <3>2, <1>4
      <3>. QED BY <3>3, <2>1 DEF WaitingIds
    <2>3. CASE ~ (i <= t + p)
      <3>1. i - (t + p) \in 1 .. o /\ (t + p) + (i - (t + p)) = i
        BY <2>3, <1>3
      <3>2. outbound[i - (t + p)] = book[i]
        BY <3>1, <1>1, <1>3 DEF QueueInv
      <3>3. book[i] \in Range(outbound)
        BY <3>1, <3>2, <1>4
      <3>. QED BY <3>3, <2>1 DEF WaitingIds
    <2>. QED BY <2>2, <2>3
  <1>8. WaitingIds = (t + 1) .. b
    BY <1>6, <1>7
  <1>9. CASE sending = None
    <2>1. SendingIds = {} /\ DOMAIN fates = 1 .. t
      BY <1>1, <1>3, <1>9 DEF SendingIds, SendInv, SettledTo
    <2>2. 1 .. b = ((t + 1) .. b) \cup 1 .. t /\ ((t + 1) .. b) \cap 1 .. t = {}
      BY <1>3
    <2>. QED BY <2>1, <2>2, <1>3, <1>8 DEF NothingLost
  <1>10. CASE sending # None
    <2>1. /\ sending.message \in Messages /\ Piece(sending.message, book, t)
          /\ To(sending.message) = t
      BY <1>1, <1>3, <1>10, Counts DEF SendInv
    <2>2. PICK f \in Nat \ {0} : f = From(sending.message) /\ f <= t
      BY <1>3, <2>1, PieceRange
    <2>3. SendingIds = f .. t
      BY <1>3, <1>10, <2>1, <2>2, PieceRange DEF SendingIds
    <2>4. DOMAIN fates = 1 .. (f - 1)
      BY <1>1, <1>10, <2>2 DEF SendInv, SettledTo
    <2>5. /\ 1 .. b = ((t + 1) .. b) \cup (f .. t) \cup (1 .. (f - 1))
          /\ ((t + 1) .. b) \cap ((f .. t) \cup (1 .. (f - 1))) = {}
          /\ (f .. t) \cap (1 .. (f - 1)) = {}
      BY <1>3, <2>2
    <2>. QED BY <2>3, <2>4, <2>5, <1>3, <1>8 DEF NothingLost
  <1>. QED BY <1>9, <1>10

\* What became of a message: FatesRight is about the coalescing buffer, the
\* fingerprints of replies, and the end of every attempt to send.
THEOREM FatesAreRight == Spec => []FatesRight
  <1>1. IInv => FatesRight
    BY PlacesApart DEF IInv, DeliveryInv, FatesRight
  <1>. QED BY <1>1, Invariant, PTL

LEMMA TypesHold ==
    ASSUME IInv
    PROVE  TypeOK
  <1>1. TypeInv /\ QueueInv /\ SendInv
    BY DEF IInv, DeliveryInv
  <1>2. /\ SettledTo \in Nat /\ SettledTo <= Len(book) /\ Len(book) \in Nat
    BY <1>1, Counts
  <1>3. DOMAIN fates \subseteq 1 .. Len(book)
    <2>1. DOMAIN fates = 1 .. SettledTo
      BY <1>1 DEF SendInv
    <2>. QED BY <2>1, <1>2
  <1>4. Len(pending) <= 1 /\ (sending # None => sending.attempt \in 1 .. MaxAttempts)
    BY <1>1 DEF QueueInv, SendInv
  <1>5. \A o \in 1 .. Len(objects) : objects[o] \in States
    BY <1>1 DEF TypeInv
  <1>. QED BY <1>1, <1>3, <1>4, <1>5 DEF TypeOK, TypeInv, States

\* What is shown are pieces of the book, in order.
LEMMA ShownPieces ==
    ASSUME IInv
    PROVE  /\ Taken \in Nat /\ Taken <= Len(book) /\ Len(book) \in Nat
           /\ \A n \in 1 .. Len(shown) :
                 /\ shown[n] \in Messages /\ Piece(shown[n], book, Taken)
                 /\ Head(shown[n].ids) = From(shown[n]) /\ Last(shown[n].ids) = To(shown[n])
                 /\ Range(shown[n].ids) = From(shown[n]) .. To(shown[n])
                 /\ From(shown[n]) \in 1 .. Taken /\ To(shown[n]) \in 1 .. Taken
                 /\ From(shown[n]) <= To(shown[n])
           /\ Range(shown) = {shown[n] : n \in 1 .. Len(shown)}
  <1>1. TypeInv /\ QueueInv /\ SendInv /\ ShownInv
    BY DEF IInv, DeliveryInv
  <1>2. Taken \in Nat /\ Taken <= Len(book) /\ Len(book) \in Nat
    BY <1>1, Counts
  <1>3. ASSUME NEW n \in 1 .. Len(shown)
        PROVE  /\ shown[n] \in Messages /\ Piece(shown[n], book, Taken)
               /\ Head(shown[n].ids) = From(shown[n]) /\ Last(shown[n].ids) = To(shown[n])
               /\ Range(shown[n].ids) = From(shown[n]) .. To(shown[n])
               /\ From(shown[n]) \in 1 .. Taken /\ To(shown[n]) \in 1 .. Taken
               /\ From(shown[n]) <= To(shown[n])
    <2>1. shown[n] \in Messages /\ Piece(shown[n], book, Taken)
      BY <1>1 DEF TypeInv, ShownInv
    <2>2. /\ From(shown[n]) \in Nat \ {0} /\ To(shown[n]) \in Nat
          /\ From(shown[n]) <= To(shown[n]) /\ To(shown[n]) <= Taken
          /\ Head(shown[n].ids) = From(shown[n]) /\ Last(shown[n].ids) = To(shown[n])
          /\ Range(shown[n].ids) = From(shown[n]) .. To(shown[n])
      BY <2>1, <1>2, PieceRange
    <2>3. From(shown[n]) \in 1 .. Taken /\ To(shown[n]) \in 1 .. Taken
      BY <2>2, <1>2
    <2>. QED BY <2>1, <2>2, <2>3
  <1>4. Range(shown) = {shown[n] : n \in 1 .. Len(shown)}
    <2>1. DOMAIN shown = 1 .. Len(shown)
      BY <1>1 DEF TypeInv
    <2>. QED BY <2>1 DEF Range
  <1>. QED BY <1>2, <1>3, <1>4

\* What a chat sees: ShownRight is about the order of the messages, the pieces
\* of the streams that are joined, and the number of attempts.
THEOREM ShownIsRight == Spec => []ShownRight
  <1>1. ASSUME IInv PROVE InOrder
    <2>. SUFFICES ASSUME NEW i \in 1 .. Len(shown), NEW j \in 1 .. Len(shown), i < j
         PROVE  shown[i].ids = shown[j].ids \/ Last(shown[i].ids) < Head(shown[j].ids)
      BY DEF InOrder
    <2>1. Before(shown[i], shown[j])
      BY <1>1 DEF IInv, DeliveryInv, ShownInv
    <2>2. Last(shown[i].ids) = To(shown[i]) /\ Head(shown[j].ids) = From(shown[j])
      BY <1>1, ShownPieces
    <2>. QED BY <2>1, <2>2 DEF Before
  <1>2. ASSUME IInv PROVE PiecesIntact
    <2>. SUFFICES ASSUME NEW m \in Range(shown), m.kind \in {"delta", "end"}
         PROVE  /\ \A i \in Range(m.ids) : book[i].chat = m.chat /\ book[i].stream = m.stream
                /\ \A i \in Head(m.ids) .. Last(m.ids) :
                      book[i].chat = m.chat => i \in Range(m.ids)
      BY DEF PiecesIntact
    <2>1. /\ Piece(m, book, Taken) /\ Head(m.ids) = From(m) /\ Last(m.ids) = To(m)
          /\ Range(m.ids) = From(m) .. To(m)
      BY <1>2, ShownPieces
    <2>. QED BY <2>1 DEF Piece
  <1>3. ASSUME IInv PROVE AttemptsBounded
    <2>. SUFFICES ASSUME NEW i \in 1 .. Len(book)
         PROVE  Cardinality({n \in 1 .. Len(shown) : i \in Range(shown[n].ids)}) <= MaxAttempts
      BY DEF AttemptsBounded
    <2>1. {n \in 1 .. Len(shown) : i \in Range(shown[n].ids)} = Places(shown, i)
      BY <1>3, ShownPieces DEF Places
    <2>2. Taken \in Nat /\ Len(book) \in Nat /\ MaxAttempts \in Nat
      BY <1>3, ShownPieces, ConstantsAssumption
    <2>3. CASE i \in 1 .. Taken
      <3>1. Cardinality(Places(shown, i)) <= Allowed(i)
        BY <1>3, <2>3 DEF IInv, DeliveryInv, ShownInv
      <3>2. Cardinality(Places(shown, i)) \in Nat
        BY <1>3, OneMorePlace, ShownPieces DEF IInv, TypeInv
      <3>3. sending # None => sending.attempt \in 1 .. MaxAttempts
        BY <1>3 DEF IInv, DeliveryInv, SendInv
      <3>4. Allowed(i) <= MaxAttempts /\ Allowed(i) \in Int
        BY <3>3, <2>2 DEF Allowed
      <3>5. Cardinality(Places(shown, i)) <= MaxAttempts
        BY <3>1, <3>2, <3>4, <2>2
      <3>. QED BY <3>5, <2>1
    <2>4. CASE i \notin 1 .. Taken
      <3>1. i > Taken
        BY <2>2, <2>4
      <3>2. \A n \in 1 .. Len(shown) : i \notin From(shown[n]) .. To(shown[n])
        BY <1>3, <2>2, <3>1, ShownPieces
      <3>3. Places(shown, i) = {}
        BY <3>2 DEF Places
      <3>. QED BY <3>3, <2>1, <2>2, FS_EmptySet
    <2>. QED BY <2>3, <2>4
  <1>4. IInv => ShownRight
    BY <1>1, <1>2, <1>3, TypesHold DEF ShownRight
  <1>. QED BY <1>4, Invariant, PTL

\* A stream of which something was shown is open, was left by a failed turn or by
\* a truncated completion, or its end is on the way, was shown, or had no chance.
THEOREM StreamsAreClosed == Spec => []StreamsCloseUnlessFailed
  <1>1. ASSUME IInv PROVE StreamsCloseUnlessFailed
    <2>. SUFFICES ASSUME NEW m \in Range(shown), m.kind = "delta"
         PROVE  \/ turns[m.chat] # None /\ turns[m.chat].open /\ m.stream = Stream(m.chat)
                \/ m.stream \in leftOpen
                \/ \E i \in 1 .. Len(book) :
                     /\ book[i].kind = "end" /\ book[i].stream = m.stream /\ book[i].closes
                     /\ \/ i \notin DOMAIN fates
                        \/ fates[i] \in {"given up", "unrouted", "stopped"}
                        \/ \E e \in Range(shown) :
                              e.kind = "end" /\ i \in Range(e.ids) /\ e.closes
      BY DEF StreamsCloseUnlessFailed
    <2>. DEFINE f == From(m)
    <2>1. Piece(m, book, Taken) /\ f \in 1 .. Len(book) /\ f \in From(m) .. To(m)
      BY <1>1, ShownPieces
    <2>2. book[f].kind = "delta" /\ book[f].chat = m.chat /\ book[f].stream = m.stream
      BY <2>1 DEF Piece
    <2>. HIDE DEF f
    <2>3. \/ OpenIn(m, turns, source)
          \/ m.stream \in leftOpen
          \/ \E i \in 1 .. Len(book) : Closes(book[i], m.stream)
      BY <1>1, <2>1, <2>2 DEF IInv, DeltaInv, OpenIn
    <2>4. CASE OpenIn(m, turns, source)
      BY <2>4 DEF OpenIn, Stream
    <2>5. ASSUME NEW i \in 1 .. Len(book), Closes(book[i], m.stream)
          PROVE  /\ book[i].kind = "end" /\ book[i].stream = m.stream /\ book[i].closes
                 /\ \/ i \notin DOMAIN fates
                    \/ fates[i] \in {"given up", "unrouted", "stopped"}
                    \/ \E e \in Range(shown) :
                          e.kind = "end" /\ i \in Range(e.ids) /\ e.closes
      <3>1. i \in DOMAIN fates => EndShown(i)
        BY <1>1, <2>5 DEF IInv, DeliveryInv, EndInv, Closes
      <3>2. Range(shown) = {shown[k] : k \in 1 .. Len(shown)}
        BY <1>1, ShownPieces
      <3>. QED BY <2>5, <3>1, <3>2 DEF EndShown, Closes
    <2>. QED BY <2>3, <2>4, <2>5
  <1>2. IInv => StreamsCloseUnlessFailed
    BY <1>1
  <1>. QED BY <1>2, Invariant, PTL

\* Without two requests that stop an object at a time, one object at most is
\* live, under the name, and none is after stop_all.
THEOREM OneIsLive == Spec => []OneLiveUnlessRaced
  <1>1. IInv => OneLiveUnlessRaced
    BY DEF IInv, ChannelInv, OneLiveUnlessRaced
  <1>. QED BY <1>1, Invariant, PTL
=============================================================================
