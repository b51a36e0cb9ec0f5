-------------------------- MODULE OutboundDelivery --------------------------
(***************************************************************************)
(* The way out: turns publish stream deltas, stream ends, notices and      *)
(* replies on the outbound queue; one dispatcher takes them, joins deltas  *)
(* of a stream, drops repeated replies and sends each message with retries *)
(* through the channel object that is registered when it takes it; requests*)
(* of the WebUI replace or remove that object meanwhile.                   *)
(* Code: channels/manager.py, bus/queue.py (outbound), agent/turn_delivery.py,
   agent/tools/message.py, agent/subagent.py (origin of a result).         *)
(* A message is published under a number; a joined one carries several.    *)
(***************************************************************************)
EXTENDS Integers, Sequences, FiniteSets, Functions, SequencesExt

CONSTANTS
    Texts,        \* contents of replies, up to white space
    MaxAttempts,  \* send_max_retries
    MaxTurns,     \* bound: turns of a chat
    Requests,     \* WebUI requests that may run at a time
    Budgets,      \* bound: the published messages, WebUI actions and stops,
                  \* chats, and messages whose sending may fail
    None

\* Chats of the one channel that is modelled.
Chats == 1..(CHOOSE n \in {b[3] : b \in Budgets} : \A b \in Budgets : b[3] <= n)

Apology == "Sorry, I encountered an error."

\* Messages by kind, under the numbers they were published with; a stream is
\* named by its chat, turn and segment.
Streams == Chats \X Nat \X Nat
Messages ==
    [kind : {"delta"}, chat : Chats, stream : Streams, ids : Seq(Nat)]
    \cup [kind : {"end"}, chat : Chats, stream : Streams, tail : BOOLEAN,
          closes : BOOLEAN, ids : Seq(Nat)]
    \cup [kind : {"notice"}, chat : Chats, visible : BOOLEAN, ids : Seq(Nat)]
    \cup [kind : {"streamed"}, chat : Chats, ids : Seq(Nat)]
    \cup [kind : {"reply"}, chat : Chats, text : Texts \cup {Apology}, by : Nat,
          origin : Nat, ids : Seq(Nat)]

TurnRecords == [segment : Nat, open : BOOLEAN, merged : BOOLEAN, streamed : BOOLEAN]
SendRecords == [message : Messages, object : Nat, attempt : Nat]
RequestRecords == [old : Nat, new : Nat]

ASSUME ConstantsAssumption ==
    /\ MaxAttempts \in Nat \ {0} /\ MaxTurns \in Nat
    /\ None \notin TurnRecords \cup SendRecords \cup RequestRecords
    /\ Budgets \subseteq Nat \X Nat \X Nat \X Nat /\ Budgets # {}
    /\ IsFiniteSet(Budgets)

VARIABLES
    budget,       \* the bounds of this behaviour
    turns,        \* the running turn of each chat
    source,       \* message_id of the chat's last turn
    outbound,     \* bus.outbound
    pending,      \* what coalescing took from the queue and gave back
    sending,      \* the message in _send_with_retry, object and attempt
    fingerprints, \* _origin_reply_fingerprints
    dispatcher,   \* "on", or what stop_all made of it
    channel,      \* the registered object, 0 when there is none
    task,         \* the object whose start task is registered, 0 if none
    objects,      \* channel objects built so far and what they do
    request,      \* WebUI requests that await the stop of an object
    book,         \* history: every message as it was published
    fates,        \* history: what became of each
    shown,        \* history: what reached the platform, in order
    leftOpen,     \* history: streams whose turn ended without closing them
    raced         \* history: two requests stopped an object at a time

turnVars == <<turns, source>>
queues == <<outbound, pending>>
channelVars == <<channel, task, objects, request>>
history == <<shown, leftOpen, raced>>
vars == <<budget, turns, source, outbound, pending, sending, fingerprints,
          dispatcher, channel, task, objects, request, book, fates, shown,
          leftOpen, raced>>

\* start_all has started the dispatcher and the object.
Init ==
    /\ budget \in Budgets
    /\ turns = [c \in Chats |-> None]
    /\ source = [c \in Chats |-> 0]
    /\ outbound = <<>> /\ pending = <<>> /\ sending = None
    /\ fingerprints = <<>>
    /\ dispatcher = "on"
    /\ channel = 1 /\ task = 1 /\ objects = <<"running">>
    /\ request = [r \in Requests |-> None]
    /\ book = <<>> /\ fates = <<>> /\ shown = <<>>
    /\ leftOpen = {} /\ raced = FALSE
-----------------------------------------------------------------------------
(* Turns (TurnDelivery) *)

Stream(c) == <<c, source[c], turns[c].segment>>

\* publish_outbound: the message gets its number.
Publish(m) ==
    LET n == Len(book) + 1
        known == [x \in DOMAIN m \cup {"ids"} |-> IF x = "ids" THEN <<n>> ELSE m[x]]
    IN /\ n <= budget[1]
       /\ book' = Append(book, known)
       /\ outbound' = Append(outbound, known)
       /\ UNCHANGED <<budget, pending, sending, fingerprints, dispatcher,
                      channelVars, fates, shown, raced>>

\* A reply names the message it answers, or the one it goes back to.
Reply(c, text, by, origin) ==
    [kind |-> "reply", chat |-> c, text |-> text, by |-> by, origin |-> origin]

Begin(c) ==
    /\ turns[c] = None /\ c <= budget[3] /\ source[c] < MaxTurns
    /\ source' = [source EXCEPT ![c] = @ + 1]
    /\ turns' = [turns EXCEPT ![c] =
                    [segment |-> 0, open |-> FALSE, merged |-> FALSE, streamed |-> FALSE]]
    /\ Len(book) < budget[1]
    /\ UNCHANGED <<budget, queues, sending, fingerprints, dispatcher,
                   channelVars, book, fates, history>>

StreamDelta(c) ==
    /\ turns[c] # None
    /\ Publish([kind |-> "delta", chat |-> c, stream |-> Stream(c)])
    /\ turns' = [turns EXCEPT ![c].open = TRUE, ![c].merged = FALSE, ![c].streamed = TRUE]
    /\ UNCHANGED <<source, leftOpen>>

\* _publish_stream_end; after merge_next the next text joins this stream.
\* Plugins that publish their own streams may put the tail into the end.
StreamEnded(c, merge, tail) ==
    /\ turns[c] # None /\ (tail => ~merge)
    /\ Publish([kind |-> "end", chat |-> c, stream |-> Stream(c),
                tail |-> tail, closes |-> ~merge])
    /\ turns' = [turns EXCEPT ![c].open = merge, ![c].merged = merge,
                              ![c].segment = IF merge THEN @ ELSE @ + 1]
    /\ UNCHANGED <<source, leftOpen>>

\* Progress, tool hints, reasoning, retry waits: the channel's switches and
\* the dispatcher decide whether they are for the user.
Notice(c, visible) ==
    /\ turns[c] # None
    /\ Publish([kind |-> "notice", chat |-> c, visible |-> visible])
    /\ UNCHANGED <<turnVars, leftOpen>>

\* The message tool, to the turn's own chat.
ToolMessage(c, text) ==
    /\ turns[c] # None
    /\ Publish(Reply(c, text, source[c], 0))
    /\ UNCHANGED <<turnVars, leftOpen>>

EndTurn(c) ==
    /\ turns' = [turns EXCEPT ![c] = None]
    /\ UNCHANGED source

\* complete(): a streamed answer is published as such and sent no more.  A
\* stream is still open when a truncated answer ran into the iteration limit.
Complete(c, text) ==
    /\ turns[c] # None /\ (turns[c].open => turns[c].merged)
    /\ \/ /\ turns[c].streamed
          /\ Publish([kind |-> "streamed", chat |-> c])
       \/ Publish(Reply(c, text, source[c], 0))
    /\ leftOpen' = IF turns[c].open THEN leftOpen \cup {Stream(c)} ELSE leftOpen
    /\ EndTurn(c)

\* /stop: abort_stream closes what is open.
Abort(c) ==
    /\ turns[c] # None
    /\ IF turns[c].open
       THEN /\ Publish([kind |-> "end", chat |-> c, stream |-> Stream(c),
                        tail |-> FALSE, closes |-> TRUE])
            /\ UNCHANGED leftOpen
       ELSE UNCHANGED <<budget, queues, sending, fingerprints, dispatcher,
                        channelVars, book, fates, history>>
    /\ EndTurn(c)

\* fail(): the apology is published, an open stream stays open.
Fail(c) ==
    /\ turns[c] # None
    /\ Publish(Reply(c, Apology, source[c], 0))
    /\ leftOpen' = IF turns[c].open THEN leftOpen \cup {Stream(c)} ELSE leftOpen
    /\ EndTurn(c)

\* The result turn of a sub-agent answers the message that spawned it.
Background(c, text) ==
    /\ source[c] > 0
    /\ Publish(Reply(c, text, 0, source[c]))
    /\ UNCHANGED <<turnVars, leftOpen>>
-----------------------------------------------------------------------------
(* The dispatcher *)

Settled(ids, fate) ==
    fates' = [i \in DOMAIN fates \cup Range(ids) |->
                  IF i \in DOMAIN fates THEN fates[i] ELSE fate]

\* The buffer goes first.
First == IF pending # <<>> THEN Head(pending) ELSE Head(outbound)
Queue == IF pending # <<>> THEN outbound ELSE Tail(outbound)

\* Fault: the targets are not compared.
JoinsAny(m, n) ==
    /\ n.kind \in {"delta", "end"}
    /\ n.kind = "end" => n.tail

\* n joins the delta m.
Joins(m, n) ==
    /\ n.kind \in {"delta", "end"} /\ n.chat = m.chat
    /\ n.stream = m.stream
    /\ n.kind = "end" => n.tail

\* How many messages of the queue join: an end is the last of them.
Run(m) == CHOOSE k \in 0..Len(Queue) :
    /\ \A i \in 1..k : Joins(m, Queue[i]) /\ (i < k => Queue[i].kind = "delta")
    /\ \/ k = Len(Queue)
       \/ k > 0 /\ Queue[k].kind = "end"
       \/ ~Joins(m, Queue[k + 1])

JoinedIds(m, k) == m.ids \o [i \in 1..k |-> Queue[i].ids[1]]

\* Fault: the end that joined is forgotten.
JoinedAsDelta(m, k) == [m EXCEPT !.ids = JoinedIds(m, k)]

Joined(m, k) ==
    [(IF k > 0 THEN Queue[k] ELSE m) EXCEPT !.ids = JoinedIds(m, k)]

\* Fault: the boundary goes to the end of the queue.
HandBackLate(k) ==
    /\ outbound' = IF k < Len(Queue)
                   THEN Append(SubSeq(Queue, k + 2, Len(Queue)), Queue[k + 1])
                   ELSE <<>>
    /\ pending' = <<>>

\* Fault: ... or is lost.
HandBackNothing(k) ==
    /\ outbound' = SubSeq(Queue, k + 2, Len(Queue))
    /\ pending' = <<>>

\* The message at which joining stops has been taken too and is kept aside,
\* unless an end finished the run.
HandBack(k) ==
    LET n == IF k = Len(Queue) \/ (k > 0 /\ Queue[k].kind = "end") THEN k ELSE k + 1
    IN /\ outbound' = SubSeq(Queue, n + 1, Len(Queue))
       /\ pending' = SubSeq(Queue, k + 1, n)

\* Fault: the reply is compared with all replies to the chat.
IsRepeatAnywhere(m) ==
    m.origin # 0 /\ \E key \in DOMAIN fingerprints :
                        key[1] = m.chat /\ fingerprints[key] = m.text

\* _should_suppress_outbound: its test ...
IsRepeat(m) ==
    LET key == <<m.chat, m.origin>>
    IN key \in DOMAIN fingerprints /\ fingerprints[key] = m.text

\* ... and what it remembers, before anything is sent.
Remembered(m) ==
    LET key == <<m.chat, IF m.origin # 0 THEN m.origin ELSE m.by>>
    IN [k \in DOMAIN fingerprints \cup {key} |->
            IF k = key THEN m.text ELSE fingerprints[k]]

\* The channel is looked up once for all attempts.
Send(m) == sending' = [message |-> m, object |-> channel, attempt |-> 1]
Drop(m, fate) == Settled(m.ids, fate)

TakeReply(m) ==
    IF IsRepeat(m)
    THEN Drop(m, "repeat") /\ UNCHANGED <<sending, fingerprints>>
    ELSE Send(m) /\ fingerprints' = Remembered(m) /\ UNCHANGED fates

Hidden(m) == m.kind = "notice" /\ ~m.visible

\* One round of _dispatch_outbound up to the first attempt to send.
Take ==
    LET m == First
        k == IF m.kind = "delta" THEN Run(m) ELSE 0
    IN /\ dispatcher = "on" /\ sending = None
       /\ pending # <<>> \/ outbound # <<>>
       /\ IF m.kind = "delta" THEN HandBack(k)
          ELSE outbound' = Queue /\ pending' = <<>>
       /\ \/ /\ Hidden(m)
             /\ Drop(m, "hidden") /\ UNCHANGED <<sending, fingerprints>>
          \/ /\ ~Hidden(m) /\ channel = 0
             /\ Drop(Joined(m, k), "unrouted") /\ UNCHANGED <<sending, fingerprints>>
          \/ /\ channel # 0 /\ m.kind = "reply"
             /\ TakeReply(m)
          \/ /\ ~Hidden(m) /\ channel # 0 /\ m.kind # "reply"
             /\ Send(Joined(m, k)) /\ UNCHANGED <<fingerprints, fates>>
       /\ UNCHANGED <<budget, turnVars, dispatcher, channelVars, book, history>>

\* The platform has the message (a streamed answer it has already).
Reach(m) == IF m.kind = "streamed" THEN UNCHANGED shown ELSE shown' = Append(shown, m)

Delivered ==
    /\ sending # None
    /\ Reach(sending.message)
    /\ Drop(sending.message, "sent")
    /\ sending' = None
    /\ UNCHANGED <<budget, turnVars, queues, fingerprints, dispatcher,
                   channelVars, book, leftOpen, raced>>

\* Fault: one attempt more.
ExhaustedLate == sending.attempt > MaxAttempts

Exhausted == sending.attempt >= MaxAttempts

\* Fault: a message that is given up comes back.
FailedRequeued(retryable, reached) ==
    /\ sending # None /\ Head(sending.message.ids) <= budget[4] /\ ~reached
    /\ IF retryable /\ ~Exhausted
       THEN sending' = [sending EXCEPT !.attempt = @ + 1] /\ UNCHANGED pending
       ELSE sending' = None /\ pending' = <<sending.message>> \o pending
    /\ UNCHANGED <<budget, turnVars, outbound, fingerprints, dispatcher,
                   channelVars, book, fates, history>>

\* An attempt raises, before or after the platform got the message; it is
\* repeated after a delay when the channel says so.
Failed(retryable, reached) ==
    /\ sending # None /\ sending.message.kind # "streamed"
    /\ Head(sending.message.ids) <= budget[4]
    /\ IF reached THEN Reach(sending.message) ELSE UNCHANGED shown
    /\ IF retryable /\ ~Exhausted
       THEN sending' = [sending EXCEPT !.attempt = @ + 1] /\ UNCHANGED fates
       ELSE sending' = None /\ Drop(sending.message, "given up")
    /\ UNCHANGED <<budget, turnVars, queues, fingerprints, dispatcher,
                   channelVars, book, leftOpen, raced>>
-----------------------------------------------------------------------------
(* Channel objects *)

dispatchVars == <<outbound, pending, sending, fingerprints, fates>>

\* The start task runs: the transport is up, or start() raised.
Started(o, ok) ==
    /\ objects[o] = "starting"
    /\ objects' = [objects EXCEPT ![o] = IF ok THEN "running" ELSE "failed"]
    /\ UNCHANGED <<budget, turnVars, dispatchVars, dispatcher, channel, task,
                   request, book, history>>

Stop(objs, o) == [objs EXCEPT ![o] = "stopped"]

\* The new object takes the name; it is started if the gateway runs.
Install(new, objs) ==
    /\ channel' = new
    /\ IF dispatcher = "on"
       THEN task' = new /\ objects' = [objs EXCEPT ![new] = "starting"]
       ELSE objects' = objs /\ UNCHANGED task

\* apply_channel_feature_action up to its first await.  The new object is
\* built before the old one is asked to stop.
Apply(r, enable) ==
    LET new == Len(objects) + 1
        built == Append(objects, "built")
    IN /\ request[r] = None /\ budget[2] > 0
       /\ budget' = [budget EXCEPT ![2] = @ - 1]
       /\ IF channel # 0
          THEN /\ request' = [request EXCEPT ![r] =
                       [old |-> channel, new |-> IF enable THEN new ELSE 0]]
               /\ objects' = IF enable THEN built ELSE objects
               /\ task' = 0
               /\ raced' = (raced \/ \E q \in Requests : request[q] # None)
               /\ UNCHANGED channel
          ELSE /\ IF enable THEN Install(new, built) ELSE UNCHANGED <<channel, task, objects>>
               /\ UNCHANGED <<request, raced>>
       /\ UNCHANGED <<turnVars, dispatchVars, dispatcher, book, shown, leftOpen>>

\* Fault: the replaced object is not stopped.
AppliedUnstopped(r) ==
    /\ request[r] # None
    /\ IF request[r].new # 0 THEN Install(request[r].new, objects)
       ELSE channel' = 0 /\ UNCHANGED <<task, objects>>
    /\ request' = [request EXCEPT ![r] = None]
    /\ UNCHANGED <<budget, turnVars, dispatchVars, dispatcher, book, history>>

\* The old object has stopped: whatever has the name by now loses it.
Applied(r) ==
    /\ request[r] # None
    /\ LET stopped == Stop(objects, request[r].old)
       IN IF request[r].new # 0 THEN Install(request[r].new, stopped)
          ELSE channel' = 0 /\ objects' = stopped /\ UNCHANGED task
    /\ request' = [request EXCEPT ![r] = None]
    /\ UNCHANGED <<budget, turnVars, dispatchVars, dispatcher, book, history>>

\* stop_all: the dispatcher first, with what it is sending ...
StopAll ==
    /\ dispatcher = "on" /\ budget[2] > 0
    /\ dispatcher' = "stopping"
    /\ sending' = None
    /\ IF sending = None THEN UNCHANGED fates ELSE Drop(sending.message, "stopped")
    /\ UNCHANGED <<budget, turnVars, queues, fingerprints, channelVars, book, history>>

\* ... then the registered object.
AllStopped ==
    /\ dispatcher = "stopping"
    /\ dispatcher' = "stopped"
    /\ objects' = IF channel = 0 THEN objects ELSE Stop(objects, channel)
    /\ task' = 0
    /\ UNCHANGED <<budget, turnVars, dispatchVars, channel, request, book, history>>
-----------------------------------------------------------------------------
Turns == \E c \in Chats :
    \/ Begin(c)
    \/ StreamDelta(c)
    \/ \E merge, tail \in BOOLEAN : StreamEnded(c, merge, tail)
    \/ \E visible \in BOOLEAN : Notice(c, visible)
    \/ \E text \in Texts : ToolMessage(c, text) \/ Complete(c, text)
                           \/ Background(c, text)
    \/ Fail(c) \/ Abort(c)

Sends == Delivered \/ \E retryable, reached \in BOOLEAN : Failed(retryable, reached)

Channels ==
    \/ StopAll \/ AllStopped
    \/ \E o \in 1..Len(objects), ok \in BOOLEAN : Started(o, ok)
    \/ \E r \in Requests : Applied(r) \/ \E enable \in BOOLEAN : Apply(r, enable)

Next == Turns \/ Take \/ Sends \/ Channels

\* The event loop runs the dispatcher as long as it is not cancelled, and
\* every attempt to send returns or raises.
Spec == Init /\ [][Next]_vars /\ WF_vars(Take) /\ WF_vars(Sends)
-----------------------------------------------------------------------------
(* Properties *)

\* Every variable has its type.
TypeOK ==
    /\ Len(pending) <= 1
    /\ dispatcher \in {"on", "stopping", "stopped"}
    /\ channel \in 0..Len(objects) /\ task \in 0..Len(objects)
    /\ \A o \in 1..Len(objects) :
          objects[o] \in {"built", "starting", "running", "failed", "stopped"}
    /\ sending # None => sending.attempt \in 1..MaxAttempts
    /\ DOMAIN fates \subseteq 1..Len(book)

WaitingIds == UNION {Range(m.ids) : m \in Range(outbound) \cup Range(pending)}
SendingIds == IF sending = None THEN {} ELSE Range(sending.message.ids)

\* Every published message waits, is being sent or has its fate, and is in
\* one place only (the buffer of the dispatcher loses and doubles nothing).
NothingLost ==
    /\ 1..Len(book) = WaitingIds \cup SendingIds \cup DOMAIN fates
    /\ WaitingIds \cap (SendingIds \cup DOMAIN fates) = {}
    /\ SendingIds \cap DOMAIN fates = {}

\* A chat sees its messages in the order in which they were published;
\* only a repeated attempt shows the same message again.
InOrder == \A i, j \in 1..Len(shown) :
    i < j /\ shown[i].chat = shown[j].chat =>
        \/ shown[i].ids = shown[j].ids
        \/ Last(shown[i].ids) < Head(shown[j].ids)

\* What is shown as one piece of a stream was published for this stream,
\* and with nothing else for the chat in between.
PiecesIntact == \A m \in Range(shown) : m.kind \in {"delta", "end"} =>
    /\ \A i \in Range(m.ids) : book[i].chat = m.chat /\ book[i].stream = m.stream
    /\ \A i \in Head(m.ids)..Last(m.ids) : book[i].chat = m.chat => i \in Range(m.ids)

\* A message reaches the platform at most once for each attempt.
AttemptsBounded == \A i \in 1..Len(book) :
    Cardinality({n \in 1..Len(shown) : i \in Range(shown[n].ids)}) <= MaxAttempts

\* Only a reply that goes back to a message is dropped as a repetition, and
\* only when one with the same text was taken for that message before.
OnlyRepeatsDropped == \A i \in DOMAIN fates : fates[i] = "repeat" =>
    \E j \in 1..(i - 1) :
        /\ book[j].kind = "reply" /\ book[j].chat = book[i].chat
        /\ book[j].text = book[i].text
        /\ book[i].origin \in {book[j].by, book[j].origin}
        /\ j \in DOMAIN fates

\* A stream of which something was shown is closed for the channel too, once
\* its turn is over and its messages have gone out, with two exceptions that
\* the code makes (leftOpen): fail() publishes an apology and closes nothing,
\* and a truncated answer that runs into the iteration limit is completed with
\* its merged stream open.
StreamsCloseUnlessFailed == \A m \in Range(shown) : m.kind = "delta" =>
    \/ turns[m.chat] # None /\ turns[m.chat].open /\ m.stream = Stream(m.chat)
    \/ m.stream \in leftOpen
    \/ \E i \in 1..Len(book) :
          /\ book[i].kind = "end" /\ book[i].stream = m.stream /\ book[i].closes
          /\ \/ i \notin DOMAIN fates \/ fates[i] \in {"given up", "unrouted", "stopped"}
             \/ \E e \in Range(shown) : e.kind = "end" /\ i \in Range(e.ids) /\ e.closes

Live(o) == objects[o] \in {"starting", "running"}

\* At most one object of the channel is live, and it is the one that has the
\* name or the one a request is stopping; after stop_all none is.
OneLiveUnlessRaced == ~raced => \A o \in 1..Len(objects) : Live(o) =>
    /\ o = channel
    /\ dispatcher # "stopped" \/ \E r \in Requests : request[r] # None

\* While the dispatcher runs, everything published is settled in the end:
\* no failing message holds up the ones behind it.
Drains == []<>(dispatcher # "on"
                 \/ (outbound = <<>> /\ pending = <<>> /\ sending = None))

\* What becomes of a message: it has one place or one fate, and "repeat" is the
\* fate of repetitions only.
FatesRight == NothingLost /\ OnlyRepeatsDropped

\* What a chat sees: its messages in order, streams in one piece, and no message
\* more often than there are attempts.
ShownRight == TypeOK /\ InOrder /\ PiecesIntact /\ AttemptsBounded
=============================================================================
