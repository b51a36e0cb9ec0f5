---------------------------- MODULE ModelContext -----------------------------
(***************************************************************************)
(* What a model is sent.  A session's messages pass through a chain of     *)
(* windows before each request: the cursor of consolidation, the replay    *)
(* window and the token limit (get_history), then the governance of the    *)
(* running turn (repairs, compaction of tool results, the snip to the token*)
(* budget).  Each cuts by a rule of its own, and what is left must be a    *)
(* conversation a provider accepts: a tool result follows its call, a call *)
(* has its results.  Meanwhile the turn grows: by rounds of tools, by what *)
(* the user says to it, by prompts to go on.                               *)
(* Code: session/manager.py, utils/helpers.py, agent/memory.py,            *)
(* agent/context_governance.py, agent/runner.py, agent/loop.py.            *)
(***************************************************************************)
EXTENDS Integers, SequencesExt

CONSTANTS
    MaxUnits,    \* bound: things said, tool rounds included
    Rounds,      \* bound: the outcomes of a round of tools, and what follows
    FileCap,     \* FILE_MAX_MESSAGES
    Window,      \* replay_max_messages
    Suffix,      \* MIN_COMPACTED_REPLAY_MESSAGES
    Replay,      \* the budget of consolidation and of the history, in tokens
    Goal,        \* where consolidation stops
    Budget,      \* the input budget in tokens
    Target,      \* where compaction stops
    Big          \* tokens of a large tool result; everything else takes one

ASSUME ConstantsAssumption ==
    /\ {MaxUnits, FileCap, Window, Suffix, Replay, Budget, Target, Big} \subseteq Nat \ {0}
    /\ Window <= FileCap /\ Suffix <= Window /\ Target <= Budget /\ Big > 1
    /\ Goal \in Nat /\ Goal < Replay

VARIABLES
    messages,   \* session.messages
    cursor,     \* session.last_consolidated
    initial,    \* the messages the running turn started from, or <<>>
    inflight,   \* what it added
    compacted,  \* compacted_tool_call_ids
    units       \* things said; names the tool calls

contextVars == <<messages, cursor, initial, inflight, compacted, units>>
-----------------------------------------------------------------------------
(* Messages *)

Message(role, calls, of) ==
    [role |-> role, calls |-> calls, of |-> of, size |-> 1, compactable |-> FALSE]

System == Message("system", {}, 0)
User == Message("user", {}, 0)
SlashUser == Message("user", {}, -1)         \* of = -1: flagged _command
SlashReply == Message("assistant", {}, -1)
Reply == Message("assistant", {}, 0)
Delivery == Message("delivery", {}, 0)       \* an assistant message
Placeholder == Message("placeholder", {}, 0) \* an assistant message
Call(ids) == Message("call", ids, 0)         \* an assistant message

\* The result of a call: a short one, a large one of a tool in
\* COMPACTABLE_TOOLS, or a large one of another tool.
Outcomes == {"small", "large", "other"}
Result(id, outcome) ==
    [role |-> "tool", calls |-> {}, of |-> id,
     size |-> IF outcome = "small" THEN 1 ELSE Big,
     compactable |-> outcome = "large"]

\* One or two tools run.  A message of the user that came meanwhile is joined to
\* the turn; a failed tool may have ended it with a reply before.
ASSUME RoundsAssumption ==
    \A round \in Rounds :
        /\ round.outcomes \in {<<x>> : x \in Outcomes} \cup (Outcomes \X Outcomes)
        /\ round.joined \in {<<>>, <<User>>, <<Reply, User>>}

IsUser(m) == m.role = "user"
UserAt(s) == {k \in DOMAIN s : IsUser(s[k])}
From(s, k) == SubSeq(s, k, Len(s))

\* One token for each message, and the others of the large results.
Tokens(s) == Len(s) + (Big - 1) * Cardinality({k \in DOMAIN s : s[k].size = Big})

\* The messages in the order of their slots: <<k, 0>> holds the message s[k],
\* <<k, id>> a result of the call id that is put in after it.
Precedes(x, y) == x[1] < y[1] \/ (x[1] = y[1] /\ x[2] < y[2])
Arranged(s, slots) ==
    LET place == [x \in slots |-> Cardinality({y \in slots : Precedes(y, x)}) + 1]
        at(i) == CHOOSE x \in slots : place[x] = i
    IN [i \in 1 .. Cardinality(slots) |->
           IF at(i)[2] = 0 THEN s[at(i)[1]] ELSE Result(at(i)[2], "small")]

\* The messages of s at the indexes of K.
Picked(s, K) == IF K = DOMAIN s THEN s ELSE Arranged(s, K \X {0})
-----------------------------------------------------------------------------
(* Windows.  A start is the index of the first message that is kept. *)

\* find_legal_message_start: from where on each result has its call in sight.
LegalFrom(s, f) ==
    \A k \in f .. Len(s) :
        s[k].role = "tool" => \E j \in f .. k - 1 : s[k].of \in s[j].calls
LegalStart(s) == Min({f \in 1 .. Len(s) + 1 : LegalFrom(s, f)})

Legal(s) == From(s, LegalStart(s))

\* The user message at k, with the delivery it may answer.
WithDelivery(s, k) ==
    IF k > 1 /\ s[k - 1].role = "delivery" THEN k - 1 ELSE k

\* Start at the first user message, if there is one.
AtUser(s) ==
    IF UserAt(s) = {} THEN s ELSE From(s, WithDelivery(s, Min(UserAt(s))))

\* recent_message_start_index
RecentStart(s, limit, extend) ==
    LET start == Max({1, Len(s) - limit + 1})
        before == {k \in UserAt(s) : k < start}
    IN IF ~extend \/ Len(s) <= limit \/ UserAt(From(s, start)) # {} \/ before = {}
       THEN start
       ELSE WithDelivery(s, Max(before))

\* Slash commands are not replayed.
Visible(s) == Picked(s, {k \in DOMAIN s : s[k].of # -1})

\* Session.get_history, with no token limit when tokens is 0.
Replayable(s, c, limit, extend) ==
    LET first == IF c = 0 THEN 1
                 ELSE Min({c + 1, RecentStart(s, Suffix, TRUE)})
        r == From(s, first)
        whole == first <= c /\ Len(s) - c < limit
        start == IF whole THEN 1 ELSE RecentStart(r, limit, extend)
    IN Visible(Legal(AtUser(From(r, start))))

TokenTail(s, tokens) ==
    LET fits == {k \in DOMAIN s : k = Len(s) \/ Tokens(From(s, k)) <= tokens}
        kept == From(s, Min(fits))
    IN IF s = <<>> THEN s
       ELSE Legal(IF UserAt(kept) # {} THEN From(kept, Min(UserAt(kept)))
                  ELSE IF UserAt(s) # {} THEN From(s, Max(UserAt(s)))
                  ELSE kept)

History(s, c, limit, extend, tokens) ==
    LET r == Replayable(s, c, limit, extend)
    IN IF tokens = 0 THEN r ELSE TokenTail(r, tokens)

\* Session.retain_recent_legal_suffix(limit): what stays, by index.
Retained(s, limit) ==
    LET recent == Len(s) - limit + 1 .. Len(s)
        users == recent \cap UserAt(s)
        window == IF users # {}
                  THEN Max({Min(recent), WithDelivery(s, Min(users))}) .. Len(s)
                  ELSE IF UserAt(s) # {}
                  THEN Max(UserAt(s)) .. Min({Len(s), Max(UserAt(s)) + limit - 1})
                  ELSE recent
        part == SubSeq(s, Min(window), Max(window))
    IN {k \in window : k >= Min(window) + LegalStart(part) - 1}

\* The cap keeps a part and moves the cursor with it.
Capped(s, c) ==
    IF Len(s) <= FileCap THEN [messages |-> s, cursor |-> c]
    ELSE LET R == Retained(s, FileCap)
         IN [messages |-> IF R = {} THEN <<>> ELSE SubSeq(s, Min(R), Max(R)),
             cursor |-> Cardinality({k \in R : k <= c})]

\* Fault: one message more than the window shows is thought to fit.
OverflowLate(s, c) ==
    IF Len(s) - c <= Window + 1 THEN c
    ELSE Max({c, Len(s) - Len(Legal(AtUser(From(s, Len(s) - Window + 1))))})

\* _replay_overflow_boundary: how far the cursor moves when the messages that
\* the window hides are archived.
Overflow(s, c) ==
    LET r == From(s, c + 1)
        start == RecentStart(r, Window, TRUE)
        shown == Legal(AtUser(From(r, start)))
        first == Len(s) - Len(shown)
    IN IF Len(r) <= Window THEN c
       ELSE IF shown = <<>> THEN Len(s)
       ELSE Max({c, first})

\* What a request with all the history behind the cursor takes.
Estimate(s, c) == Tokens(<<System>> \o Replayable(s, c, Len(s), FALSE) \o <<User>>)

\* Where token consolidation may stop: before a user message.
Boundaries(s, c) == {k - 1 : k \in {j \in UserAt(s) : j > c + 1}}

\* Fault: one turn is archived, whatever it takes.
FurtherFirst(s, c) ==
    IF Estimate(s, c) <= Goal \/ Boundaries(s, c) = {} THEN c
    ELSE Min(Boundaries(s, c))

\* One round of token consolidation: the first boundary that removes enough
\* (pick_consolidation_boundary), or the last one.
Further(s, c) ==
    LET enough == {b \in Boundaries(s, c) :
                      Tokens(SubSeq(s, c + 1, b)) >= Estimate(s, c) - Goal}
    IN IF Estimate(s, c) <= Goal \/ Boundaries(s, c) = {} THEN c
       ELSE IF enough # {} THEN Min(enough) ELSE Max(Boundaries(s, c))

\* maybe_consolidate_by_tokens: where the cursor may be afterwards.  There are
\* up to five rounds, the last when the model gives no summary.
Consolidated(s, c) ==
    LET o == Overflow(s, c)
        r1 == Further(s, o)
        r2 == Further(s, r1)
        r3 == Further(s, r2)
        r4 == Further(s, r3)
        r5 == Further(s, r4)
    IN IF s = <<>> \/ Estimate(s, o) < Replay THEN {o} ELSE {r1, r2, r3, r4, r5}
-----------------------------------------------------------------------------
(* Governance of the messages of a running turn *)

NoPlaceholders(s) == Picked(s, {k \in DOMAIN s : s[k].role # "placeholder"})

Declared(s, k) == \E j \in 1 .. k - 1 : s[k].of \in s[j].calls

\* drop_orphan_tool_results
NoOrphans(s) ==
    LET first(k) == ~ \E j \in 1 .. k - 1 :
                        s[j].role = "tool" /\ s[j].of = s[k].of /\ Declared(s, j)
    IN Picked(s, {k \in DOMAIN s : s[k].role = "tool" => Declared(s, k) /\ first(k)})

\* The calls of the message at k that no result answers.
Missing(s, k) ==
    s[k].calls \ {s[j].of : j \in {i \in DOMAIN s : s[i].role = "tool"}}

\* The last of the results behind the message at k.
RunEnd(s, k) ==
    Max({j \in k .. Len(s) : \A h \in k + 1 .. j : s[h].role = "tool"})

\* backfill_missing_tool_results: after the results a call has.
Backfilled(s) ==
    IF \A k \in DOMAIN s : Missing(s, k) = {} THEN s
    ELSE Arranged(s, ((DOMAIN s) \X {0})
                     \cup UNION {{RunEnd(s, k)} \X Missing(s, k) : k \in DOMAIN s})

\* Fault: the missing results come last.
RepairedAtEnd(s) ==
    LET r == NoOrphans(s)
    IN Arranged(r, ((DOMAIN r) \X {0})
                   \cup ({Len(r)} \X (UNION {Missing(r, k) : k \in DOMAIN r})))

Repaired(s) == Backfilled(NoOrphans(s))

Shrunk(s, ids) == [k \in DOMAIN s |-> IF s[k].role = "tool" /\ s[k].of \in ids
                                      THEN [s[k] EXCEPT !.size = 1] ELSE s[k]]

\* compact_inflight_overflow: large results of the turn are replaced by a
\* short text, oldest first, until the target is met; the newest only while the
\* request is too large.  Those of earlier requests stay replaced.
Compacted(s, start, ids) ==
    LET r == Shrunk(s, ids)
        large == {k \in start + 1 .. Len(r) :
                     r[k].role = "tool" /\ r[k].compactable /\ r[k].size = Big}
        upTo(n) == ids \cup {r[k].of : k \in {j \in large : j <= n}}
        left(n) == {k \in large : k > n}
        tokens(n) == Tokens(Shrunk(s, upTo(n)))
        done(n) == \/ tokens(n) <= Target
                   \/ Cardinality(left(n)) = 1 /\ tokens(n) <= Budget
                   \/ left(n) = {}
    IN IF Tokens(r) <= Budget THEN ids
       ELSE upTo(Min({n \in 0 .. Len(r) : done(n)}))

\* Fault: the snip takes what fits, wherever it starts.
SnippedAnywhere(s) ==
    LET rest == From(s, 2)
        fits == {k \in DOMAIN rest : k = Len(rest) \/ Tokens(From(rest, k)) <= Budget - 1}
    IN IF Tokens(s) <= Budget \/ rest = <<>> THEN s
       ELSE <<s[1]>> \o From(rest, Min(fits))

\* Fault: without a user message in what fits, the first one is taken.
SnippedFromFirst(s) ==
    LET rest == From(s, 2)
        fits == {k \in DOMAIN rest : k = Len(rest) \/ Tokens(From(rest, k)) <= Budget - 1}
        kept == From(rest, Min(fits))
        tail == IF UserAt(kept) # {} THEN From(kept, Min(UserAt(kept)))
                ELSE From(rest, Min(UserAt(rest)))
    IN IF Tokens(s) <= Budget \/ rest = <<>> THEN s ELSE <<s[1]>> \o Legal(tail)

\* snip_history: the system prompt and the end that fits, from a user message
\* on; when it has none, from the last one.
Snipped(s) ==
    LET rest == From(s, 2)
        fits == {k \in DOMAIN rest : k = Len(rest) \/ Tokens(From(rest, k)) <= Budget - 1}
        kept == From(rest, Min(fits))
        tail == IF UserAt(kept) # {} THEN From(kept, Min(UserAt(kept)))
                ELSE IF UserAt(rest) # {} THEN From(rest, Max(UserAt(rest)))
                ELSE kept
    IN IF Tokens(s) <= Budget \/ rest = <<>> THEN s ELSE <<s[1]>> \o Legal(tail)

\* ContextGovernor.prepare_for_model
Governed(s) == Repaired(NoPlaceholders(s))
Prepared(s, start, ids) ==
    LET g == Governed(s)
    IN Repaired(Snipped(Shrunk(g, Compacted(g, start, ids))))
-----------------------------------------------------------------------------
ContextInit ==
    /\ messages = <<>> /\ cursor = 0
    /\ initial = <<>> /\ inflight = <<>>
    /\ compacted = {}
    /\ units = 0

Running == initial # <<>>
Unit == units < MaxUnits /\ units' = units + 1

\* Every save enforces the cap.
Save(s, c) == messages' = Capped(s, c).messages /\ cursor' = Capped(s, c).cursor

\* _build_turn, for a user message or a sub-agent's result: consolidation,
\* then the history, then the prompt, which is saved.
Build(subagent) ==
    /\ ~Running /\ Unit
    /\ \E c \in Consolidated(messages, cursor) :
           /\ initial' = <<System>> \o History(messages, c, Window, subagent, Replay)
                                   \o <<User>>
           /\ Save(Append(messages, IF subagent THEN Reply ELSE User), c)
    /\ compacted' = {}
    /\ UNCHANGED inflight

Request == Prepared(initial \o inflight, Len(initial), compacted)

\* Fault: inflight_start_index is left at its default.
SendFromStart == compacted' = Compacted(Governed(initial \o inflight), 0, compacted)

\* A request: what the governor has replaced when it is sent.
Replaced == Compacted(Governed(initial \o inflight), Len(initial), compacted)
Send == compacted' = Replaced

\* Tools run; what the user said meanwhile is joined to the turn.
Round(outcomes, joined) ==
    /\ Running /\ Unit /\ Send
    /\ LET id(i) == 2 * units + i
       IN inflight' = Append(inflight, Call({id(i) : i \in DOMAIN outcomes}))
                        \o [i \in DOMAIN outcomes |-> Result(id(i), outcomes[i])]
                        \o joined
    /\ UNCHANGED <<messages, cursor, initial>>

\* An answer that is not the last: a message of the user came, the goal is still
\* active, or the answer was truncated.  It may be blank or an error.
Continue(answer) ==
    /\ Running /\ Unit /\ Send
    /\ answer = <<>> => ~IsUser(Last(initial \o inflight))
    /\ inflight' = inflight \o answer \o <<User>>
    /\ UNCHANGED <<messages, cursor, initial>>

\* The last answer ends the turn.
Finish(answer) ==
    /\ Running /\ Send
    /\ Save(messages \o Append(inflight, answer), cursor)
    /\ initial' = <<>> /\ inflight' = <<>>
    /\ UNCHANGED units

\* A message of another turn, of cron or of a tool, is delivered to the chat.
Deliver ==
    /\ ~Running /\ Unit
    /\ Save(Append(messages, Delivery), cursor)
    /\ UNCHANGED <<initial, inflight, compacted>>

Slash ==
    /\ ~Running /\ Unit
    /\ Save(messages \o <<SlashUser, SlashReply>>, cursor)
    /\ UNCHANGED <<initial, inflight, compacted>>

\* compact_idle_session archives all of the tail.
CompactIdle ==
    /\ ~Running /\ cursor < Len(messages)
    /\ cursor' = Len(messages)
    /\ UNCHANGED <<messages, initial, inflight, compacted, units>>

ContextNext ==
    \/ \E sub \in BOOLEAN : Build(sub)
    \/ \E round \in Rounds : Round(round.outcomes, round.joined)
    \/ \E answer \in {<<>>, <<Reply>>, <<Placeholder>>} : Continue(answer)
    \/ \E answer \in {Reply, Placeholder} : Finish(answer)
    \/ Deliver \/ Slash \/ CompactIdle

ContextSpec == ContextInit /\ [][ContextNext]_contextVars
-----------------------------------------------------------------------------
(* Properties *)

Answers(s, k) == {s[j].of : j \in k + 1 .. RunEnd(s, k)}

\* Every variable has its type.
ContextTypes ==
    /\ Len(messages) <= FileCap
    /\ cursor \in 0 .. Len(messages)
    /\ units \in 0 .. MaxUnits
    /\ inflight # <<>> => Running

\* A provider accepts the request: results stand right after their call, each
\* once, and every call has all of its results; wherever the cap, the window,
\* the snip cut.
RequestLegal ==
    Running =>
        LET r == Request
        IN \A k \in DOMAIN r :
            /\ r[k].role = "tool" =>
                  \E j \in 1 .. k - 1 : r[k].of \in r[j].calls \cap Answers(r, j)
            /\ r[k].calls \subseteq Answers(r, k)
            /\ \A j \in 1 .. k - 1 :
                  r[j].role = "tool" /\ r[k].role = "tool" => r[j].of # r[k].of

\* What the turn consists of is sent, from its latest user message on and to the
\* end: the message to answer, or a follow-up that was joined to it.  The whole
\* turn is sent, with its first message, when it fits the budget by itself.
TurnSent ==
    Running =>
        LET r == Request
            turn == Governed(<<User>> \o inflight)
            sent == IF Tokens(Shrunk(turn, Replaced)) < Budget THEN turn
                    ELSE From(turn, Max(UserAt(turn)))
            at == Len(r) - Len(sent)
        IN /\ at >= 1
           /\ \A k \in DOMAIN sent : r[at + k].role = sent[k].role
                                    /\ r[at + k].of = sent[k].of

\* A request that exceeds the budget holds nothing but the system prompt and
\* what follows the latest user message.
OnlyTheTurnExceeds ==
    Running =>
        LET r == Request
        IN Tokens(r) > Budget => Cardinality(UserAt(r)) = 1

\* The governor replaces results of the running turn only, and no request
\* exceeds the budget while a replaceable one of them is large: the first unless
\* a repair has made the history longer than when the turn started, the second
\* unless one has made it shorter, which moves the index of the turn's start.
InflightOnly ==
    Running =>
        LET r == Request
            own == {inflight[k].of : k \in DOMAIN inflight}
        IN /\ Len(Governed(initial)) <= Len(initial) => compacted \subseteq own
           /\ Len(Governed(initial)) >= Len(initial) /\ Tokens(r) > Budget =>
                  \A k \in DOMAIN r :
                      r[k].of \in own /\ r[k].compactable => r[k].size # Big

\* All that is behind o is replayed: there is no slash command, and nothing
\* before the first message of a user.  Then the tokens that consolidation
\* removes are tokens of the history.
AllReplayed(s, o) ==
    /\ \A k \in o + 1 .. Len(s) : s[k].of # -1
    /\ o < Len(s) => IsUser(s[o + 1])

\* When one of the messages in the replay window is a user's, what the window or
\* the token limit hides was archived: the history a turn starts from has every
\* message behind the cursor, from the first user message on and slash commands
\* apart.  Only a tail over the limit may lose its beginning, when consolidation
\* has removed messages that are never replayed.
HiddenArchivedWithUser ==
    ~Running /\ UserAt(From(messages, Max({1, Len(messages) - Window + 1}))) # {} =>
        \A c \in Consolidated(messages, cursor) :
            LET users == {k \in UserAt(messages) : k > c /\ messages[k].of # -1}
                tail == Visible(From(messages, Min(users)))
            IN users # {} => \A sub \in BOOLEAN :
                   \/ IsSuffix(tail, History(messages, c, Window, sub, Replay))
                   \/ /\ Tokens(tail) > Replay
                      /\ ~AllReplayed(messages, Overflow(messages, cursor))

\* The request a provider gets: of its types, legal, with the turn, and within
\* the budget as far as the turn allows.
RequestSound == ContextTypes /\ RequestLegal /\ TurnSent /\ OnlyTheTurnExceeds
=============================================================================
