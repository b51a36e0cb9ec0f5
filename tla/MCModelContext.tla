--------------------------- MODULE MCModelContext ----------------------------
(* An instance of ModelContext for TLC.  The code computes in loops: they are *)
(* written here and compared with the definitions of ModelContext.            *)
EXTENDS ModelContext

\* Large results alone and with others, of tools that are compacted and of one
\* that is not; a follow-up behind them; an error with a follow-up.
MCRounds ==
    {[outcomes |-> <<"large">>, joined |-> <<>>],
     [outcomes |-> <<"large">>, joined |-> <<User>>],
     [outcomes |-> <<"large", "small">>, joined |-> <<>>],
     [outcomes |-> <<"other">>, joined |-> <<User>>],
     [outcomes |-> <<"other", "large">>, joined |-> <<>>],
     [outcomes |-> <<"small">>, joined |-> <<Reply, User>>]}
-----------------------------------------------------------------------------
(* The loops *)

LoopTokens(s) == FoldLeft(LAMBDA n, m : n + m.size, 0, s)

\* find_legal_message_start: after the last result whose call is not in sight.
LoopLegalStart(s) ==
    FoldLeftDomain(
        LAMBDA acc, k :
            IF s[k].role = "tool" /\ s[k].of \notin acc.declared
            THEN [start |-> k + 1, declared |-> {}]
            ELSE [acc EXCEPT !.declared = @ \cup s[k].calls],
        [start |-> 1, declared |-> {}], s).start

\* drop_orphan_tool_results
LoopNoOrphans(s) ==
    FoldLeft(
        LAMBDA acc, m :
            IF m.role = "tool" /\ m.of \notin acc.declared \ acc.answered
            THEN acc
            ELSE [kept |-> Append(acc.kept, m),
                  declared |-> acc.declared \cup m.calls,
                  answered |-> IF m.role = "tool" THEN acc.answered \cup {m.of}
                               ELSE acc.answered],
        [kept |-> <<>>, declared |-> {}, answered |-> {}], s).kept

\* backfill_missing_tool_results
LoopBackfilled(s) ==
    LET answered == {s[k].of : k \in {j \in DOMAIN s : s[j].role = "tool"}}
        missing(k) == SetToSortSeq(s[k].calls \ answered, <)
        owner(k) == CHOOSE j \in 1 .. k :
                        s[j].role # "tool" /\ \A i \in j + 1 .. k : s[i].role = "tool"
        ends(k) == (k = Len(s) \/ s[k + 1].role # "tool")
                   /\ \E j \in 1 .. k : s[j].role # "tool"
    IN FlattenSeq([k \in DOMAIN s |->
           IF ends(k) THEN <<s[k]>> \o [i \in DOMAIN missing(owner(k)) |->
                                           Result(missing(owner(k))[i], "small")]
           ELSE <<s[k]>>])

\* compact_inflight_overflow
LoopCompacted(s, start, ids) ==
    LET r == Shrunk(s, ids)
        large == SelectSeq(From(r, start + 1),
                           LAMBDA m : m.role = "tool" /\ m.compactable /\ m.size = Big)
        step(acc, i) ==
            LET t == Tokens(Shrunk(s, acc.ids))
            IN IF acc.stop \/ (i = Len(large) /\ t <= Budget)
               THEN [acc EXCEPT !.stop = TRUE]
               ELSE LET more == acc.ids \cup {large[i].of}
                    IN [ids |-> more, stop |-> Tokens(Shrunk(s, more)) <= Target]
    IN IF Tokens(r) <= Budget THEN ids
       ELSE FoldLeftDomain(step, [ids |-> ids, stop |-> FALSE], large).ids
-----------------------------------------------------------------------------
(* They compute what the definitions say. *)

Sample == {User, SlashUser, Placeholder, Call({1}), Call({2, 3}),
           Result(1, "small"), Result(2, "large"), Result(3, "other")}
Samples == UNION {[1 .. n -> Sample] : n \in 0 .. 4}

ASSUME LoopsAgree ==
    \A s \in Samples :
        /\ LoopTokens(s) = Tokens(s)
        /\ LoopLegalStart(s) = LegalStart(s)
        /\ LoopNoOrphans(s) = NoOrphans(s)
        /\ LoopBackfilled(NoOrphans(s)) = Backfilled(NoOrphans(s))
        /\ SelectSeq(s, LAMBDA m : m.role # "placeholder") = NoPlaceholders(s)

\* The results of a turn have different calls.
Turns == {<<User>> \o [k \in 1 .. n |-> Result(k, outcome[k])] :
             <<n, outcome>> \in {<<0, <<>>>>}
             \cup UNION {{n} \X [1 .. n -> Outcomes] : n \in 1 .. 4}}

ASSUME CompactionAgrees ==
    \A s \in Turns, start \in 1 .. 3, ids \in SUBSET (1 .. 3) :
        LoopCompacted(s, start, ids) = Compacted(s, start, ids)
=============================================================================
