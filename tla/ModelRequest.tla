---------------------------- MODULE ModelRequest ----------------------------
(***************************************************************************)
(* Requests to the models: the retry loop of providers/base.py around the  *)
(* failover of providers/fallback_provider.py.                             *)
(*                                                                         *)
(* A request of the agent runner is a series of attempts; an attempt calls *)
(* the primary model and, when that fails, the fallback models in order.   *)
(* Requests of several sessions run at a time and share one provider, that *)
(* is, one circuit breaker of the primary.  The text of a call is streamed *)
(* to the user as it comes, in segments that only the runner's recover     *)
(* callback ends.  What an error is counts, not how it is worded.          *)
(***************************************************************************)
EXTENDS Naturals, FiniteSets

CONSTANTS
    Requests,   \* requests that may run at a time
    Plans,      \* what the requests may be: see Plan
    Fallbacks,  \* number of fallback presets
    Retries,    \* number of _CHAT_RETRY_DELAYS (3)
    Identical,  \* _PERSISTENT_IDENTICAL_ERROR_LIMIT (10)
    Threshold,  \* _PRIMARY_FAILURE_THRESHOLD (3)
    None

\* How the text is taken (not at all, as progress, as a stream that can start
\* a new segment), the retry mode, and whether the messages hold images.
Plan == [stream : {"none", "progress", "segments"}, persistent : BOOLEAN,
         images : BOOLEAN]

\* "timeout" and "busy" (429, 5xx, connection) may be retried; "quota" (402,
\* 401) may not, but another model may do; "refused" (400) is final.  "none"
\* is the error the wrapper makes up when no fallback could be built.
Errors == {"timeout", "busy", "quota", "refused"}
Kinds == Errors \cup {"none"}
Transient == {"timeout", "busy"}

ASSUME RequestAssumption ==
    /\ IsFiniteSet(Requests) /\ Plans \subseteq [Requests -> Plan] /\ Plans # {}
    /\ Fallbacks \in Nat \ {0} /\ Retries \in Nat
    /\ Identical \in Nat \ {0} /\ Threshold \in Nat \ {0}
    /\ None \notin Kinds \cup {"ok", "cancelled", "open", "half"}

VARIABLES
    plan,      \* of each request
    broken,    \* presets whose provider cannot be built
    failures,  \* _primary_failures
    breaker,   \* _primary_tripped_at: None, "open", or "half" after the cooldown
    req        \* the state of each request

vars == <<plan, broken, failures, breaker, req>>

\* at: where the request is; model: the one called (0 is the primary).
\* streamed, hushed: has_streamed[0] of the attempt, and no callback for the
\* rest of it.  shown, muted: the same for the request, has_streamed_content.
\* key, same: last_error_key, identical_error_count.  segment: whether the
\* current segment holds text of the current call ("now") and of earlier ones.
\* calls: history, the calls made, counted as far as they are compared.
Fresh == [at |-> "new", model |-> 0, attempt |-> 0, streamed |-> FALSE,
          hushed |-> FALSE, shown |-> FALSE, muted |-> FALSE, key |-> None,
          same |-> 0, images |-> "kept", segment |-> {}, calls |-> 0,
          result |-> None]

Init ==
    /\ plan \in Plans
    /\ broken \in SUBSET (1 .. Fallbacks)
    /\ failures = 0 /\ breaker = None
    /\ req = [r \in Requests |-> Fresh]

Segments(r) == plan[r].stream = "segments"
Set(r, q) == req' = [req EXCEPT ![r] = q]
-----------------------------------------------------------------------------
(* One call of a model *)

Working(first) == {m \in first .. Fallbacks : m \notin broken}
First(s) == CHOOSE m \in s : \A n \in s : m <= n

\* Fault: the breaker is not asked.
ChainAnyway == {0}

\* _primary_available: the models from which the first of an attempt is taken,
\* with the breaker as the step leaves it.  After the cooldown every request
\* that comes before the next failure or success tries the primary.
Chain == IF breaker' # "open" THEN {0} ELSE Working(1)

\* The calls of a request in standard mode: the attempts, and one without images.
Limit == (Retries + 2) * (Fallbacks + 1)

\* The call of model m; what was streamed before is now of an earlier call.
Called(q, m) ==
    [q EXCEPT !.at = "call", !.model = m, !.calls = IF @ > Limit THEN @ ELSE @ + 1,
              !.segment = IF @ = {} THEN {} ELSE {"old"}]

\* An attempt starts over with the flags of the wrapper.
Begun(q) == [Called(q, First(Chain)) EXCEPT !.streamed = FALSE, !.hushed = FALSE]

\* A piece of text arrives.  The wrapper notes it even when nobody listens.
Delta(r) ==
    LET q == req[r]
    IN /\ q.at = "call" /\ plan[r].stream # "none"
       /\ Set(r, IF q.hushed THEN q
                 ELSE IF q.muted THEN [q EXCEPT !.streamed = TRUE]
                 ELSE [q EXCEPT !.streamed = TRUE, !.shown = TRUE,
                                !.segment = @ \cup {"now"}])
       /\ UNCHANGED <<plan, broken, failures, breaker>>

\* on_stream_recover: the runner ends the segment on the user's side.
Recovered(q) == [q EXCEPT !.streamed = FALSE, !.shown = FALSE, !.segment = {}]
-----------------------------------------------------------------------------
(* _run_with_retry: what the loop makes of the response of an attempt *)

\* What is left of a request that ended.
Ended(q, result) ==
    [Fresh EXCEPT !.at = "done", !.result = result, !.segment = q.segment,
                  !.images = q.images]

\* It sleeps; what the wrapper kept of the attempt is gone.
Waiting(q) ==
    [q EXCEPT !.at = "wait", !.model = 0, !.streamed = FALSE, !.hushed = FALSE]

\* Fault: the images go before the model has answered without them.
StrippedAtOnce(q, kind) == IF q.images = "bare" THEN "gone" ELSE q.images

\* Images leave the transcript only when the model has answered without them.
Stripped(q, kind) ==
    IF q.images # "bare" THEN q.images
    ELSE IF kind = "ok" THEN "gone" ELSE "kept"

\* Fault: a stalled stream goes on where it was.
ContinuedInSegment(r, q) == q

\* should_retry_guard: text was shown, and only a stalled stream may go on.
Guarded(q, kind) == q.shown /\ ~q.muted /\ kind # "timeout"

\* A stalled stream goes on in a new segment or, without one, unseen.
Continued(r, q) ==
    IF ~q.shown \/ q.muted THEN q
    ELSE IF Segments(r) THEN Recovered(q) ELSE [q EXCEPT !.muted = TRUE]

\* The count of identical errors; the texts may differ within a kind.
Counted(r, q, kind, again) ==
    IF ~plan[r].persistent THEN q
    ELSE [q EXCEPT !.key = kind, !.same = IF again THEN @ + 1 ELSE 1]

\* Fault: only identical errors end the loop.
ExhaustedByCount(r, q) == q.same >= Identical

Exhausted(r, q) ==
    IF plan[r].persistent THEN q.same >= Identical ELSE q.attempt > Retries

\* After an error that no retry mends the messages are sent once without their
\* images; the response ends the request.
WithoutImages(q) ==
    IF Chain # {} THEN Begun([q EXCEPT !.images = "bare"]) ELSE Ended(q, "none")

\* What becomes of request q when an attempt returns kind.
Handled(r, q, kind, again) ==
    IF kind = "ok" \/ q.images = "bare"
    THEN Ended([q EXCEPT !.images = Stripped(q, kind)], kind)
    ELSE IF Guarded(q, kind) THEN Ended(q, kind)
    ELSE LET p == Counted(r, Continued(r, q), kind, again)
         IN IF kind \notin Transient
            THEN IF plan[r].images THEN WithoutImages(p) ELSE Ended(p, kind)
            ELSE IF Exhausted(r, p) THEN Ended(p, kind) ELSE Waiting(p)

\* The same error text as the attempt before.
MaySame(r, q, kind) ==
    IF plan[r].persistent /\ q.key = kind THEN BOOLEAN ELSE {FALSE}

Responds(r, q, kind) ==
    \E again \in MaySame(r, q, kind) : Set(r, Handled(r, q, kind, again))
-----------------------------------------------------------------------------
(* _try_with_fallback *)

\* The next preset that can be built is called; if there is none, the last
\* response of a fallback is the attempt's, or else an error made up for it.
Advance(r, q, first, last) ==
    IF Working(first) # {} THEN Set(r, Called(q, First(Working(first))))
    ELSE Responds(r, q, last)

\* An attempt begins: the primary, or its fallbacks while the breaker is open.
\* (The persistent mode does not look at the number.)
Attempt(r) ==
    LET q == [req[r] EXCEPT !.attempt = IF @ > Retries THEN @ ELSE @ + 1]
    IN /\ q.at \in {"new", "wait"}
       /\ UNCHANGED <<plan, broken, failures, breaker>>
       /\ IF Chain # {} THEN Set(r, Begun(q)) ELSE Responds(r, q, "none")

\* A success closes the breaker.
Reset == failures' = 0 /\ breaker' = None

PrimaryAnswers(r) ==
    /\ req[r].at = "call" /\ req[r].model = 0
    /\ Reset
    /\ Responds(r, req[r], "ok")
    /\ UNCHANGED <<plan, broken>>

\* Fault: the next model goes on in the segment of the stalled one.
StalledLeft(r, q) == [q EXCEPT !.streamed = FALSE]

\* The failure is counted (as far as it is compared).
CountFailure ==
    /\ failures' = IF failures < Threshold THEN failures + 1 ELSE failures
    /\ breaker' = IF failures + 1 >= Threshold THEN "open" ELSE breaker

\* A model whose stream stalled is followed by another in a new segment or,
\* without one, unseen.
Stalled(r, q) ==
    IF ~q.streamed THEN q
    ELSE IF Segments(r) THEN Recovered(q)
    ELSE [q EXCEPT !.streamed = FALSE, !.hushed = TRUE]

\* The primary fails: after text only a stall is passed on to the fallbacks,
\* before it every error but a refusal.
PrimaryFails(r, kind) ==
    LET q == req[r]
    IN /\ q.at = "call" /\ q.model = 0
       /\ IF (q.streamed /\ kind # "timeout") \/ kind = "refused"
          THEN UNCHANGED <<failures, breaker>> /\ Responds(r, q, kind)
          ELSE CountFailure /\ Advance(r, Stalled(r, q), 1, "none")
       /\ UNCHANGED <<plan, broken>>

\* A fallback returns.  After text the next one is tried only if the stream
\* stalled and a new segment can be started.
FallbackReturns(r, kind) ==
    LET q == req[r]
    IN /\ q.at = "call" /\ q.model # 0
       /\ UNCHANGED <<plan, broken, failures, breaker>>
       /\ IF kind = "ok" \/ q.model = Fallbacks
             \/ (q.streamed /\ ~(kind = "timeout" /\ Segments(r)))
          THEN Responds(r, q, kind)
          ELSE Advance(r, Stalled(r, q), q.model + 1, kind)

\* Sixty seconds after the last failure that tripped it.
CoolDown ==
    /\ breaker = "open"
    /\ breaker' = "half"
    /\ UNCHANGED <<plan, broken, failures, req>>

\* The turn is stopped, or the runner's timeout for the whole request ends.
Cancel(r) ==
    /\ req[r].at \in {"call", "wait"}
    /\ Set(r, [Ended(req[r], "cancelled") EXCEPT !.images =
                 IF @ = "bare" THEN "kept" ELSE @])
    /\ UNCHANGED <<plan, broken, failures, breaker>>

\* The session's next request.
Again(r) ==
    /\ req[r].at = "done"
    /\ Set(r, Fresh)
    /\ UNCHANGED <<plan, broken, failures, breaker>>

Returns(r) ==
    \/ PrimaryAnswers(r)
    \/ \E kind \in Errors : PrimaryFails(r, kind)
    \/ \E kind \in Errors \cup {"ok"} : FallbackReturns(r, kind)

Next ==
    \/ CoolDown
    \/ \E r \in Requests : Attempt(r) \/ Delta(r) \/ Returns(r) \/ Cancel(r) \/ Again(r)

Spec == Init /\ [][Next]_vars

\* A call returns (providers have timeouts, and the runner one for all), and a
\* wait ends; a request need not be made, or cancelled.
FairSpec ==
    /\ Spec
    /\ \A r \in Requests :
          WF_vars(Returns(r)) /\ WF_vars(Attempt(r) /\ req[r].at # "new")
-----------------------------------------------------------------------------
(* Properties *)

\* Every variable has its type, and the breaker is tripped only by as many
\* failures as it takes.
TypeOK ==
    /\ plan \in Plans /\ broken \subseteq 1 .. Fallbacks
    /\ failures \in 0 .. Threshold
    /\ breaker \in {None, "open", "half"}
    /\ breaker # None => failures = Threshold
    /\ \A r \in Requests :
          /\ req[r].at \in {"new", "call", "wait", "done"}
          /\ req[r].model \in 0 .. Fallbacks
          /\ req[r].attempt \in 0 .. Retries + 1
          /\ req[r].same \in 0 .. Identical
          /\ req[r].images \in {"kept", "bare", "gone"}
          /\ req[r].result \in Kinds \cup {"ok", "cancelled", None}
          /\ req[r].result # None <=> req[r].at = "done"

\* No segment the user sees holds text of two calls, whichever layer repeats a
\* call after how much text ("Skipped when content was already streamed to
\* avoid duplicate output", fallback_provider.py).
SegmentPure == \A r \in Requests : req[r].segment # {"old", "now"}

\* When a stream can start new segments the last one shows the answer and not
\* the beginning of one that was given up.
LastSegmentIsAnswer ==
    \A r \in Requests :
        Segments(r) /\ req[r].result = "ok" => "old" \notin req[r].segment

\* The two loops multiply: a request calls no model more often than there are
\* delays, one try without images included.
CallsBounded ==
    \A r \in Requests : ~plan[r].persistent => req[r].calls <= Limit

\* Images leave the transcript only when the model has answered without them.
ImagesKept == \A r \in Requests : req[r].images = "gone" => req[r].result = "ok"

\* While the breaker is open no request turns to the primary, neither a new
\* one nor a retry nor the try without images.
BreakerHolds ==
    [][\A r \in Requests :
          breaker' = "open" /\ req'[r].at = "call" /\ req'[r].model = 0 =>
              req[r].at = "call" /\ req[r].model = 0
              /\ req[r].images = req'[r].images]_vars

\* A request ends; one in persistent mode unless its errors keep changing.
RequestEnds ==
    \A r \in Requests :
        []<>(\/ req[r].at \in {"new", "done"}
             \/ plan[r].persistent /\ req[r].at = "wait" /\ req[r].same = 1)

\* What the user sees of a request: segments of one call each, the last one the
\* answer.
SegmentsWhole == SegmentPure /\ LastSegmentIsAnswer

\* What a request costs and changes: calls within their bound, and no images
\* lost to a try that failed.
CallsSound == TypeOK /\ CallsBounded /\ ImagesKept
=============================================================================
