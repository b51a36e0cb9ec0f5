--------------------------- MODULE MCModelRequest ---------------------------
(* An instance of ModelRequest for TLC: which requests are made together. *)
EXTENDS ModelRequest

CONSTANTS r1, r2

Of(stream, persistent, images) ==
    [stream |-> stream, persistent |-> persistent, images |-> images]

Both(p, q) == [r \in Requests |-> IF r = r1 THEN p ELSE q]

\* A stream with images beside progress text, beside another stream, and two
\* requests that are persistent.
MCPlans == {Both(Of("segments", FALSE, TRUE), Of("progress", FALSE, FALSE)),
            Both(Of("segments", FALSE, FALSE), Of("segments", FALSE, TRUE)),
            Both(Of("segments", TRUE, FALSE), Of("none", TRUE, TRUE))}
=============================================================================
