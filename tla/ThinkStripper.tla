---------------------------- MODULE ThinkStripper ----------------------------
(***************************************************************************)
(* ThinkStripper (localx-llama-runtime, nothink.rs) over one text that     *)
(* arrives in chunks cut anywhere, a tag or a span across several of them. *)
(* A push is a Feed step and then one Iterate step per turn of its loop.   *)
(***************************************************************************)
EXTENDS ThinkScan

CONSTANTS
  Chunks,   \* the chunks that may arrive
  MaxFed    \* bound: characters that arrive in all

ASSUME ChunksAssumption == Chunks \subseteq Seq(Chars)

VARIABLES
  stripper,   \* [buf, in_think, out, going]; out gathers over all pushes
  fed,        \* history: the text that arrived since the last bailout
  expected,   \* history: strip_think of each text a bailout ended, joined
  over        \* finish was called

feedVars == <<stripper, fed, expected, over>>

FeedInit ==
  /\ stripper = Fresh
  /\ fed = <<>>
  /\ expected = <<>>
  /\ over = FALSE

Feed(chunk) ==
  /\ ~over /\ ~stripper.going
  /\ Len(fed) + Len(expected) + Len(chunk) <= MaxFed
  /\ stripper' = Take(stripper, chunk)
  /\ fed' = fed \o chunk
  /\ UNCHANGED <<expected, over>>

Iterate ==
  /\ stripper.going
  /\ stripper' = Scan(stripper)
  /\ IF GivesUp(stripper)
       THEN expected' = expected \o StripThink(fed) /\ fed' = <<>>
       ELSE UNCHANGED <<expected, fed>>
  /\ UNCHANGED over

Finish ==
  /\ ~over /\ ~stripper.going
  /\ stripper' = Flush(stripper)
  /\ over' = TRUE
  /\ UNCHANGED <<fed, expected>>

FeedNext == Iterate \/ Finish \/ \E chunk \in Chunks : Feed(chunk)

FeedSpec == FeedInit /\ [][FeedNext]_feedVars

-----------------------------------------------------------------------------
StripperOK ==
  /\ stripper \in [buf : Seq(Chars), in_think : BOOLEAN, out : Seq(Chars), going : BOOLEAN]
  /\ over => stripper = [Fresh EXCEPT !.out = stripper.out]   \* fit for the next text

FeedTypeOK ==
  /\ StripperOK
  /\ fed \in Seq(Chars)
  /\ expected \in Seq(Chars)
  /\ over \in BOOLEAN

\* "Split-tag-safe across SSE chunks": however the text was cut, the stripper
\* shows what strip_think leaves of the whole; a bailout ends one text, with
\* its open span shown, and begins the next.
StreamIsStrip == over => stripper.out = expected \o StripThink(fed)

\* Between pushes no more is held than a tail that could begin a tag, or a span
\* that is not too long: the visible reply is never held hostage.
HeldIsBounded ==
  ~stripper.going =>
    /\ Bytes(stripper.buf) <= IF stripper.in_think THEN THINK_BAILOUT ELSE HOLDBACK
    /\ stripper.in_think => ~Occurs(CLOSE, stripper.buf)
    /\ ~stripper.in_think => ~Occurs(OPEN, stripper.buf)
=============================================================================
