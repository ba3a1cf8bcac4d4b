------------------------------ MODULE SseFilter ------------------------------
(***************************************************************************)
(* SseThinkFilter (localx-llama-runtime, nothink.rs): the events of one    *)
(* streamed answer, their text passed through one ThinkStripper.  The      *)
(* operators of this module work on the filter's state, a record; the      *)
(* stream that calls them is ProxyStream.                                  *)
(*                                                                         *)
(* An event is what transform_event distinguishes: an OpenAI delta, an     *)
(* Anthropic content_block_start, text_delta or content_block_stop of a    *)
(* block, or the terminal marker ([DONE], message_stop).  Others pass      *)
(* through untouched and are left out.  Each event has one data line.      *)
(***************************************************************************)
EXTENDS ThinkScan

CONSTANT Blocks   \* content block indices

NoShape == [dialect |-> "none", index |-> 0]
OpenAi == [dialect |-> "openai", index |-> 0]
Anthropic(i) == [dialect |-> "anthropic", index |-> i]

OpenAiDelta(text) == [kind |-> "delta", index |-> 0, text |-> text]
TextDelta(i, text) == [kind |-> "text", index |-> i, text |-> text]
BlockStart(i) == [kind |-> "start", index |-> i, text |-> <<>>]
BlockStop(i) == [kind |-> "stop", index |-> i, text |-> <<>>]
Terminal == [kind |-> "end", index |-> 0, text |-> <<>>]

\* pending: an event of which only a part arrived; out: the frames a call returns.
NewFilter ==
  [pending |-> <<>>, stripper |-> Fresh, shape |-> NoShape, blocks |-> {}, out |-> <<>>]

\* Op(value), with value evaluated once.
Through(Op(_), value) == CHOOSE result \in {Op(v) : v \in {value}} : TRUE

Turn(st) == IF st.going THEN Scan(st) ELSE st

\* ThinkStripper::push in one step: the turns of its loop one after another.
\* Each takes a tag or gives a span up, except the last.
StripperPush(st, chunk) ==
  LET turns == Len(st.buf) + Len(chunk) + 2
      turn[n \in 0..turns] ==
        IF n = 0 THEN Take(st, chunk) ELSE Through(Turn, turn[n - 1])
  IN  turn[turns]

\* What the stripper gathered is handed out.
Handed(st) == [st EXCEPT !.out = <<>>]

\* DeltaShape::data_frame
DataFrame(shape, text) ==
  IF shape.dialect = "openai" THEN OpenAiDelta(text) ELSE TextDelta(shape.index, text)

\* The held tail as a frame of its own, if there is one and its shape is known.
TailFrames(f) ==
  LET tail == Flush(f.stripper).out
  IN  IF tail # <<>> /\ f.shape # NoShape THEN <<DataFrame(f.shape, tail)>> ELSE <<>>

-----------------------------------------------------------------------------
(* transform_event, in the order of the code. *)

\* Mutant of OpenBlock: a start is made up for every text delta.
OpenAlways(f, ev) ==
  CASE ev.kind = "start" -> [f EXCEPT !.blocks = @ \cup {ev.index}]
    [] ev.kind = "text" ->
         [f EXCEPT !.blocks = @ \cup {ev.index}, !.out = Append(@, BlockStart(ev.index))]
    [] OTHER -> f

\* A start is recorded; one that never came is made up before the first text.
OpenBlock(f, ev) ==
  CASE ev.kind = "start" -> [f EXCEPT !.blocks = @ \cup {ev.index}]
    [] ev.kind = "text" /\ ev.index \notin f.blocks ->
         [f EXCEPT !.blocks = @ \cup {ev.index}, !.out = Append(@, BlockStart(ev.index))]
    [] OTHER -> f

\* Mutant of ReleaseTail: only the terminal marker releases the tail.
ReleaseAtTerminal(f, ev) ==
  IF ev.kind = "end"
    THEN [f EXCEPT !.out = @ \o TailFrames(f), !.stripper = Fresh]
    ELSE f

\* The held tail goes out before the terminal marker or the end of a block.
ReleaseTail(f, ev) ==
  IF ev.kind \in {"end", "stop"}
    THEN [f EXCEPT !.out = @ \o TailFrames(f), !.stripper = Fresh]
    ELSE f

\* rewrite_data: the text of a delta goes through the stripper.
Rewrite(f, ev) ==
  IF ev.kind \in {"delta", "text"}
    THEN LET Passed(st) ==
               [f EXCEPT !.shape = IF ev.kind = "delta" THEN OpenAi ELSE Anthropic(ev.index),
                         !.stripper = Handed(st),
                         !.out = Append(@, [ev EXCEPT !.text = st.out])]
         IN  Through(Passed, StripperPush(f.stripper, ev.text))
    ELSE [f EXCEPT !.out = Append(@, ev)]

\* A stopped block is forgotten.
CloseBlock(f, ev) ==
  IF ev.kind = "stop"
    THEN [f EXCEPT !.blocks = @ \ {ev.index},
                   !.shape = IF @ = Anthropic(ev.index) THEN NoShape ELSE @]
    ELSE f

TransformEvent(f, ev) ==
  LET Open(g) == OpenBlock(g, ev)
      Release(g) == ReleaseTail(g, ev)
      Pass(g) == Rewrite(g, ev)
      Close(g) == CloseBlock(g, ev)
  IN  Through(Close, Through(Pass, Through(Release, Through(Open, f))))

\* push: every event that is complete by now is transformed in turn.
FilterPush(f, complete, partial) ==
  LET after[n \in 0..Len(complete)] ==
        IF n = 0 THEN [f EXCEPT !.out = <<>>]
        ELSE Through(LAMBDA g : TransformEvent(g, complete[n]), after[n - 1])
  IN  [after[Len(complete)] EXCEPT !.pending = partial]

\* finish: the tail, then a trailing partial event as it is.
FilterFinish(f) ==
  [f EXCEPT !.out = TailFrames(f) \o
                      [n \in DOMAIN f.pending |-> [kind |-> "partial", index |-> 0, text |-> <<>>]],
            !.stripper = Fresh,
            !.pending = <<>>]
=============================================================================
