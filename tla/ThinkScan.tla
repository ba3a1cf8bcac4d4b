------------------------------ MODULE ThinkScan ------------------------------
(***************************************************************************)
(* The text operators of the no-think filter (localx-llama-runtime,        *)
(* nothink.rs): strip_think, which takes the spans out of a whole text,    *)
(* and one turn of the loop of ThinkStripper::push, which does it to text  *)
(* that arrives in pieces.  A text is a sequence of characters; its length *)
(* in bytes is what the limits are about.                                  *)
(***************************************************************************)
EXTENDS Integers, Sequences, FiniteSets

CONSTANTS
  Chars,          \* the characters that occur
  Wide,           \* those that take two bytes in UTF-8; the others take one
  OPEN,           \* the opening tag, a sequence of characters
  CLOSE,          \* the closing tag
  HOLDBACK,       \* bytes held back in case a tag is split
  THINK_BAILOUT   \* bytes of an unclosed span after which it is given up

\* "Longest tag is </think> (8); hold back 7", and the bailout is "far larger
\* than CLOSE.len()".  A tag starts with a character found nowhere else in it.
ASSUME ThinkAssumption ==
  /\ Wide \subseteq Chars
  /\ OPEN \in Seq(Chars \ Wide) /\ OPEN # <<>>
  /\ CLOSE \in Seq(Chars \ Wide) /\ Len(OPEN) < Len(CLOSE)
  /\ HOLDBACK = Len(CLOSE) - 1
  /\ THINK_BAILOUT \in Nat /\ THINK_BAILOUT > Len(CLOSE)

Bytes(text) == Len(text) + Cardinality({i \in DOMAIN text : text[i] \in Wide})

\* find: a tag starts at position i of the text; the first such position.
At(tag, text, i) == i + Len(tag) - 1 <= Len(text) /\ SubSeq(text, i, i + Len(tag) - 1) = tag
Occurs(tag, text) == \E i \in DOMAIN text : At(tag, text, i)
First(tag, text) ==
  CHOOSE i \in DOMAIN text : At(tag, text, i) /\ \A j \in 1..(i - 1) : ~At(tag, text, j)

Before(tag, text) == SubSeq(text, 1, First(tag, text) - 1)
After(tag, text) == SubSeq(text, First(tag, text) + Len(tag), Len(text))

\* strip_think: every closed span is taken out, and of one that is never closed
\* only the tag.
Stripped[text \in Seq(Chars)] ==
  IF ~Occurs(OPEN, text) THEN text
  ELSE LET after == After(OPEN, text)
       IN  Before(OPEN, text) \o
             IF Occurs(CLOSE, after) THEN Stripped[After(CLOSE, after)] ELSE after

StripThink(input) == Stripped[input]

-----------------------------------------------------------------------------
(* ThinkStripper: buf and in_think, the text a push has gathered in out, and *)
(* going while its loop runs.                                                *)

Fresh == [buf |-> <<>>, in_think |-> FALSE, out |-> <<>>, going |-> FALSE]

\* The most a push may release: all but the longest tail of HOLDBACK bytes that
\* starts at a character.
HoldbackStart(text) ==
  CHOOSE n \in 0..Len(text) :
    /\ Bytes(SubSeq(text, n + 1, Len(text))) <= HOLDBACK
    /\ \A m \in 0..(n - 1) : Bytes(SubSeq(text, m + 1, Len(text))) > HOLDBACK

\* </think> arrived: the span is dropped with its tag.
CloseSpan(st) == [st EXCEPT !.buf = After(CLOSE, @), !.in_think = FALSE]

\* The span is too long: all of it becomes visible text.
GiveUpSpan(st) == [st EXCEPT !.out = @ \o st.buf, !.buf = <<>>, !.in_think = FALSE]

\* <think> arrived: what precedes it is visible.
OpenSpan(st) ==
  [st EXCEPT !.out = @ \o Before(OPEN, st.buf), !.buf = After(OPEN, @), !.in_think = TRUE]

\* emit_safe_prefix, and the loop ends.
EmitSafePrefix(st) ==
  LET keep == HoldbackStart(st.buf)
  IN  [st EXCEPT !.out = @ \o SubSeq(st.buf, 1, keep),
                 !.buf = SubSeq(@, keep + 1, Len(@)),
                 !.going = FALSE]

GivesUp(st) == st.in_think /\ ~Occurs(CLOSE, st.buf) /\ Bytes(st.buf) > THINK_BAILOUT

\* Mutants of Scan: a kept span is trimmed to its last bytes (an earlier
\* version of the code); nothing gives a span up.
ScanTrimming(st) ==
  CASE st.in_think /\ Occurs(CLOSE, st.buf) -> CloseSpan(st)
    [] GivesUp(st) -> GiveUpSpan(st)
    [] st.in_think /\ ~Occurs(CLOSE, st.buf) /\ ~GivesUp(st)
         -> [EmitSafePrefix(st) EXCEPT !.out = st.out]
    [] ~st.in_think /\ Occurs(OPEN, st.buf) -> OpenSpan(st)
    [] OTHER -> EmitSafePrefix(st)

ScanPatient(st) ==
  CASE st.in_think /\ Occurs(CLOSE, st.buf) -> CloseSpan(st)
    [] st.in_think /\ ~Occurs(CLOSE, st.buf) -> [st EXCEPT !.going = FALSE]
    [] ~st.in_think /\ Occurs(OPEN, st.buf) -> OpenSpan(st)
    [] OTHER -> EmitSafePrefix(st)

\* One turn of the loop of push.
Scan(st) ==
  CASE st.in_think /\ Occurs(CLOSE, st.buf) -> CloseSpan(st)
    [] GivesUp(st) -> GiveUpSpan(st)
    [] st.in_think /\ ~Occurs(CLOSE, st.buf) /\ ~GivesUp(st) -> [st EXCEPT !.going = FALSE]
    [] ~st.in_think /\ Occurs(OPEN, st.buf) -> OpenSpan(st)
    [] OTHER -> EmitSafePrefix(st)

\* The chunk is appended and the loop begins.
Take(st, chunk) == [st EXCEPT !.buf = @ \o chunk, !.going = TRUE]

\* finish: what is held becomes visible.
Flush(st) == [Fresh EXCEPT !.out = st.out \o st.buf]
=============================================================================
