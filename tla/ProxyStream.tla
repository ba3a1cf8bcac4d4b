----------------------------- MODULE ProxyStream -----------------------------
(***************************************************************************)
(* sse_think_stream (localx-llama-runtime, proxy.rs): one streamed answer  *)
(* on its way through the proxy.  The server sends events; the transport   *)
(* cuts them into chunks anywhere, ends cleanly or breaks off; the stream  *)
(* filters, flushes and reports; the client reads item after item.         *)
(*                                                                         *)
(* The server is the environment.  It answers in one dialect; Anthropic's  *)
(* blocks follow one another, and their starts may be missing, which the   *)
(* filter is there to repair.                                              *)
(***************************************************************************)
EXTENDS SseFilter

CONSTANTS
  Texts,      \* the texts a delta may carry
  MaxEvents,  \* bound: events the server sends
  MaxWire     \* bound: events on their way at once, which one chunk may complete

ASSUME StreamAssumption == Texts \subseteq Seq(Chars) /\ Blocks \subseteq Nat

VARIABLES
  dialect,    \* the server's: "openai" or "anthropic"
  block,      \* the server's current block: [index, open]
  wire,       \* events sent but not yet received by the proxy
  arrived,    \* history: events the filter has received whole
  upstream,   \* "flowing", "eof" or "broken"
  filter,     \* the SseThinkFilter
  phase,      \* "streaming", "erroring" or "done"
  delivered,  \* frames the client has read
  client      \* "reading", "ended" or "aborted"

serverVars == <<dialect, block>>
vars == <<serverVars, wire, arrived, upstream, filter, phase, delivered, client>>

Init ==
  /\ dialect \in {"openai", "anthropic"}
  /\ block = [index |-> 0, open |-> FALSE]
  /\ wire = <<>>
  /\ arrived = <<>>
  /\ upstream = "flowing"
  /\ filter = NewFilter
  /\ phase = "streaming"
  /\ delivered = <<>>
  /\ client = "reading"

-----------------------------------------------------------------------------
(* The server. *)

Has(events, ev) == \E i \in DOMAIN events : events[i] = ev
Sent == arrived \o filter.pending \o wire

Sends(ev) ==
  /\ upstream = "flowing"
  /\ Len(Sent) < MaxEvents /\ Len(wire) < MaxWire
  /\ ~Has(Sent, Terminal)
  /\ wire' = Append(wire, ev)
  /\ UNCHANGED <<dialect, arrived, upstream, filter, phase, delivered, client>>

SendDelta(text) == dialect = "openai" /\ Sends(OpenAiDelta(text)) /\ UNCHANGED block

SendStart ==
  /\ dialect = "anthropic" /\ ~block.open
  /\ Sends(BlockStart(block.index))
  /\ block' = [block EXCEPT !.open = TRUE]

\* Also the first event of a block, from a server that leaves the start out.
SendText(text) ==
  /\ dialect = "anthropic"
  /\ Sends(TextDelta(block.index, text))
  /\ block' = [block EXCEPT !.open = TRUE]

SendStop ==
  /\ dialect = "anthropic" /\ block.open /\ block.index + 1 \in Blocks
  /\ Sends(BlockStop(block.index))
  /\ block' = [index |-> block.index + 1, open |-> FALSE]

SendTerminal == Sends(Terminal) /\ UNCHANGED block

Server ==
  \/ SendStart \/ SendStop \/ SendTerminal
  \/ \E text \in Texts : SendDelta(text) \/ SendText(text)

\* The answer ends, or the connection breaks off and what is under way is lost;
\* either may come in the middle of an event.
Upstream(how) ==
  /\ upstream = "flowing"
  /\ how = "eof" => wire = <<>>
  /\ upstream' = how
  /\ wire' = <<>>
  /\ UNCHANGED <<serverVars, arrived, filter, phase, delivered, client>>

-----------------------------------------------------------------------------
(* The stream: one poll of the unfold is one item for the client. *)

Yield(f) ==
  /\ filter' = f
  /\ delivered' = delivered \o f.out

\* Some(Ok(chunk)): it completes the pending event, if there is one, and n
\* others, and may cut the next.
Chunk(n, cut) ==
  LET complete == filter.pending \o SubSeq(wire, 1, n)
      begun == IF cut THEN 1 ELSE 0
  IN  /\ phase = "streaming"
      /\ upstream = "flowing"
      /\ n + begun <= Len(wire)
      /\ complete # <<>> \/ cut
      /\ \E f \in {FilterPush(filter, complete, SubSeq(wire, n + 1, n + begun))} : Yield(f)
      /\ arrived' = arrived \o complete
      /\ wire' = SubSeq(wire, n + begun + 1, Len(wire))
      /\ UNCHANGED <<serverVars, upstream, phase, client>>

\* Mutant of UpstreamFails: the error is taken for the end of the answer.
EndsGracefully ==
  /\ phase = "streaming"
  /\ upstream = "broken"
  /\ Yield(FilterFinish(filter))
  /\ phase' = "done"
  /\ UNCHANGED <<serverVars, wire, arrived, upstream, client>>

\* Some(Err(e)): what is held goes first, the error on the next poll.
UpstreamFails ==
  /\ phase = "streaming"
  /\ upstream = "broken"
  /\ Yield(FilterFinish(filter))
  /\ IF FilterFinish(filter).out = <<>>
       THEN phase' = "done" /\ client' = "aborted"
       ELSE phase' = "erroring" /\ UNCHANGED client
  /\ UNCHANGED <<serverVars, wire, arrived, upstream>>

\* Phase::Erroring
ErrorSurfaces ==
  /\ phase = "erroring"
  /\ phase' = "done"
  /\ client' = "aborted"
  /\ UNCHANGED <<serverVars, wire, arrived, upstream, filter, delivered>>

\* Mutant of UpstreamEnds: the phase is not advanced.
EndsAgain ==
  /\ phase = "streaming"
  /\ upstream = "eof"
  /\ Yield(FilterFinish(filter))
  /\ UNCHANGED <<serverVars, wire, arrived, upstream, phase, client>>

\* None: the answer is complete.
UpstreamEnds ==
  /\ phase = "streaming"
  /\ upstream = "eof"
  /\ Yield(FilterFinish(filter))
  /\ phase' = "done"
  /\ UNCHANGED <<serverVars, wire, arrived, upstream, client>>

\* Phase::Done: the body ends, unless the error already aborted it.
Done ==
  /\ phase = "done"
  /\ client = "reading"
  /\ client' = "ended"
  /\ UNCHANGED <<serverVars, wire, arrived, upstream, filter, phase, delivered>>

Stream ==
  \/ \E n \in 0..MaxWire, cut \in BOOLEAN : Chunk(n, cut)
  \/ UpstreamFails \/ ErrorSurfaces \/ UpstreamEnds \/ Done

Next == Server \/ (\E how \in {"eof", "broken"} : Upstream(how)) \/ Stream

\* A client that goes on reading polls the stream; the server owes nothing.
Spec == Init /\ [][Next]_vars /\ WF_vars(Stream)

-----------------------------------------------------------------------------
Kinds == {"delta", "start", "text", "stop", "end", "partial"}
IsFrame(ev) == ev.kind \in Kinds /\ ev.index \in Nat /\ ev.text \in Seq(Chars)

TypeOK ==
  /\ dialect \in {"openai", "anthropic"}
  /\ block.index \in Blocks /\ block.open \in BOOLEAN
  /\ \A i \in DOMAIN Sent : IsFrame(Sent[i])
  /\ \A i \in DOMAIN delivered : IsFrame(delivered[i])
  /\ upstream \in {"flowing", "eof", "broken"}
  /\ filter.blocks \subseteq Blocks /\ Len(filter.pending) <= 1
  /\ phase \in {"streaming", "erroring", "done"}
  /\ client \in {"reading", "ended", "aborted"}

\* The text of one block (of the whole answer, for OpenAI) in a list of events.
TextOf(events, i) ==
  LET text[n \in 0..Len(events)] ==
        IF n = 0 THEN <<>>
        ELSE IF events[n].kind \in {"delta", "text"} /\ events[n].index = i
               THEN text[n - 1] \o events[n].text ELSE text[n - 1]
  IN  text[Len(events)]

\* However the answer was cut, each block that ended shows exactly what
\* strip_think leaves of its text: no tail is stranded behind the end of its
\* block or the terminal marker, and none shows up in another block.  After a
\* break-off the client still has the text of everything that arrived.  Only of
\* a block long enough for a bailout more may show.
BlockShowsItsText ==
  \A i \in Blocks :
    /\ Bytes(TextOf(arrived, i)) <= THINK_BAILOUT
    /\ Has(delivered, BlockStop(i)) \/ Has(delivered, Terminal) \/ phase # "streaming"
    => TextOf(delivered, i) = StripThink(TextOf(arrived, i))

\* Downstream every block is started once, before its text, and has no text
\* after its end; nothing but a cut event follows the terminal marker.
LifecycleHolds ==
  \A n \in DOMAIN delivered :
    LET ev == delivered[n]
        earlier == SubSeq(delivered, 1, n - 1)
    IN  /\ ev.kind = "start" => ~Has(earlier, ev)
        /\ ev.kind = "text" =>
             Has(earlier, BlockStart(ev.index)) /\ ~Has(earlier, BlockStop(ev.index))
        /\ Has(earlier, Terminal) => ev.kind = "partial"

\* "A mid-stream drop MUST NOT be turned into a graceful end": the client sees
\* a clean end only of an answer that ended.
DropIsNoEnd ==
  /\ client = "ended" => upstream = "eof"
  /\ client = "aborted" => upstream = "broken"

\* The client learns how the answer ended.
ClientLearns == upstream # "flowing" ~> client # "reading"
=============================================================================
