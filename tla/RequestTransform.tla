--------------------------- MODULE RequestTransform ---------------------------
(***************************************************************************)
(* What the proxy does to JSON bodies (localx-llama-runtime, nothink.rs):  *)
(* transform_request on the way in, strip_think_json_response on the way   *)
(* out of a buffered answer.                                               *)
(*                                                                         *)
(* A text is a sequence of characters; a content is the texts of its       *)
(* blocks, a string being one block and an absent field none.  What the    *)
(* transforms do not look at, the thinking of earlier turns inside the     *)
(* messages included, is an opaque value.                                  *)
(***************************************************************************)
EXTENDS ThinkScan, Lists

CONSTANTS
  NEWLINE,            \* the line feed, the only white space
  EMPTY_AFTER_THINK   \* the text put in the place of an empty one

\* trim().is_empty()
Blank(text) == \A i \in DOMAIN text : text[i] = NEWLINE

\* "[no output]"
ASSUME SubstituteAssumption == ~Blank(EMPTY_AFTER_THINK)

\* join: an empty text keeps its separator.
Join(texts, separator) ==
  FlattenSeq([i \in DOMAIN texts |-> IF i = 1 THEN texts[i] ELSE separator \o texts[i]])

\* block_text
BlockText(content) == Join(content, <<NEWLINE>>)

-----------------------------------------------------------------------------
(* Requests: [thinking, system, messages, rest]. *)

IsSystem(message) == message.role = "system"
Systems(messages) == Only(messages, {m \in ToSet(messages) : IsSystem(m)})
Turns(messages) == Only(messages, {m \in ToSet(messages) : ~IsSystem(m)})

\* The texts of system messages, those that have any.
BlockTexts(messages) == [i \in DOMAIN messages |-> BlockText(messages[i].content)]
Folded(messages) == Only(BlockTexts(Systems(messages)), Seq(Chars) \ {<<>>})

Parts(body) ==
  LET existing == BlockText(body.system)
  IN  (IF existing = <<>> THEN <<>> ELSE <<existing>>) \o Folded(body.messages)

\* Mutant of MergeSystemMessages: a system field that is there is replaced.
ReplaceSystem(body) ==
  IF Folded(body.messages) = <<>> THEN body
  ELSE [body EXCEPT !.system = <<Join(Folded(body.messages), <<NEWLINE, NEWLINE>>)>>,
                    !.messages = Turns(@)]

\* merge_system_messages; when no system message has a text nothing changes.
MergeSystemMessages(body) ==
  IF Folded(body.messages) = <<>> THEN body
  ELSE [body EXCEPT !.system = <<Join(Parts(body), <<NEWLINE, NEWLINE>>)>>,
                    !.messages = Turns(@)]

\* strip_thinking_keys_root
StripThinkingKeysRoot(body) == [body EXCEPT !.thinking = FALSE]

TransformRequest(body, merge_system) ==
  IF merge_system THEN MergeSystemMessages(StripThinkingKeysRoot(body))
                  ELSE StripThinkingKeysRoot(body)

-----------------------------------------------------------------------------
(* Answers: [json, raw, content, choices]; a block is a text, or something  *)
(* else that has none, like the content of a choice that calls a tool.      *)

\* fallback_if_empty
FallbackIfEmpty(stripped) == IF Blank(stripped) THEN EMPTY_AFTER_THINK ELSE stripped

FilterBlocks(blocks) ==
  [i \in DOMAIN blocks |->
     IF blocks[i].kind = "text"
       THEN [blocks[i] EXCEPT !.text = FallbackIfEmpty(StripThink(@))] ELSE blocks[i]]

\* strip_think_json_response; a body without texts stays as it is.
StripThinkJsonResponse(body) ==
  IF body.json THEN [body EXCEPT !.content = FilterBlocks(@), !.choices = FilterBlocks(@)]
               ELSE [body EXCEPT !.raw = StripThink(@)]
=============================================================================
