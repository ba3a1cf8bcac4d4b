------------------------------- MODULE MCProxy -------------------------------
\* Two blocks, texts that are parts of the tags or longer than what is held
\* back, answers with and without a bailout; requests of every shape with two
\* system messages between the turns, and answers with a thought in a text.
EXTENDS Proxy

MCChars == {"<", "/", "t", "x", "nl", "."}
MCWide == {"x"}
MCOpen == <<"<", "t">>
MCClose == <<"<", "/", "t">>
MCEmpty == <<".">>
MCTexts == {<<"<">>, <<"t">>, <<"/", "t">>, <<"x", "x", "<">>}

MCConfigs == [api_key : {"none", "key"}, merge_system : BOOLEAN]

Message(role, content) == [role |-> role, content |-> content, nested |-> "thought"]
MCBodies ==
  {[thinking |-> TRUE, system |-> system, rest |-> "model",
    messages |-> <<Message("user", <<<<"x">>>>), Message("system", one), Message("assistant", <<<<"t">>>>),
                   Message("system", two)>>] :
     system \in {<<>>, <<<<"/">>>>},
     one \in {<<>>, <<<<"<">>, <<"t">>>>},
     two \in {<<<<>>, <<>>>>, <<<<"x", "/">>>>}}
MCRequests ==
  {[path |-> "/v1/messages", bearer |-> bearer, x_api_key |-> x_api_key, large |-> FALSE,
    headers |-> {"accept", "host"}, shape |-> shape, body |-> body] :
     bearer \in {"none", "key"}, x_api_key \in {"wrong", "key"},
     shape \in {"chat", "odd", "json"}, body \in MCBodies}
  \cup {[path |-> path, bearer |-> "wrong", x_api_key |-> "none", large |-> TRUE,
         headers |-> {"accept", "host"}, shape |-> "chat", body |-> CHOOSE body \in MCBodies : TRUE] :
          path \in {"/health", "/v1/messages"}}

Block(kind, text) == [kind |-> kind, text |-> text]
MCAnswers ==
  LET thought == <<"<", "t", "x", "<", "/", "t">>
      texts == {thought, <<"x">> \o thought \o <<"/">>, thought \o <<"nl">>, <<"<", "t", "x">>}
  IN  {[json |-> TRUE, raw |-> <<>>, content |-> <<Block("text", text), Block("other", <<"<">>)>>, choices |-> <<>>] :
         text \in texts}
      \cup {[json |-> TRUE, raw |-> <<>>, content |-> <<>>, choices |-> <<Block("text", text), Block("text", <<"x">>)>>] :
              text \in texts}
      \cup {[json |-> FALSE, raw |-> text, content |-> <<>>, choices |-> <<>>] : text \in texts}
=============================================================================
