-------------------------------- MODULE Proxy --------------------------------
(***************************************************************************)
(* The no-think proxy (localx-llama-runtime, proxy.rs) from a request to   *)
(* its answer: the router, proxy_handler with its key and its size limit,  *)
(* the transforms, the forwarding, and build_response, which collects a    *)
(* buffered answer or hands a streamed one to sse_think_stream.            *)
(*                                                                         *)
(* A request shares nothing with another but the configuration; one is     *)
(* modelled.  upstream and client of ProxyStream are those of a buffered   *)
(* answer too: "aborted" is a client that was told the answer failed.      *)
(***************************************************************************)
EXTENDS ProxyStream, RequestTransform

CONSTANTS
  Configs,      \* ProxyConfig: [api_key, merge_system]; no key is "none"
  Requests,     \* [path, bearer, x_api_key, headers, large, shape, body]
  SKIP_HEADERS, \* the headers that stay on one side of the proxy
  Statuses,     \* status codes of the upstream
  Answers       \* bodies the upstream answers with when it does not stream

ContentBlocks == Seq([kind : {"text", "other"}, text : Seq(Chars)])

ASSUME AnswersAssumption ==
  Answers \subseteq [json : BOOLEAN, raw : Seq(Chars), content : ContentBlocks, choices : ContentBlocks]

\* A chat has a list of messages; a content is the texts of its blocks.
ASSUME RequestsAssumption ==
  /\ NEWLINE \in Chars
  /\ \A request \in Requests : request.shape \in {"chat", "odd"} =>
       LET body == request.body
       IN  body = [thinking |-> body.thinking, system |-> body.system,
                   messages |-> body.messages, rest |-> body.rest]
  /\ \A request \in Requests : request.shape = "chat" =>
       LET body == request.body
       IN  /\ body.system \in Seq(Seq(Chars))
           /\ body.messages \in Seq(ToSet(body.messages))
           /\ \A m \in ToSet(body.messages) : m.content \in Seq(Seq(Chars))

VARIABLES
  call,    \* what the handler works on: [config, request, forwarded]
  stage,   \* "received", "forwarding", "collecting", "streaming" or "answered"
  head,    \* status of the upstream's response
  whole,   \* the body the upstream set out to send
  answer   \* [status, body] for the client of a request that is not streamed

handlerVars == <<call, stage, head, whole, answer>>
proxyVars == <<vars, handlerVars>>

None == [status |-> 0]
NoCall == [request |-> None]

ProxyInit ==
  /\ Init
  /\ call \in [config : Configs, request : Requests, forwarded : {<<>>}]
  /\ stage = "received"
  /\ head = 0
  /\ whole = None
  /\ answer = None

-----------------------------------------------------------------------------
\* Either header may carry the key.
Authorized ==
  \/ call.config.api_key = "none"
  \/ call.config.api_key \in {call.request.bearer, call.request.x_api_key}

\* Is it a JSON object with messages?
IsChat == call.request.shape \in {"chat", "odd"}

\* copy_headers
CopyHeaders(headers) == headers \ SKIP_HEADERS

\* The body of a request with a messages array is transformed, of one whose
\* messages are something else only the root keys go; the rest is forwarded as
\* it came.
OutBody ==
  CASE call.request.shape = "chat" -> TransformRequest(call.request.body, call.config.merge_system)
    [] call.request.shape = "odd" -> StripThinkingKeysRoot(call.request.body)
    [] OTHER -> call.request.body

Respond(status, body) ==
  /\ stage' = "answered"
  /\ answer' = [status |-> status, body |-> body]

\* health: no key is asked for, and nothing is forwarded.
Health ==
  /\ stage = "received"
  /\ call.request.path = "/health"
  /\ Respond(200, "target")
  /\ UNCHANGED <<vars, call, head, whole>>

\* proxy_handler up to its await of the upstream.
Handle ==
  /\ stage = "received"
  /\ call.request.path # "/health"
  /\ CASE ~Authorized -> Respond(401, "text") /\ UNCHANGED call
       [] Authorized /\ call.request.large -> Respond(413, "text") /\ UNCHANGED call
       [] OTHER ->
            /\ call' = [call EXCEPT !.forwarded =
                          <<[headers |-> CopyHeaders(call.request.headers), body |-> OutBody]>>]
            /\ stage' = "forwarding"
            /\ UNCHANGED answer
  /\ UNCHANGED <<vars, head, whole>>

\* The upstream cannot be reached, or breaks off before its response begins.
Unreachable ==
  /\ stage = "forwarding"
  /\ upstream = "flowing"
  /\ upstream' = "broken"
  /\ UNCHANGED <<serverVars, wire, arrived, filter, phase, delivered, client, handlerVars>>

ForwardFails ==
  /\ stage = "forwarding"
  /\ upstream = "broken"
  /\ Respond(502, "text")
  /\ client' = "aborted"
  /\ UNCHANGED <<serverVars, wire, arrived, upstream, filter, phase, delivered, call, head, whole>>

\* build_response of an event stream, whatever was asked: the filter takes over,
\* and the call with its handle on the configuration is over.
BeginStream ==
  /\ stage = "forwarding"
  /\ upstream = "flowing"
  /\ stage' = "streaming"
  /\ call' = NoCall
  /\ UNCHANGED <<vars, head, whole, answer>>

\* Any other content type: the body is collected.
BeginCollect ==
  /\ stage = "forwarding"
  /\ upstream = "flowing"
  /\ stage' = "collecting"
  /\ head' \in Statuses
  /\ whole' \in Answers
  /\ UNCHANGED <<vars, call, answer>>

\* The body is complete, or its connection breaks.
BodyEnds(how) ==
  /\ stage = "collecting"
  /\ upstream = "flowing"
  /\ upstream' = how
  /\ UNCHANGED <<serverVars, wire, arrived, filter, phase, delivered, client, handlerVars>>

\* Mutant of Collected: what came before an error is answered as the body.
AnswerAnyway ==
  /\ Respond(head, IF IsChat THEN StripThinkJsonResponse(whole) ELSE whole)
  /\ client' = "ended"

\* collect_stream returned: an error is answered as such, and a chat body has
\* its texts filtered.
Collected ==
  IF upstream = "broken"
    THEN Respond(502, "text") /\ client' = "aborted"
    ELSE /\ Respond(head, IF IsChat THEN StripThinkJsonResponse(whole) ELSE whole)
         /\ client' = "ended"

Collect ==
  /\ stage = "collecting"
  /\ upstream # "flowing"
  /\ Collected
  /\ UNCHANGED <<serverVars, wire, arrived, upstream, filter, phase, delivered, call, head, whole>>

Streaming == stage = "streaming" /\ Stream /\ UNCHANGED handlerVars

Proxying == Health \/ Handle \/ ForwardFails \/ Collect \/ Streaming

ProxyNext ==
  \/ Proxying
  \/ Unreachable \/ BeginStream \/ BeginCollect
  \/ \E how \in {"eof", "broken"} : BodyEnds(how)
  \/ /\ stage = "streaming"
     /\ Server \/ \E how \in {"eof", "broken"} : Upstream(how)
     /\ UNCHANGED handlerVars

\* The proxy's own steps are scheduled; the upstream owes nothing.
ProxySpec == ProxyInit /\ [][ProxyNext]_proxyVars /\ WF_proxyVars(Proxying)

-----------------------------------------------------------------------------
\* The characters of all texts but the white space that joins them.
Ink(texts) == Only(FlattenSeq(texts), Chars \ {NEWLINE})
Contents(messages) == FlattenSeq([i \in DOMAIN messages |-> messages[i].content])
SystemInk(body) == Ink(body.system \o Contents(Systems(body.messages)))

\* What reaches the upstream asks for the same as the client did: only a request
\* that was let in, with its end-to-end headers; every turn of the conversation
\* in order; every system text once and in order, and when they are merged none
\* with a text left between the turns; no thinking configuration; and passing it
\* through a second proxy changes nothing more.
RequestKeepsItsMeaning ==
  stage # "streaming" /\ call.forwarded # <<>> =>
    LET asked == call.request.body
        sent == call.forwarded[1].body
    IN  /\ Authorized /\ ~call.request.large /\ call.request.path # "/health"
        /\ call.forwarded[1].headers \cap SKIP_HEADERS = {}
        /\ call.request.headers \subseteq call.forwarded[1].headers \cup SKIP_HEADERS
        /\ ~IsChat => sent = asked
        /\ IsChat => ~sent.thinking /\ sent.rest = asked.rest
        /\ call.request.shape = "chat" =>
             /\ Turns(sent.messages) = Turns(asked.messages)
             /\ SystemInk(sent) = SystemInk(asked)
             /\ call.config.merge_system =>
                  \A i \in DOMAIN sent.messages :
                    IsSystem(sent.messages[i]) => BlockText(sent.messages[i].content) = <<>>
             /\ TransformRequest(sent, call.config.merge_system) = sent

\* A buffered answer is the upstream's, whole and with its status, or says that
\* there is none.  Of a chat every text is what strip_think leaves, or the
\* substitute when that is blank, so that no turn is empty; anything else is
\* untouched, and so is what is not text.
BufferedAnswerIsTrue ==
  stage = "answered" =>
    /\ call.forwarded = <<>> =>
         answer.status = IF call.request.path = "/health" THEN 200
                         ELSE IF Authorized THEN 413 ELSE 401
    /\ call.forwarded # <<>> /\ upstream = "broken" => answer.status = 502
    /\ call.forwarded # <<>> /\ upstream # "broken" =>
         /\ answer.status = head
         /\ ~IsChat => answer.body = whole
         /\ IsChat /\ ~whole.json => answer.body.raw = StripThink(whole.raw)
         /\ IsChat /\ whole.json =>
              \A field \in {"content", "choices"} :
                /\ Len(answer.body[field]) = Len(whole[field])
                /\ \A i \in DOMAIN whole[field] :
                     LET was == whole[field][i]
                         is == answer.body[field][i]
                     IN  IF was.kind # "text" THEN is = was
                         ELSE /\ ~Blank(is.text)
                              /\ ~Blank(StripThink(was.text)) => is.text = StripThink(was.text)
=============================================================================
