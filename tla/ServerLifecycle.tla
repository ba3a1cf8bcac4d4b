-------------------------- MODULE ServerLifecycle ---------------------------
(***************************************************************************)
(* Bringing a session up (localx-llama-runtime, server.rs, health.rs and   *)
(* net.rs): start the model server, wait for it to be ready, then decide   *)
(* what to do about the no-think proxy on its port, from observations that *)
(* may be stale by the time the decision is carried out.                   *)
(*                                                                         *)
(* The crate decides and waits; the application looks, kills and starts.   *)
(* The application is external here and does as plan_proxy_lifecycle says, *)
(* until it may reuse a proxy, must refuse, or gives the server up.        *)
(***************************************************************************)
EXTENDS Integers

CONSTANTS
  Targets,      \* upstream servers a proxy may point at
  Wanted,       \* the one this session wants
  TIMEOUT,      \* wait_for_ready's timeout
  CONNECT,      \* health_status's connect timeout
  READ,         \* and its read timeout
  NAP,          \* the sleep between two looks at /health
  MaxMoves      \* bound: steps of the rest of the world

ASSUME LifecycleAssumption ==
  /\ Wanted \in Targets
  /\ Targets \cap {"nobody", "foreign", "none"} = {}
  /\ {TIMEOUT, CONNECT, READ, NAP, MaxMoves} \subseteq Nat

VARIABLES
  listener,  \* on the proxy's port: "nobody", "foreign" or a proxy's target
  server,    \* [Targets -> "down", "loading" (503) or "ready" (200)]
  readyAt,   \* when the wanted server last became ready
  pc,        \* the session
  seen,      \* what it saw: the listener, its reported target, the upstream
  now,       \* time since wait_for_ready began
  lookedAt,  \* when the current look at /health, or the last one, began
  due,       \* when the call the session is blocked in returns at the latest
  answer,    \* what that look got: "none" yet, "200", "503", a "cut" answer or
             \* none in time ("late"), "refused" when nothing listened
  moves,     \* steps the rest of the world took
  moved,     \* did the world change since the session began to look
  died       \* did the wanted server go down since it was found ready

worldVars == <<listener, server, readyAt, moves>>
waitVars == <<now, lookedAt, due, answer>>
vars == <<worldVars, waitVars, pc, seen, moved, died>>

Unseen == [listener |-> "nobody", reported |-> "none", up |-> FALSE]
Settled == {"routed", "refused", "failed"}
Listening(t) == server[t] # "down"

-----------------------------------------------------------------------------
(* The decisions. *)

ClassifyProxyTarget(proxyUp, reported) ==
  CASE ~proxyUp \/ reported = "none" -> "Absent"
    [] proxyUp /\ reported = Wanted -> "Matching"
    [] OTHER -> "Mismatch"

\* Mutant of PlanProxyAction: the target is compared before the upstream.
ProbeBeforeReap(proxyUp, upstreamUp, target) ==
  CASE ~proxyUp -> "Start"
    [] proxyUp /\ target = "Matching" -> "Reuse"
    [] OTHER -> IF upstreamUp /\ target = "Mismatch" THEN "Repoint" ELSE "ReapThenStart"

\* Mutant of PlanProxyAction: a proxy that points elsewhere is left running.
StartBeside(proxyUp, upstreamUp, target) ==
  CASE ~proxyUp \/ target = "Mismatch" -> "Start"
    [] OTHER -> IF upstreamUp /\ target = "Matching" THEN "Reuse" ELSE "ReapThenStart"

PlanProxyAction(proxyUp, upstreamUp, target) ==
  CASE ~proxyUp -> "Start"
    [] proxyUp /\ ~upstreamUp -> "ReapThenStart"
    [] OTHER -> CASE target = "Matching" -> "Reuse"
                  [] target = "Mismatch" -> "Repoint"
                  [] target = "Absent" -> "ReapThenStart"

\* Mutant of PlanProxyLifecycle: any listener on the port passes for a proxy.
PlanUnverified(present, verified, upstreamUp, reported) ==
  PlanProxyAction(present, upstreamUp, ClassifyProxyTarget(present, reported))

PlanProxyLifecycle(present, verified, upstreamUp, reported) ==
  IF present /\ ~verified THEN "RefuseForeignListener"
  ELSE PlanProxyAction(verified, upstreamUp, ClassifyProxyTarget(verified, reported))

-----------------------------------------------------------------------------
(* The session: the server first. *)

\* health_status begins to connect at time t.
BeginLook(t) ==
  /\ pc' = "connecting"
  /\ now' = t /\ lookedAt' = t /\ due' = t + CONNECT
  /\ answer' = "none"

\* Spawned detached; it binds its port at once and loads.
StartServer ==
  /\ pc = "begin"
  /\ server' = [server EXCEPT ![Wanted] = IF @ = "down" THEN "loading" ELSE @]
  /\ BeginLook(0)
  /\ UNCHANGED <<listener, readyAt, seen, moves, moved, died>>

\* Time passes in a connect, a read or a sleep, and the world moves meanwhile.
TimePasses ==
  /\ pc \in {"connecting", "reading", "nap"}
  /\ now < due
  /\ now' = now + 1
  /\ UNCHANGED <<worldVars, lookedAt, due, answer, pc, seen, moved, died>>

Connect ==
  /\ pc = "connecting"
  /\ Listening(Wanted)
  /\ pc' = "reading"
  /\ due' = now + READ
  /\ UNCHANGED <<worldVars, now, lookedAt, answer, seen, moved, died>>

\* Mutant of Judged: the deadline is looked at before the answer is.
JudgedLate(got) ==
  IF now >= TIMEOUT THEN "failed" ELSE IF got = "200" THEN "look" ELSE "nap"

\* The rest of wait_for_ready's turn: only 200 is ready, and the deadline is
\* looked at after the answer.
Judged(got) ==
  IF got = "200" THEN "look" ELSE IF now >= TIMEOUT THEN "failed" ELSE "nap"

\* health_status is back: the session goes on, gives the server up or sleeps.
LookEnds(got) ==
  /\ answer' = got
  /\ pc' = Judged(got)
  /\ due' = now + NAP
  /\ UNCHANGED <<worldVars, now, lookedAt, seen, moved, died>>

ConnectFails ==
  /\ pc = "connecting"
  /\ \/ ~Listening(Wanted) /\ LookEnds("refused")
     \/ now = due /\ LookEnds("late")

\* The one read returns what was answered, or nothing in time.
Read ==
  /\ pc = "reading"
  /\ \/ answer # "none" /\ LookEnds(answer)
     \/ now = due /\ LookEnds("late")

Nap ==
  /\ pc = "nap"
  /\ now = due
  /\ BeginLook(now)
  /\ UNCHANGED <<worldVars, seen, moved, died>>

-----------------------------------------------------------------------------
(* The session: then the proxy. *)

\* The listener is a proxy when it answers /health with the expected shape and
\* its process is one.
LookAtListener ==
  /\ pc = "look"
  /\ seen' = [seen EXCEPT !.listener = listener,
                          !.reported = IF listener \in Targets THEN listener ELSE "none"]
  /\ moved' = FALSE
  /\ pc' = "upstream"
  /\ UNCHANGED <<worldVars, waitVars, died>>

\* is_port_listening: a server that still loads listens.
LookAtUpstream ==
  /\ pc = "upstream"
  /\ seen' = [seen EXCEPT !.up = Listening(Wanted)]
  /\ pc' = "plan"
  /\ UNCHANGED <<worldVars, waitVars, moved, died>>

Plan ==
  PlanProxyLifecycle(seen.listener # "nobody", seen.listener \in Targets, seen.up, seen.reported)

\* Reuse routes the session; a teardown kills the process that was observed.
Act ==
  /\ pc = "plan"
  /\ pc' = CASE Plan = "Reuse" -> "routed"
             [] Plan = "RefuseForeignListener" -> "refused"
             [] OTHER -> "start"
  /\ listener' = IF Plan \in {"Repoint", "ReapThenStart"} /\ listener = seen.listener
                 THEN "nobody" ELSE listener
  /\ UNCHANGED <<server, readyAt, moves, waitVars, seen, moved, died>>

\* The new proxy binds its port unless somebody else has it, and is looked at.
StartProxy ==
  /\ pc = "start"
  /\ listener' = IF listener = "nobody" THEN Wanted ELSE listener
  /\ pc' = "look"
  /\ seen' = Unseen
  /\ UNCHANGED <<server, readyAt, moves, waitVars, moved, died>>

-----------------------------------------------------------------------------
(* The rest of the world; MaxMoves bounds what happens there. *)

\* Another session or program takes or leaves the port.
PortMoves(who) ==
  /\ moves < MaxMoves
  /\ who # listener
  /\ "nobody" \in {who, listener} \/ {who, listener} \subseteq Targets
  /\ listener' = who
  /\ moves' = moves + 1
  /\ moved' = TRUE
  /\ UNCHANGED <<server, readyAt, waitVars, pc, seen, died>>

\* The proxy that was verified did not say what it points at.
ReportUnreadable ==
  /\ pc = "upstream"
  /\ moves < MaxMoves
  /\ seen' = [seen EXCEPT !.reported = "none"]
  /\ moves' = moves + 1
  /\ UNCHANGED <<listener, server, readyAt, waitVars, pc, moved, died>>

\* The server answers the look as it is at that moment; what arrives may be
\* less than the status, as from a server that stops.
ServerAnswers ==
  /\ pc = "reading"
  /\ answer = "none"
  /\ \/ server[Wanted] = "ready" /\ answer' = "200" /\ died' = FALSE
     \/ server[Wanted] = "loading" /\ answer' = "503" /\ died' = died
     \/ answer' = "cut" /\ died' = died
  /\ UNCHANGED <<worldVars, now, lookedAt, due, pc, seen, moved>>

ServerLoads(t) ==
  /\ server[t] = "loading"
  /\ server' = [server EXCEPT ![t] = "ready"]
  /\ readyAt' = IF t = Wanted THEN now ELSE readyAt
  /\ UNCHANGED <<listener, moves, waitVars, pc, seen, moved, died>>

\* A server crashes, or another session starts one.
ServerMoves(t) ==
  /\ moves < MaxMoves
  /\ server' = [server EXCEPT ![t] = IF Listening(t) THEN "down" ELSE "loading"]
  /\ moves' = moves + 1
  /\ moved' = TRUE
  /\ died' = (died \/ t = Wanted)
  /\ UNCHANGED <<listener, readyAt, waitVars, pc, seen>>

-----------------------------------------------------------------------------
Init ==
  /\ listener \in {"nobody", "foreign"} \cup Targets
  /\ server \in [Targets -> {"down", "loading", "ready"}]
  /\ readyAt = 0
  /\ pc = "begin"
  /\ seen = Unseen
  /\ now = 0 /\ lookedAt = 0 /\ due = 0
  /\ answer = "none"
  /\ moves = 0
  /\ moved = FALSE
  /\ died = FALSE

WaitForReady == TimePasses \/ Connect \/ ConnectFails \/ Read \/ Nap
Session == StartServer \/ WaitForReady \/ LookAtListener \/ LookAtUpstream \/ Act \/ StartProxy
World ==
  \/ \E who \in {"nobody", "foreign"} \cup Targets : PortMoves(who)
  \/ ReportUnreadable
  \/ ServerAnswers
  \/ \E t \in Targets : ServerLoads(t) \/ ServerMoves(t)
Next == Session \/ World

\* The session runs and time passes; no server has to load or to answer.
Spec == Init /\ [][Next]_vars /\ WF_vars(Session)

-----------------------------------------------------------------------------
TypeOK ==
  /\ listener \in {"nobody", "foreign"} \cup Targets
  /\ server \in [Targets -> {"down", "loading", "ready"}]
  /\ readyAt \in Nat
  /\ pc \in {"begin", "connecting", "reading", "nap", "look", "upstream", "plan", "start"}
          \cup Settled
  /\ seen \in [listener : {"nobody", "foreign"} \cup Targets,
               reported : {"none"} \cup Targets, up : BOOLEAN]
  /\ now \in Nat /\ lookedAt \in Nat /\ due \in Nat
  /\ answer \in {"none", "200", "503", "cut", "late", "refused"}
  /\ moves \in 0..MaxMoves
  /\ moved \in BOOLEAN /\ died \in BOOLEAN

\* "A dead upstream orphan still answers /health, so it must be reaped before
\* the target test or every request strands": a session is only routed through
\* a proxy that, unless the world moved while it looked, points at a listening
\* wanted server, and at a loaded one unless that went down since the wait.
RoutedIsServed ==
  /\ pc = "routed" /\ ~moved => listener = Wanted /\ Listening(Wanted)
  /\ pc = "routed" /\ ~moved /\ ~died => server[Wanted] = "ready"

\* wait_for_ready gives up a ready server only when that got ready after the
\* last look had begun, at most one look before the timeout, or when its answer
\* to that look did not come whole in READ; the wait takes at most one sleep and
\* one look longer than the timeout.
ReadyBeforeLastLookIsSeen ==
  /\ pc = "failed" /\ server[Wanted] = "ready" /\ answer \notin {"cut", "late"} =>
       readyAt >= lookedAt /\ readyAt >= TIMEOUT - (CONNECT + READ)
  /\ now <= TIMEOUT + NAP + CONNECT + READ

\* What ServerLifecycleProofs needs besides: what the session saw still holds
\* unless the world moved, and where the clock is in each place of the wait.
SeenStillHolds ==
  /\ pc \in {"upstream", "plan"} /\ ~moved =>
       /\ seen.listener = listener
       /\ seen.reported \in {"none", listener}
  /\ pc = "plan" /\ ~moved => seen.up = Listening(Wanted)
  /\ pc \in {"connecting", "reading", "nap", "failed"} => (answer = "200" => pc = "reading")
  /\ answer = "200" /\ ~died => server[Wanted] = "ready"
  /\ pc \notin {"begin", "connecting", "reading", "nap", "failed"} => answer = "200"

ClockKnown ==
  /\ pc = "begin" => now = 0
  /\ pc = "connecting" => answer = "none"
  /\ pc \in {"connecting", "reading", "nap"} => now <= due
  /\ lookedAt <= now /\ lookedAt <= TIMEOUT + NAP
  /\ pc = "connecting" => due <= lookedAt + CONNECT
  /\ pc = "reading" => due <= lookedAt + CONNECT + READ
  /\ pc = "nap" => due <= TIMEOUT + NAP
  /\ pc \notin {"nap", "begin"} => now <= lookedAt + CONNECT + READ
  /\ pc = "failed" => now >= TIMEOUT

\* A server that is ready and was not when its answer was taken got ready since.
AnswerWasTrue ==
  /\ answer \in {"503", "refused"} /\ server[Wanted] = "ready" => readyAt >= lookedAt
  /\ pc = "failed" => answer \in {"503", "cut", "late", "refused"}

IInv == TypeOK /\ SeenStillHolds /\ ClockKnown /\ AnswerWasTrue
        /\ RoutedIsServed /\ ReadyBeforeLastLookIsSeen

\* "A listener that fails that check is never killed": no step of the session
\* takes the port from a program that is not a proxy, however stale its look.
ForeignSurvives ==
  [][listener = "foreign" /\ listener' # "foreign" => moves' = moves + 1]_vars

\* Once the world keeps still, the looks and restarts come to an end, unless
\* the wanted server stays down: a proxy over it is reaped again and again.
SessionSettles == <>(pc \in Settled) \/ <>[]~Listening(Wanted)
=============================================================================
