----------------------- MODULE ServerLifecycleProofs ------------------------
(***************************************************************************)
(* Theorems about ServerLifecycle, for any timeouts, any set of upstream   *)
(* servers and any number of moves of the rest of the world.               *)
(***************************************************************************)
EXTENDS ServerLifecycle, TLAPS

USE LifecycleAssumption

LEMMA InitIInv == ASSUME Init PROVE IInv
<1>1. TypeOK
  <2>1. seen \in [listener : {"nobody", "foreign"} \cup Targets,
                  reported : {"none"} \cup Targets, up : BOOLEAN]
    BY DEF Init, Unseen
  <2>2. /\ pc = "begin" /\ readyAt = 0 /\ moves = 0 /\ ~moved /\ ~died
        /\ now = 0 /\ lookedAt = 0 /\ due = 0 /\ answer = "none"
    BY DEF Init
  <2>3. moved \in BOOLEAN /\ died \in BOOLEAN
    BY DEF Init
  <2> QED BY <2>1, <2>2, <2>3 DEF Init, TypeOK
<1>2. SeenStillHolds /\ ClockKnown /\ AnswerWasTrue
  BY DEF Init, SeenStillHolds, ClockKnown, AnswerWasTrue
<1>3. RoutedIsServed /\ ReadyBeforeLastLookIsSeen
  BY DEF Init, RoutedIsServed, ReadyBeforeLastLookIsSeen
<1> QED BY <1>1, <1>2, <1>3 DEF IInv

\* What the wait promises follows from where its clock is and from what the
\* last look was answered.
LEMMA LookedInTime ==
  ASSUME TypeOK, ClockKnown, AnswerWasTrue
  PROVE ReadyBeforeLastLookIsSeen
<1>1. /\ now \in Nat /\ lookedAt \in Nat /\ readyAt \in Nat /\ due \in Nat
      /\ pc \in {"begin", "connecting", "reading", "nap", "look", "upstream", "plan", "start"}
                  \cup Settled
  BY DEF TypeOK
<1>2. now <= TIMEOUT + NAP + CONNECT + READ
  <2>1. CASE pc = "begin" \/ pc = "nap"
    BY <1>1, <2>1 DEF ClockKnown
  <2>2. CASE pc \notin {"begin", "nap"}
    BY <1>1, <2>2 DEF ClockKnown
  <2> QED BY <2>1, <2>2
<1>3. ASSUME pc = "failed", server[Wanted] = "ready", answer \notin {"cut", "late"}
      PROVE readyAt >= lookedAt /\ readyAt >= TIMEOUT - (CONNECT + READ)
  <2>1. readyAt >= lookedAt
    BY <1>3 DEF AnswerWasTrue
  <2>2. TIMEOUT <= now /\ now <= lookedAt + CONNECT + READ
    BY <1>3 DEF ClockKnown
  <2> QED BY <1>1, <2>1, <2>2
<1> QED BY <1>2, <1>3 DEF ReadyBeforeLastLookIsSeen

\* The same of the state a step leads to.
LEMMA LookedInTimePrimed ==
  ASSUME TypeOK', ClockKnown', AnswerWasTrue'
  PROVE ReadyBeforeLastLookIsSeen'
BY LookedInTime, PTL

LEMMA BeginLookKeeps ==
  ASSUME IInv, NEW t \in Nat, BeginLook(t), t <= TIMEOUT + NAP,
         UNCHANGED <<listener, readyAt, seen, moves, moved, died>>,
         server' \in [Targets -> {"down", "loading", "ready"}]
  PROVE IInv'
<1>1. /\ pc' = "connecting" /\ answer' = "none"
      /\ now' = t /\ lookedAt' = t /\ due' = t + CONNECT
  BY DEF BeginLook
<1>2. TypeOK'
  BY <1>1 DEF IInv, TypeOK
<1>3. ClockKnown'
  BY <1>1 DEF ClockKnown
<1>4. SeenStillHolds' /\ AnswerWasTrue' /\ RoutedIsServed'
  BY <1>1 DEF SeenStillHolds, AnswerWasTrue, RoutedIsServed
<1>5. ReadyBeforeLastLookIsSeen'
  BY <1>1 DEF ReadyBeforeLastLookIsSeen
<1> QED BY <1>2, <1>3, <1>4, <1>5 DEF IInv

LEMMA LookEndsKeeps ==
  ASSUME IInv, NEW got \in {"200", "503", "cut", "late", "refused"},
         pc \in {"connecting", "reading"}, LookEnds(got),
         got = "200" => answer = "200",
         got \in {"503", "refused"} /\ server[Wanted] = "ready" => readyAt >= lookedAt
  PROVE IInv'
<1>1. /\ answer' = got /\ due' = now + NAP
      /\ UNCHANGED <<listener, server, readyAt, moves, now, lookedAt, seen, moved, died>>
  BY DEF LookEnds, worldVars
<1>2. \/ got = "200" /\ pc' = "look"
      \/ got # "200" /\ now >= TIMEOUT /\ pc' = "failed"
      \/ got # "200" /\ now < TIMEOUT /\ pc' = "nap"
  BY DEF LookEnds, Judged, IInv, TypeOK
<1>3. TypeOK'
  BY <1>1, <1>2 DEF IInv, TypeOK, Settled
<1>4. /\ now \in Nat /\ lookedAt \in Nat /\ due \in Nat
      /\ now <= due /\ lookedAt <= now /\ lookedAt <= TIMEOUT + NAP
      /\ now <= lookedAt + CONNECT + READ
  BY DEF IInv, TypeOK, ClockKnown
<1>5. ClockKnown'
  BY <1>1, <1>2, <1>4 DEF ClockKnown
<1>6. SeenStillHolds'
  BY <1>1, <1>2 DEF IInv, SeenStillHolds
<1>7. AnswerWasTrue'
  BY <1>1, <1>2 DEF AnswerWasTrue
<1>8. RoutedIsServed'
  BY <1>2 DEF RoutedIsServed
<1>9. ReadyBeforeLastLookIsSeen'
  BY <1>3, <1>5, <1>7, LookedInTimePrimed
<1> QED BY <1>3, <1>5, <1>6, <1>7, <1>8, <1>9 DEF IInv

LEMMA WaitKeeps == ASSUME IInv, StartServer \/ WaitForReady PROVE IInv'
<1>1. CASE StartServer
  BY <1>1, BeginLookKeeps DEF StartServer, IInv, TypeOK
<1>2. CASE TimePasses
  <2>1. /\ now' = now + 1 /\ now < due /\ pc \in {"connecting", "reading", "nap"}
        /\ UNCHANGED <<listener, server, readyAt, moves, lookedAt, due, answer, pc, seen,
                       moved, died>>
    BY <1>2 DEF TimePasses, worldVars
  <2>2. TypeOK'
    BY <2>1 DEF IInv, TypeOK
  <2>3. ClockKnown'
    BY <2>1 DEF IInv, TypeOK, ClockKnown
  <2>4. SeenStillHolds' /\ AnswerWasTrue' /\ RoutedIsServed'
    BY <2>1 DEF IInv, SeenStillHolds, AnswerWasTrue, RoutedIsServed, Listening
  <2> QED BY <2>2, <2>3, <2>4, LookedInTimePrimed DEF IInv
<1>3. CASE Connect
  <2>1. /\ pc = "connecting" /\ pc' = "reading" /\ due' = now + READ /\ answer = "none"
        /\ UNCHANGED <<listener, server, readyAt, moves, now, lookedAt, answer, seen,
                       moved, died>>
    BY <1>3 DEF Connect, worldVars, IInv, ClockKnown
  <2>2. TypeOK'
    BY <2>1 DEF IInv, TypeOK
  <2>3. ClockKnown'
    BY <2>1 DEF IInv, TypeOK, ClockKnown
  <2>4. SeenStillHolds' /\ AnswerWasTrue' /\ RoutedIsServed'
    BY <2>1 DEF IInv, SeenStillHolds, AnswerWasTrue, RoutedIsServed
  <2> QED BY <2>2, <2>3, <2>4, LookedInTimePrimed DEF IInv
<1>4. CASE ConnectFails
  <2>1. CASE ~Listening(Wanted) /\ LookEnds("refused")
    BY <1>4, <2>1, LookEndsKeeps DEF ConnectFails, Listening
  <2>2. CASE LookEnds("late")
    BY <1>4, <2>2, LookEndsKeeps DEF ConnectFails
  <2> QED BY <1>4, <2>1, <2>2 DEF ConnectFails
<1>5. CASE Read
  <2>1. CASE answer # "none" /\ LookEnds(answer)
    <3>1. answer \in {"200", "503", "cut", "late", "refused"}
      BY <2>1 DEF IInv, TypeOK
    <3>2. answer \in {"503", "refused"} /\ server[Wanted] = "ready" => readyAt >= lookedAt
      BY DEF IInv, AnswerWasTrue
    <3> QED BY <1>5, <2>1, <3>1, <3>2, LookEndsKeeps DEF Read
  <2>2. CASE LookEnds("late")
    BY <1>5, <2>2, LookEndsKeeps DEF Read
  <2> QED BY <1>5, <2>1, <2>2 DEF Read
<1>6. CASE Nap
  <2>1. now \in Nat /\ now <= TIMEOUT + NAP
    BY <1>6 DEF Nap, IInv, TypeOK, ClockKnown
  <2>2. server \in [Targets -> {"down", "loading", "ready"}]
    BY DEF IInv, TypeOK
  <2> QED BY <1>6, <2>1, <2>2, BeginLookKeeps DEF Nap, worldVars
<1> QED BY <1>1, <1>2, <1>3, <1>4, <1>5, <1>6 DEF WaitForReady

\* The steps after the wait leave its clock alone, and its last answer was 200.
LEMMA WaitIsOver ==
  ASSUME IInv, UNCHANGED <<readyAt, waitVars>>, TypeOK',
         pc \in {"look", "upstream", "plan", "start"},
         pc' \in {"look", "upstream", "plan", "start", "routed", "refused"}
  PROVE ClockKnown' /\ AnswerWasTrue' /\ ReadyBeforeLastLookIsSeen'
<1>1. answer = "200" /\ UNCHANGED <<readyAt, now, lookedAt, due, answer>>
  BY DEF IInv, SeenStillHolds, waitVars
<1>2. ClockKnown' /\ AnswerWasTrue'
  BY <1>1 DEF IInv, ClockKnown, AnswerWasTrue
<1> QED BY <1>2, LookedInTimePrimed

LEMMA LookKeeps == ASSUME IInv, LookAtListener \/ LookAtUpstream PROVE IInv'
<1>1. CASE LookAtListener
  <2>1. TypeOK'
    BY <1>1 DEF LookAtListener, worldVars, waitVars, IInv, TypeOK
  <2>2. SeenStillHolds' /\ RoutedIsServed'
    BY <1>1 DEF LookAtListener, worldVars, waitVars, IInv, TypeOK, SeenStillHolds,
                RoutedIsServed
  <2> QED BY <1>1, <2>1, <2>2, WaitIsOver DEF LookAtListener, worldVars, IInv
<1>2. CASE LookAtUpstream
  <2>1. TypeOK'
    BY <1>2 DEF LookAtUpstream, worldVars, waitVars, IInv, TypeOK, Listening
  <2>2. SeenStillHolds' /\ RoutedIsServed'
    BY <1>2 DEF LookAtUpstream, worldVars, waitVars, IInv, TypeOK, SeenStillHolds,
                RoutedIsServed, Listening
  <2> QED BY <1>2, <2>1, <2>2, WaitIsOver DEF LookAtUpstream, worldVars, IInv
<1> QED BY <1>1, <1>2

\* A proxy is only reused when it was seen to point at the wanted server, and
\* that to listen.
LEMMA ReuseMeansMatching ==
  ASSUME TypeOK, Plan = "Reuse"
  PROVE seen.listener \in Targets /\ seen.reported = Wanted /\ seen.up
BY DEF Plan, PlanProxyLifecycle, PlanProxyAction, ClassifyProxyTarget, TypeOK

\* Only a verified proxy is torn down.
LEMMA TeardownMeansProxy ==
  ASSUME TypeOK, Plan \in {"Repoint", "ReapThenStart"}
  PROVE seen.listener \in Targets
BY DEF Plan, PlanProxyLifecycle, PlanProxyAction, TypeOK

LEMMA ActKeeps == ASSUME IInv, Act \/ StartProxy PROVE IInv'
<1>1. CASE Act
  <2>1. TypeOK'
    BY <1>1 DEF Act, waitVars, IInv, TypeOK, Settled
  <2>2. pc' = "routed" => Plan = "Reuse"
    BY <1>1 DEF Act
  <2>3. Plan = "Reuse" => listener' = listener
    BY <1>1 DEF Act
  <2>4. answer = "200"
    BY <1>1 DEF Act, IInv, SeenStillHolds
  <2>5. RoutedIsServed'
    BY <1>1, <2>2, <2>3, <2>4, ReuseMeansMatching
       DEF Act, IInv, SeenStillHolds, RoutedIsServed, Listening
  <2>6. pc' \in {"routed", "refused", "start"}
    BY <1>1 DEF Act
  <2>7. SeenStillHolds'
    BY <1>1, <2>4, <2>6 DEF Act, waitVars, IInv, SeenStillHolds
  <2>8. ClockKnown' /\ AnswerWasTrue' /\ ReadyBeforeLastLookIsSeen'
    BY <1>1, <2>1, <2>6, WaitIsOver DEF Act
  <2> QED BY <2>1, <2>5, <2>7, <2>8 DEF IInv
<1>2. CASE StartProxy
  <2>1. TypeOK'
    BY <1>2 DEF StartProxy, Unseen, waitVars, IInv, TypeOK
  <2>2. SeenStillHolds' /\ RoutedIsServed'
    BY <1>2 DEF StartProxy, Unseen, waitVars, IInv, SeenStillHolds, RoutedIsServed
  <2> QED BY <1>2, <2>1, <2>2, WaitIsOver DEF StartProxy, IInv
<1> QED BY <1>1, <1>2

LEMMA WorldKeeps == ASSUME IInv, World PROVE IInv'
<1>1. ASSUME NEW who \in {"nobody", "foreign"} \cup Targets, PortMoves(who) PROVE IInv'
  BY <1>1 DEF PortMoves, waitVars, IInv, TypeOK, SeenStillHolds, ClockKnown, AnswerWasTrue,
              RoutedIsServed, ReadyBeforeLastLookIsSeen, Settled, Listening
<1>2. CASE ReportUnreadable
  BY <1>2 DEF ReportUnreadable, waitVars, IInv, TypeOK, SeenStillHolds, ClockKnown,
              AnswerWasTrue, RoutedIsServed, ReadyBeforeLastLookIsSeen, Settled, Listening
<1>3. CASE ServerAnswers
  <2>1. /\ pc = "reading" /\ answer' \in {"200", "503", "cut"} /\ died' \in BOOLEAN
        /\ UNCHANGED <<listener, server, readyAt, moves, now, lookedAt, due, pc, seen, moved>>
    BY <1>3 DEF ServerAnswers, worldVars, IInv, TypeOK
  <2>2. /\ answer' = "200" => server[Wanted] = "ready"
        /\ answer' = "503" => server[Wanted] = "loading"
    BY <1>3 DEF ServerAnswers
  <2>3. TypeOK' /\ ClockKnown' /\ SeenStillHolds' /\ AnswerWasTrue' /\ RoutedIsServed'
    BY <2>1, <2>2 DEF IInv, TypeOK, ClockKnown, SeenStillHolds, AnswerWasTrue, RoutedIsServed
  <2> QED BY <2>3, LookedInTimePrimed DEF IInv
<1>4. ASSUME NEW t \in Targets, ServerLoads(t) PROVE IInv'
  <2>1. /\ UNCHANGED <<listener, moves, now, lookedAt, due, answer, pc, seen, moved, died>>
        /\ server[t] = "loading" /\ server' = [server EXCEPT ![t] = "ready"]
        /\ readyAt' = IF t = Wanted THEN now ELSE readyAt
    BY <1>4 DEF ServerLoads, waitVars
  <2>2. TypeOK' /\ ClockKnown'
    BY <2>1 DEF IInv, TypeOK, ClockKnown
  <2>3. AnswerWasTrue'
    BY <2>1 DEF IInv, TypeOK, ClockKnown, AnswerWasTrue
  <2>4. SeenStillHolds' /\ RoutedIsServed'
    BY <2>1 DEF IInv, TypeOK, SeenStillHolds, RoutedIsServed, Listening
  <2> QED BY <2>2, <2>3, <2>4, LookedInTimePrimed DEF IInv
<1>5. ASSUME NEW t \in Targets, ServerMoves(t) PROVE IInv'
  <2>1. TypeOK'
    BY <1>5 DEF ServerMoves, waitVars, IInv, TypeOK
  <2>2. moved' /\ UNCHANGED <<pc, readyAt, now, lookedAt, due, answer>>
    BY <1>5 DEF ServerMoves, waitVars
  <2>3. t = Wanted => died'
    BY <1>5 DEF ServerMoves
  <2>4. t # Wanted => server'[Wanted] = server[Wanted] /\ died' = died
    BY <1>5 DEF ServerMoves, IInv, TypeOK
  <2>5. server'[Wanted] # "ready" \/ server'[Wanted] = server[Wanted]
    BY <1>5 DEF ServerMoves, IInv, TypeOK
  <2>6. ClockKnown' /\ AnswerWasTrue'
    BY <2>2, <2>5 DEF IInv, ClockKnown, AnswerWasTrue
  <2>7. SeenStillHolds' /\ RoutedIsServed'
    BY <2>2, <2>3, <2>4 DEF IInv, SeenStillHolds, RoutedIsServed
  <2> QED BY <2>1, <2>6, <2>7, LookedInTimePrimed DEF IInv
<1> QED BY <1>1, <1>2, <1>3, <1>4, <1>5 DEF World

LEMMA NextIInv == ASSUME IInv, [Next]_vars PROVE IInv'
<1>1. CASE UNCHANGED vars
  BY <1>1 DEF vars, worldVars, waitVars, IInv, TypeOK, SeenStillHolds, ClockKnown,
              AnswerWasTrue, RoutedIsServed, ReadyBeforeLastLookIsSeen, Settled, Listening
<1> QED BY <1>1, WaitKeeps, LookKeeps, ActKeeps, WorldKeeps DEF Next, Session

\* Whatever the rest of the world does, a session is routed only to what it
\* saw served (plan_proxy_lifecycle, wait_for_ready).
THEOREM LifecycleRoutedIsServed == Spec => []RoutedIsServed
<1>1. IInv => RoutedIsServed BY DEF IInv
<1> QED BY <1>1, InitIInv, NextIInv, PTL DEF Spec

\* wait_for_ready overruns its timeout by one look and one sleep at most, and
\* gives up a ready server only when that got ready after the last look began,
\* or did not answer that look whole and within the read timeout.
THEOREM LifecycleReadyBeforeLastLookIsSeen == Spec => []ReadyBeforeLastLookIsSeen
<1>1. IInv => ReadyBeforeLastLookIsSeen BY DEF IInv
<1> QED BY <1>1, InitIInv, NextIInv, PTL DEF Spec

\* No step of a session takes the port from a program that is not a proxy.
THEOREM LifecycleForeignSurvives == Spec => ForeignSurvives
<1> DEFINE Spared == listener = "foreign" /\ listener' # "foreign" => moves' = moves + 1
<1>1. ASSUME IInv, [Next]_vars PROVE [Spared]_vars
  <2>1. CASE Act
    BY <1>1, <2>1, TeardownMeansProxy DEF Act, IInv, Spared
  <2>2. CASE StartProxy
    BY <2>2 DEF StartProxy, Spared
  <2>3. CASE StartServer \/ WaitForReady \/ LookAtListener \/ LookAtUpstream
    BY <2>3 DEF StartServer, WaitForReady, TimePasses, Connect, ConnectFails, Read, LookEnds,
                Nap, LookAtListener, LookAtUpstream, worldVars, Spared
  <2>4. CASE World
    BY <2>4 DEF World, PortMoves, ReportUnreadable, ServerAnswers, ServerLoads,
                ServerMoves, worldVars, Spared
  <2>5. CASE UNCHANGED vars
    BY <2>5 DEF vars, worldVars, Spared
  <2> QED BY <1>1, <2>1, <2>2, <2>3, <2>4, <2>5 DEF Next, Session
<1> HIDE DEF Spared
<1>2. Spec => [][Spared]_vars
  BY <1>1, InitIInv, NextIInv, PTL DEF Spec
<1> QED BY <1>2 DEF ForeignSurvives, Spared
=============================================================================
