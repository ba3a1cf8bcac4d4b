------------------------- MODULE CheckExecuteProofs -------------------------
(***************************************************************************)
(* First one stream: its capture loses nothing silently, for every limit,  *)
(* every number of bytes and every way they are chunked.  CaptureIInv      *)
(* relates the four facts the answer is put together from: what the buffer *)
(* keeps, when a task reports the end of its pipe, when it may be aborted, *)
(* and which buffer the text was taken from.                               *)
(*                                                                         *)
(* Then the safety of one execution, for every process tree, every capture *)
(* limit and every output.  IInv says what is known at each place of the   *)
(* future; its part on the capture rests on the lemmas of the first half.  *)
(***************************************************************************)
EXTENDS ExecuteRefinement, TLAPS


\* A process writes, or closes its end.
LEMMA WriteKeeps ==
  ASSUME CaptureIInv, NEW s \in Streams, NEW p, NEW n \in Nat, Write(p, s, n)
  PROVE  CaptureIInv'
BY DEF CaptureIInv, CaptureTypeOK, KeepsThePrefix, EofIsComplete, OnlyOpenIsAborted,
       TakenIsFinal, Write, Unread, Lesser, Held

LEMMA CloseEndKeeps ==
  ASSUME CaptureIInv, NEW s \in Streams, NEW p, CloseEnd(p, s)
  PROVE  CaptureIInv'
BY DEF CaptureIInv, CaptureTypeOK, KeepsThePrefix, EofIsComplete, OnlyOpenIsAborted,
       TakenIsFinal, CloseEnd, Lesser, Held

\* The reading task: a chunk, the end of the pipe, a failed read, an abort.
LEMMA ReadKeeps ==
  ASSUME CaptureIInv, NEW s \in Streams, NEW n, Read(s, n)
  PROVE  CaptureIInv'
<1> USE DEF CaptureIInv, CaptureTypeOK, Held, Unread, Lesser
<1>1. n \in Nat /\ n > 0 /\ got[s] + n <= sent[s] /\ CAPTURE_LIMIT \in Nat
  BY CaptureAssumption DEF Read
<1>2. Keep(buffer[s], n) \in Held
  BY <1>1 DEF Keep, KeepsThePrefix
<1>3. CaptureTypeOK'
  BY <1>1, <1>2 DEF Read
<1>4. KeepsThePrefix'
  <2>1. ASSUME NEW t \in Streams, t # s
        PROVE  /\ got'[t] <= sent'[t]
               /\ buffer'[t].bytes = Lesser(got'[t], CAPTURE_LIMIT)
               /\ buffer'[t].truncated <=> got'[t] > CAPTURE_LIMIT
    BY <2>1 DEF Read, KeepsThePrefix
  <2>2. /\ got'[s] = got[s] + n /\ sent'[s] = sent[s]
        /\ buffer'[s] = Keep(buffer[s], n)
    BY DEF Read
  <2> DEFINE room == CAPTURE_LIMIT - buffer[s].bytes
  <2>3. /\ buffer'[s].bytes = Lesser(got'[s], CAPTURE_LIMIT)
        /\ n > room <=> got'[s] > CAPTURE_LIMIT
        /\ got[s] > CAPTURE_LIMIT => got'[s] > CAPTURE_LIMIT
    BY <1>1, <2>2 DEF Keep, KeepsThePrefix
  <2>4. buffer'[s].truncated <=> buffer[s].truncated \/ n > room
    <3> DEFINE flag == buffer[s].truncated \/ n > room
               kept == buffer[s].bytes + Lesser(n, room)
    <3>1. buffer'[s] = [bytes |-> kept, truncated |-> flag]
      BY <2>2 DEF Keep
    <3> HIDE DEF flag, kept
    <3>2. buffer'[s].truncated = flag
      BY <3>1
    <3> QED
      BY <3>2, Zenon DEF flag
  <2>5. buffer[s].truncated <=> got[s] > CAPTURE_LIMIT
    BY DEF KeepsThePrefix
  <2>6. buffer'[s].truncated <=> got'[s] > CAPTURE_LIMIT
    BY <2>3, <2>4, <2>5, Zenon
  <2> QED
    BY <1>1, <2>1, <2>2, <2>3, <2>6 DEF KeepsThePrefix
<1>5. EofIsComplete' /\ OnlyOpenIsAborted'
  BY DEF Read, EofIsComplete, OnlyOpenIsAborted, Finished
<1>6. TakenIsFinal'
  BY DEF Read, TakenIsFinal, OnlyOpenIsAborted, Finished
<1> QED
  BY <1>3, <1>4, <1>5, <1>6

LEMMA ReadEofKeeps ==
  ASSUME CaptureIInv, NEW s \in Streams, ReadEof(s)
  PROVE  CaptureIInv'
<1> USE DEF CaptureIInv, CaptureTypeOK, ReadEof
<1>1. writers[s] = {} /\ got[s] = sent[s]
  BY DEF Unread
<1>2. EofIsComplete'
  BY <1>1 DEF EofIsComplete
<1>3. CaptureTypeOK' /\ KeepsThePrefix'
  BY DEF KeepsThePrefix, TaskStates, Finished
<1>4. OnlyOpenIsAborted' /\ TakenIsFinal'
  BY DEF OnlyOpenIsAborted, TakenIsFinal, Finished
<1> QED
  BY <1>2, <1>3, <1>4

LEMMA ReadFailsKeeps ==
  ASSUME CaptureIInv, NEW s \in Streams, ReadFails(s)
  PROVE  CaptureIInv'
BY DEF CaptureIInv, CaptureTypeOK, KeepsThePrefix, EofIsComplete, OnlyOpenIsAborted,
       TakenIsFinal, ReadFails, Lesser, Held, TaskStates, Finished

LEMMA AbortLandsKeeps ==
  ASSUME CaptureIInv, NEW s \in Streams, AbortLands(s)
  PROVE  CaptureIInv'
BY DEF CaptureIInv, CaptureTypeOK, KeepsThePrefix, EofIsComplete, OnlyOpenIsAborted,
       TakenIsFinal, AbortLands, Lesser, Held, TaskStates, Finished

LEMMA ReaderKeeps ==
  ASSUME CaptureIInv, NEW s \in Streams, ReaderStep(s)
  PROVE  CaptureIInv'
BY ReadKeeps, ReadEofKeeps, ReadFailsKeeps, AbortLandsKeeps DEF ReaderStep, Receive

\* The runner: finish and take.
LEMMA FinishKeeps ==
  ASSUME CaptureIInv, NEW s \in Streams, FinishStep(s)
  PROVE  CaptureIInv'
<1> USE DEF CaptureIInv, CaptureTypeOK, KeepsThePrefix, EofIsComplete, OnlyOpenIsAborted,
            TakenIsFinal, Lesser, Held, TaskStates, Finished
<1>1. CASE FinishClosed(s)
  BY <1>1 DEF FinishClosed
<1>2. CASE FinishExpired(s)
  BY <1>2 DEF FinishExpired
<1>3. CASE FinishAbort(s)
  BY <1>3 DEF FinishAbort
<1> QED
  BY <1>1, <1>2, <1>3 DEF FinishStep

LEMMA TakeKeeps ==
  ASSUME CaptureIInv, NEW s \in Streams, Take(s)
  PROVE  CaptureIInv'
<1>1. Bound(buffer[s]) \in Text
  BY CaptureAssumption DEF CaptureIInv, CaptureTypeOK, Bound, Text, Held, Lesser
<1> QED
  BY <1>1 DEF CaptureIInv, CaptureTypeOK, KeepsThePrefix, EofIsComplete, OnlyOpenIsAborted,
              TakenIsFinal, Take, Lesser, Held

\* The invariant only reads the captured streams.
LEMMA SameCapture == ASSUME CaptureIInv, UNCHANGED captureVars PROVE CaptureIInv'
BY DEF CaptureIInv, CaptureTypeOK, KeepsThePrefix, EofIsComplete, OnlyOpenIsAborted,
       TakenIsFinal, captureVars

-----------------------------------------------------------------------------
\* The three facts of CaptureIInv that the property is about follow each other:
\* a closed stream was read to its end, so the text is the whole stream unless
\* a limit cut it, and then it is marked.
LEMMA NothingLost == CaptureIInv => NothingLostSilently
<1> SUFFICES ASSUME CaptureIInv, NEW s \in Streams,
                    taken[s] # NoText,
                    finish[s] = "closed", task[s] # "failed",
                    ~taken[s].truncated, ~taken[s].marked
             PROVE  taken[s].bytes = sent[s]
  BY DEF NothingLostSilently
<1> USE DEF CaptureIInv
<1>1. taken[s] = Bound(buffer[s])
  BY DEF TakenIsFinal
<1>2. task[s] \in {"eof", "none"}
  BY DEF OnlyOpenIsAborted, Finished
<1>3. got[s] = sent[s]
  BY <1>2 DEF EofIsComplete, OnlyOpenIsAborted, KeepsThePrefix, CaptureTypeOK
<1> DEFINE shown == Lesser(buffer[s].bytes, MAX_OUTPUT_BYTES)
           flag == buffer[s].truncated
           cut == buffer[s].bytes > MAX_OUTPUT_BYTES
<1>4. taken[s] = [bytes |-> shown, marked |-> cut, truncated |-> flag]
  BY <1>1 DEF Bound
<1> HIDE DEF shown, flag, cut
<1>5. taken[s].marked = cut /\ taken[s].truncated = flag
  BY <1>4
<1>6. ~cut /\ ~flag
  BY <1>5, Zenon
<1> USE DEF cut, flag
<1> QED
  BY <1>1, <1>3, <1>6, CaptureAssumption
     DEF Bound, CaptureTypeOK, Held, KeepsThePrefix, Lesser

LEMMA CaptureInitIInv == CaptureInit => CaptureIInv
BY CaptureAssumption
   DEF CaptureInit, NothingCaptured, CaptureIInv, CaptureTypeOK, KeepsThePrefix, EofIsComplete,
       OnlyOpenIsAborted, TakenIsFinal, Held, TaskStates, Finished, Lesser

LEMMA CaptureNextIInv == CaptureIInv /\ [CaptureNext]_captureVars => CaptureIInv'
<1> SUFFICES ASSUME CaptureIInv, [CaptureNext]_captureVars PROVE CaptureIInv'
  OBVIOUS
<1>1. ASSUME NEW s \in Streams, NEW p \in Procs, NEW n \in 1..MaxSent[s], Write(p, s, n)
      PROVE  CaptureIInv'
  <2>1. n \in Nat
    BY CaptureAssumption
  <2> QED
    BY <1>1, <2>1, WriteKeeps
<1> QED
  BY <1>1, CloseEndKeeps, ReaderKeeps, FinishKeeps, TakeKeeps, SameCapture DEF CaptureNext

\* Text from a pipe reported closed and read without error, carrying neither
\* the truncated flag nor the marker, is everything that was written.
THEOREM CaptureLosesNothingSilently == CaptureSpec => []NothingLostSilently
BY CaptureInitIInv, CaptureNextIInv, NothingLost, PTL DEF CaptureSpec

\* The buffer is the first CAPTURE_LIMIT bytes read, and says so when there
\* was more.
THEOREM CaptureKeepsThePrefix == CaptureSpec => []KeepsThePrefix
<1>1. CaptureIInv => KeepsThePrefix
  BY DEF CaptureIInv
<1> QED
  BY <1>1, CaptureInitIInv, CaptureNextIInv, PTL DEF CaptureSpec

\* Captured::start, finish and take: both, of every stream.
THEOREM CaptureIsAlwaysTrue == CaptureSpec => []CaptureIsTrue
<1>1. KeepsThePrefix /\ NothingLostSilently => CaptureIsTrue
  BY DEF CaptureIsTrue
<1> QED
  BY <1>1, CaptureKeepsThePrefix, CaptureLosesNothingSilently, PTL

-----------------------------------------------------------------------------
(* One execution. *)


Stages ==
  /\ TypeOK /\ HandleByStage /\ EndByStage /\ CleanupByStage /\ ReapsByStage
  /\ ConfirmedMeansGone /\ ReapDiscipline

\* Processes that end, and those a live process starts, leave the capture's
\* invariant alone: only a holder of a pipe can pass it on.
LEMMA DieKeeps ==
  ASSUME CaptureIInv, NEW gone, Die(gone), UNCHANGED <<sent, got, buffer, task, finish, taken>>
  PROVE  CaptureIInv'
BY DEF CaptureIInv, CaptureTypeOK, KeepsThePrefix, EofIsComplete, OnlyOpenIsAborted,
       TakenIsFinal, Die, Held, Lesser

LEMMA ForkKeeps ==
  ASSUME IInv, NEW p, NEW d, Fork(p, d)
  PROVE  CaptureIInv'
BY TreeAssumption
   DEF IInv, TypeOK, CaptureIInv, CaptureTypeOK, KeepsThePrefix, EofIsComplete,
       OnlyOpenIsAborted, TakenIsFinal, Fork, Held, Lesser

LEMMA SpawnKeeps ==
  ASSUME IInv, NEW g, Spawn(g)
  PROVE  CaptureIInv'
<1>1. /\ NothingCaptured
      /\ \A s \in Streams : task[s] = "none"
  BY DEF IInv, HandleByStage, Spawn, PreStart
<1> QED
  BY <1>1, TreeAssumption
     DEF IInv, TypeOK, CaptureIInv, CaptureTypeOK, KeepsThePrefix, EofIsComplete,
         OnlyOpenIsAborted, TakenIsFinal, Spawn, NothingCaptured, Held, Lesser, TaskStates,
         Finished

-----------------------------------------------------------------------------
(* One lemma per action, for the runner's part of the invariant. *)

USE DEF IInv, Stages, TypeOK, CaptureTypeOK, HandleByStage, EndByStage, CleanupByStage,
        ReapsByStage, ConfirmedMeansGone, ReapDiscipline, NothingCaptured, Owned, Stopped,
        PipesClosed, Pcs, PreStart, Over, Awaits, Holding, Released, processVars, captureVars,
        runnerVars

LEMMA CancelKeeps == ASSUME IInv, Cancel PROVE Stages'
BY DEF Cancel

LEMMA WithoutProcessKeeps ==
  ASSUME IInv, NEW why \in {"Denied", "NotStarted", "Cancelled"}, pc \in PreStart,
         WithoutProcess(why)
  PROVE  Stages'
BY DEF WithoutProcess

LEMMA AllowKeeps == ASSUME IInv, Allow PROVE Stages'
<1>1. CASE WithoutProcess("Denied")
  BY <1>1, WithoutProcessKeeps DEF Allow
<1>2. CASE ~WithoutProcess("Denied")
  <2>1. /\ pc = "allow" /\ pc' = "check"
        /\ UNCHANGED <<captureVars, processVars, cancelled, end, cleanup, guard, handle, waited, reaps>>
    BY <1>2, Zenon DEF Allow
  <2> QED
    BY <2>1
<1> QED
  BY <1>1, <1>2

LEMMA CheckCancelledKeeps == ASSUME IInv, CheckCancelled PROVE Stages'
BY WithoutProcessKeeps DEF CheckCancelled

LEMMA SpawnFailsKeeps == ASSUME IInv, SpawnFails PROVE Stages'
BY WithoutProcessKeeps DEF SpawnFails

LEMMA SpawnStages == ASSUME IInv, NEW g \in {"none", "held"}, Spawn(g) PROVE Stages'
BY TreeAssumption DEF Spawn, TaskStates

LEMMA EndsKeeps ==
  ASSUME IInv, NEW how \in {"ExitedOk", "ExitedBad", "Failed", "TimedOut", "Cancelled"},
         Ends(how), waited' \in BOOLEAN,
         waited' => how \in {"ExitedOk", "ExitedBad"}
  PROVE  Stages'
BY DEF Ends, AfterEnd

LEMMA RequestStopKeeps == ASSUME IInv, RequestStop PROVE Stages'
<1>1. terminating' \in BOOLEAN
  BY DEF RequestStop
<1>2. /\ pc = "stop" /\ pc' = IF Stopped THEN "kill" ELSE "drop"
      /\ UNCHANGED <<captureVars, cancelled, end, cleanup, guard, handle, waited, reaps,
                     alive, unborn, exit, killSent>>
  BY DEF RequestStop
<1> QED
  BY <1>1, <1>2

LEMMA StartKillKeeps == ASSUME IInv, StartKill PROVE Stages'
BY DEF StartKill

LEMMA WaitKilledKeeps == ASSUME IInv, WaitKilled PROVE Stages'
<1>1. waited' \in BOOLEAN /\ (waited' => Child \notin alive)
  BY DEF WaitKilled
<1>2. /\ pc = "wait" /\ pc' = "drop"
      /\ UNCHANGED <<captureVars, processVars, cancelled, end, cleanup, guard, handle, reaps>>
  BY DEF WaitKilled
<1> QED
  BY <1>1, <1>2

LEMMA DropChildKeeps == ASSUME IInv, DropChild PROVE Stages'
BY DEF DropChild, KillOnDrop, Unasked

LEMMA ConfirmKeeps == ASSUME IInv, Confirm PROVE Stages'
BY DEF Confirm, ConfirmExpired

LEMMA HostReapKeeps ==
  ASSUME IInv,
         \/ pc = "reap" /\ HostReap /\ pc' = "kill"
         \/ pc = "late_reap" /\ HostReap /\ pc' = "take"
  PROVE  Stages'
<1>1. PICK gone \in SUBSET alive : Kill(gone)
  BY DEF HostReap
<1>2. /\ alive' \in SUBSET alive /\ exit' \in {exit, "failure"}
      /\ writers' \in [Streams -> SUBSET Procs]
  BY <1>1 DEF Kill, Die
<1> DEFINE isStopped == Stopped
           call == [stopped |-> isStopped, waited |-> waited, killed |-> killSent]
<1>3. isStopped \in BOOLEAN /\ (isStopped <=> Stopped)
  OBVIOUS
<1>4. reaps' = Append(reaps, call)
  BY DEF HostReap
<1> HIDE DEF isStopped
<1>5. /\ ~Owned /\ reaps = <<>>
      /\ isStopped => ~waited /\ ~killSent
  BY <1>3
<1>6. /\ call \in Reaped
      /\ call.stopped = isStopped /\ call.waited = waited /\ call.killed = killSent
  BY <1>3 DEF Reaped
<1> HIDE DEF call
<1>7. /\ Len(reaps') = 1 /\ DOMAIN reaps' = {1} /\ reaps'[1] = call
      /\ reaps' \in Seq(Reaped)
  BY <1>4, <1>5, <1>6
<1>8. \A i \in DOMAIN reaps' : reaps'[i].stopped => ~reaps'[i].waited /\ ~reaps'[i].killed
  BY <1>5, <1>6, <1>7, Zenon
<1>9. UNCHANGED <<sent, got, buffer, task, finish, taken, cancelled, end, cleanup, guard, handle,
                 waited, unborn, killSent, terminating>>
  BY DEF HostReap
<1>10. CASE pc = "reap" /\ pc' = "kill"
  BY <1>2, <1>5, <1>7, <1>8, <1>9, <1>10
<1>11. CASE pc = "late_reap" /\ pc' = "take"
  BY <1>2, <1>5, <1>7, <1>8, <1>9, <1>11
<1> QED
  BY <1>10, <1>11

LEMMA FinishStepStages == ASSUME IInv, Finish PROVE Stages'
<1>1. PICK s \in Streams : FinishStep(s)
  BY TreeAssumption DEF Finish, FinishStream
<1>2. CaptureTypeOK'
  BY <1>1, FinishKeeps DEF CaptureIInv
<1> QED
  BY <1>1, <1>2, TreeAssumption
     DEF Finish, FinishStream, FinishStep, FinishClosed, FinishExpired, FinishAbort

LEMMA FinishOverKeeps == ASSUME IInv, FinishOver PROVE Stages'
BY DEF FinishOver, LateReapDue

LEMMA TakeTextStages == ASSUME IInv, TakeText PROVE Stages'
<1>1. PICK s \in Streams : Take(s)
  BY DEF TakeText
<1>2. CaptureTypeOK'
  BY <1>1, TakeKeeps DEF CaptureIInv
<1> QED
  BY <1>1, <1>2 DEF TakeText, Take

LEMMA ReturnKeeps == ASSUME IInv, Return PROVE Stages'
BY DEF Return, DropGuard

LEMMA AbandonKeeps == ASSUME IInv, Abandon PROVE Stages'
<1>1. terminating' \in BOOLEAN /\ guard' \in {"none", "dropped"} /\ (Owned' <=> Owned)
  BY DEF Abandon, DropGuard
<1>2. CASE handle = "held"
  BY <1>1, <1>2 DEF Abandon, KillOnDrop
<1>3. CASE handle # "held"
  BY <1>1, <1>3 DEF Abandon
<1> QED
  BY <1>2, <1>3

\* The processes and the reading tasks.
LEMMA ExitKeeps == ASSUME IInv, NEW p, Exit(p) PROVE Stages'
BY DEF Exit, Die

LEMMA KillLandsKeeps == ASSUME IInv, KillLands PROVE Stages'
BY DEF KillLands, Kill, Die

LEMMA HostTerminatesKeeps == ASSUME IInv, NEW p, HostTerminates(p) PROVE Stages'
<1>1. /\ alive' = alive \ {p} /\ exit' \in {exit, "failure"}
      /\ writers' \in [Streams -> SUBSET Procs]
  BY DEF HostTerminates, Kill, Die
<1>2. p \in alive /\ UNCHANGED <<sent, got, buffer, task, finish, taken, runnerVars, unborn,
                                 killSent, terminating>>
  BY DEF HostTerminates
<1>3. handle # "none" /\ cleanup # "Confirmed"
  BY <1>2
<1> QED
  BY <1>1, <1>2, <1>3

LEMMA ForkStages == ASSUME IInv, NEW p, NEW d, Fork(p, d) PROVE Stages'
BY TreeAssumption DEF Fork

LEMMA WriterStages ==
  ASSUME IInv, NEW s \in Streams, NEW p,
         CloseEnd(p, s) \/ (\E n \in 1..MaxSent[s] : Write(p, s, n)),
         UNCHANGED <<runnerVars, processVars>>
  PROVE  Stages' /\ CaptureIInv'
<1>1. CaptureIInv'
  BY CaptureAssumption, WriteKeeps, CloseEndKeeps
<1>2. p \in writers[s] /\ UNCHANGED <<finish, taken, task>> /\ handle # "none"
  BY DEF Write, CloseEnd
<1> QED
  BY <1>1, <1>2 DEF CaptureIInv

LEMMA ReaderStages ==
  ASSUME IInv, NEW s \in Streams, Reader(s)
  PROVE  Stages' /\ CaptureIInv'
<1>1. CaptureIInv' /\ UNCHANGED <<runnerVars, processVars>>
  BY ReaderKeeps DEF Reader
<1>2. UNCHANGED <<finish, taken, writers>> /\ task[s] # "none"
  BY DEF Reader, ReaderStep, Receive, Read, ReadEof, ReadFails, AbortLands
<1> QED
  BY <1>1, <1>2 DEF CaptureIInv

-----------------------------------------------------------------------------
(* The invariant, and what it implies. *)

LEMMA InitStages == Init => Stages
<1> SUFFICES ASSUME Init PROVE Stages
  OBVIOUS
<1>1. CaptureTypeOK
  BY DEF Init, TaskStates, Held
<1>2. /\ waited \in BOOLEAN /\ killSent \in BOOLEAN /\ terminating \in BOOLEAN
      /\ cancelled \in BOOLEAN /\ ~waited /\ ~killSent
  BY Zenon DEF Init
<1>3. /\ pc = "allow" /\ end = "none" /\ cleanup = "none" /\ guard = "none" /\ handle = "none"
      /\ reaps = <<>> /\ alive = {} /\ unborn = Descendants /\ exit = "none"
      /\ NothingCaptured /\ writers = [s \in Streams |-> {}] /\ task = [s \in Streams |-> "none"]
  BY DEF Init
<1> QED
  BY <1>1, <1>2, <1>3

LEMMA InitCapture == Init => CaptureIInv
BY CaptureAssumption
   DEF Init, CaptureIInv, KeepsThePrefix, EofIsComplete, OnlyOpenIsAborted, TakenIsFinal, Held,
       TaskStates, Finished, Lesser

LEMMA SameStages == ASSUME IInv, UNCHANGED vars PROVE Stages'
BY DEF vars

\* Nobody has waited while the select! runs.
LEMMA SelectNotWaited == ASSUME IInv, pc = "select" PROVE ~waited /\ waited \in BOOLEAN
OBVIOUS

HIDE DEF IInv, Stages, TypeOK, CaptureTypeOK, HandleByStage, EndByStage, CleanupByStage,
         ReapsByStage, ConfirmedMeansGone, ReapDiscipline

LEMMA Parts == Stages /\ CaptureIInv <=> IInv
BY Zenon DEF IInv, Stages

LEMMA PartsNext == Stages' /\ CaptureIInv' => IInv'
BY Zenon DEF IInv, Stages

LEMMA InitIInv == Init => IInv
BY Parts, InitStages, InitCapture

\* Steps of processes and of the readers.
LEMMA EnvironmentKeeps ==
  ASSUME IInv, ProcessStep \/ \E s \in Streams : Reader(s)
  PROVE  IInv'
<1>1. ASSUME NEW p \in alive, Exit(p) PROVE IInv'
  BY <1>1, Parts, PartsNext, ExitKeeps, DieKeeps DEF Exit
<1>2. ASSUME NEW p \in alive, HostTerminates(p) PROVE IInv'
  BY <1>2, Parts, PartsNext, HostTerminatesKeeps, DieKeeps DEF HostTerminates, Kill
<1>3. ASSUME NEW p \in alive, NEW d \in unborn, Fork(p, d) PROVE IInv'
  BY <1>3, Parts, PartsNext, ForkStages, ForkKeeps
<1>4. CASE KillLands
  BY <1>4, Parts, PartsNext, KillLandsKeeps, DieKeeps DEF KillLands, Kill
<1>5. ASSUME NEW s \in Streams, NEW p \in writers[s],
             CloseEnd(p, s) \/ (\E n \in 1..MaxSent[s] : Write(p, s, n)),
             UNCHANGED <<runnerVars, processVars>>
      PROVE  IInv'
  BY <1>5, Parts, PartsNext, WriterStages
<1>6. ASSUME NEW s \in Streams, Reader(s) PROVE IInv'
  BY <1>6, Parts, PartsNext, ReaderStages
<1> QED
  BY <1>1, <1>2, <1>3, <1>4, <1>5, <1>6 DEF ProcessStep

\* The runner's steps.
LEMMA EndedKeeps ==
  ASSUME IInv, ChildExits \/ WaitFails \/ TimeoutFires \/ CancelSeen
  PROVE  IInv'
<1>1. CASE ChildExits
  BY <1>1, Parts, PartsNext, EndsKeeps, SelectNotWaited, SameCapture DEF ChildExits, Ends
<1>2. CASE WaitFails
  BY <1>2, Parts, PartsNext, EndsKeeps, SelectNotWaited, SameCapture DEF WaitFails, Ends
<1>3. CASE TimeoutFires
  BY <1>3, Parts, PartsNext, EndsKeeps, SelectNotWaited, SameCapture DEF TimeoutFires, Ends
<1>4. CASE CancelSeen
  BY <1>4, Parts, PartsNext, EndsKeeps, SelectNotWaited, SameCapture DEF CancelSeen, Ends
<1> QED
  BY <1>1, <1>2, <1>3, <1>4

LEMMA StepKeeps ==
  ASSUME IInv, Step
  PROVE  IInv'
<1>1. ASSUME NEW g \in {"none", "held"}, Spawn(g) PROVE IInv'
  BY <1>1, Parts, PartsNext, SpawnStages, SpawnKeeps
<1>2. CASE CheckCancelled \/ SpawnFails
  BY <1>2, Parts, PartsNext, CheckCancelledKeeps, SpawnFailsKeeps, SameCapture
     DEF CheckCancelled, SpawnFails, WithoutProcess
<1>3. CASE RequestStop \/ StartKill \/ WaitKilled
  BY <1>3, Parts, PartsNext, RequestStopKeeps, StartKillKeeps, WaitKilledKeeps, SameCapture
     DEF RequestStop, StartKill, WaitKilled
<1>4. CASE DropChild \/ Confirm \/ FinishOver \/ Return
  BY <1>4, Parts, PartsNext, DropChildKeeps, ConfirmKeeps, FinishOverKeeps, ReturnKeeps, SameCapture
     DEF DropChild, Confirm, FinishOver, Return
<1>5. CASE Finish
  BY <1>5, Parts, PartsNext, FinishStepStages, FinishKeeps, TreeAssumption DEF Finish, FinishStream
<1>6. CASE TakeText
  BY <1>6, Parts, PartsNext, TakeTextStages, TakeKeeps DEF TakeText
<1> QED
  BY <1>1, <1>2, <1>3, <1>4, <1>5, <1>6, EndedKeeps DEF Step

LEMMA ReapsKeep ==
  ASSUME IInv, Reap \/ LateReap
  PROVE  IInv'
BY Parts, PartsNext, HostReapKeeps, DieKeeps DEF Reap, LateReap, HostReap, Kill

LEMMA NextIInv == IInv /\ [Next]_vars => IInv'
<1> SUFFICES ASSUME IInv, [Next]_vars PROVE IInv'
  OBVIOUS
<1>1. CASE Cancel \/ Allow \/ Abandon
  BY <1>1, Parts, PartsNext, CancelKeeps, AllowKeeps, AbandonKeeps, SameCapture
     DEF Cancel, Allow, Abandon, WithoutProcess
<1>2. CASE UNCHANGED vars
  BY <1>2, Parts, PartsNext, SameCapture, SameStages DEF vars
<1> QED
  BY <1>1, <1>2, StepKeeps, ReapsKeep, EnvironmentKeeps DEF Next

LEMMA Invariance == Spec => []IInv
BY InitIInv, NextIInv, PTL DEF Spec

\* Every value of the execution has its type, whatever the host, the command
\* and the timers do.
THEOREM ExecuteTypeCorrect == Spec => []TypeOK
<1>1. IInv => TypeOK
  BY DEF IInv
<1> QED
  BY <1>1, Invariance, PTL

\* Confirmed is only ever answered for an owned tree that is empty, after the
\* runner let go of the Child.
THEOREM ExecuteConfirmedMeansGone == Spec => []ConfirmedMeansGone
<1>1. IInv => ConfirmedMeansGone
  BY DEF IInv
<1> QED
  BY <1>1, Invariance, PTL

\* The legacy reap happens at most once, never for an owned tree, before the
\* kill of a stopped command, and whenever a tree may have been left.
THEOREM ExecuteReapDiscipline == Spec => []ReapDiscipline
<1>1. IInv => ReapDiscipline
  BY DEF IInv
<1> QED
  BY <1>1, Invariance, PTL

\* A result with closed pipes and no mark of a cut holds all the output.
THEOREM ExecuteCompleteOrMarked == Spec => []CompleteOrMarked
<1>1. IInv => CompleteOrMarked
  BY NothingLost DEF IInv, CompleteOrMarked
<1> QED
  BY <1>1, Invariance, PTL

\* A finished run says NotStarted exactly when no process of it ever existed.
THEOREM ExecuteNotStartedMeansNothingRan == Spec => []NotStartedMeansNothingRan
<1>1. IInv => NotStartedMeansNothingRan
  BY DEF IInv, TypeOK, HandleByStage, EndByStage, CleanupByStage, NotStartedMeansNothingRan
<1> QED
  BY <1>1, Invariance, PTL

\* CheckRunner::execute: what a run says of its cleanup is true.
THEOREM ExecuteCleanupIsTrue == Spec => []CleanupIsTrue
<1>1. ConfirmedMeansGone /\ NotStartedMeansNothingRan => CleanupIsTrue
  BY DEF CleanupIsTrue
<1> QED
  BY <1>1, ExecuteConfirmedMeansGone, ExecuteNotStartedMeansNothingRan, PTL

\* CheckRunner::execute: what a run reports, of its cleanup and of its output, is
\* true, for every tree, gate, limit and schedule.
THEOREM ExecuteReportIsTrue == Spec => []ReportIsTrue
<1>1. CleanupIsTrue /\ CompleteOrMarked => ReportIsTrue
  BY DEF ReportIsTrue
<1> QED
  BY <1>1, ExecuteCleanupIsTrue, ExecuteCompleteOrMarked, PTL

-----------------------------------------------------------------------------
(* Every step of an execution is a step of ExecutePromise, or none.          *)

\* How the run ended is known from the select! on, and only a cancelled run says
\* Cancelled.
EndIsKnown ==
  /\ pc \in (Holding \cup Released) \ {"select"} => end # "none"
  /\ end = "Cancelled" => cancelled

RefineInv == IInv /\ EndIsKnown

LEMMA InitRefine == Init => RefineInv
<1>1. Init => EndIsKnown
  BY DEF Init, EndIsKnown
<1> QED BY <1>1, InitIInv DEF RefineInv

\* Only the ends of the select!, and the returns before a spawn, set it.
LEMMA EndStays ==
  ASSUME EndIsKnown, UNCHANGED end, cancelled => cancelled',
         pc' \in (Holding \cup Released) \ {"select"} =>
           pc \in (Holding \cup Released) \ {"select"}
  PROVE  EndIsKnown'
BY DEF EndIsKnown

LEMMA EndNext == RefineInv /\ [Next]_vars => EndIsKnown'
<1> SUFFICES ASSUME RefineInv, [Next]_vars PROVE EndIsKnown'
  OBVIOUS
<1> USE DEF RefineInv
<1>1. CASE Cancel
  BY <1>1, EndStays DEF Cancel
<1>2. CASE Allow
  BY <1>2, EndStays DEF Allow, WithoutProcess, EndIsKnown
<1>3. CASE Reap \/ LateReap
  BY <1>3, EndStays DEF Reap, LateReap, HostReap
<1>4. CASE Abandon
  BY <1>4, EndStays DEF Abandon
<1>5. CASE ProcessStep
  <2>1. ASSUME NEW p \in alive, Exit(p) \/ HostTerminates(p) \/ \E d \in unborn : Fork(p, d)
        PROVE  UNCHANGED runnerVars
    BY <2>1 DEF Exit, HostTerminates, Fork
  <2>2. KillLands => UNCHANGED runnerVars
    BY DEF KillLands
  <2>3. UNCHANGED runnerVars
    BY <1>5, <2>1, <2>2 DEF ProcessStep
  <2> QED BY <2>3, EndStays
<1>6. ASSUME NEW s \in Streams, Reader(s) PROVE EndIsKnown'
  BY <1>6, EndStays DEF Reader
<1>7. CASE UNCHANGED vars
  BY <1>7, EndStays DEF vars
<1>8. CASE Step
  <2>1. CASE CheckCancelled \/ SpawnFails
    BY <2>1, EndStays DEF CheckCancelled, SpawnFails, WithoutProcess, EndIsKnown
  <2>2. ASSUME NEW g, Spawn(g) PROVE EndIsKnown'
    BY <2>2, EndStays DEF Spawn
  <2>3. CASE ChildExits \/ WaitFails \/ TimeoutFires
    BY <2>3 DEF ChildExits, WaitFails, TimeoutFires, Ends, EndIsKnown
  <2>4. CASE CancelSeen
    BY <2>4 DEF CancelSeen, Ends, EndIsKnown
  <2>5. CASE RequestStop \/ StartKill \/ WaitKilled
    <3>1. UNCHANGED <<end, cancelled>> /\ pc \in Holding \ {"select"}
      BY <2>5 DEF RequestStop, StartKill, WaitKilled
    <3> QED BY <3>1, EndStays
  <2>6. CASE DropChild \/ Confirm
    BY <2>6, EndStays DEF DropChild, Confirm
  <2>7. CASE Finish
    BY <2>7, EndStays DEF Finish, FinishStream
  <2>8. CASE FinishOver \/ TakeText \/ Return
    BY <2>8, EndStays DEF FinishOver, TakeText, Return
  <2> QED BY <1>8, <2>1, <2>2, <2>3, <2>4, <2>5, <2>6, <2>7, <2>8 DEF Step
<1> QED BY <1>1, <1>2, <1>3, <1>4, <1>5, <1>6, <1>7, <1>8 DEF Next

LEMMA NextRefine == RefineInv /\ [Next]_vars => RefineInv'
BY NextIInv, EndNext DEF RefineInv

Promised == Promise!PromiseNext \/ UNCHANGED Promise!promiseVars

\* A step that the caller sees nothing of: whatever still runs may end.
LEMMA Unseen ==
  ASSUME Phase' = Phase, Answered' = Answered, UNCHANGED cancelled,
         alive = {} => alive' = {}
  PROVE  Promised
<1>1. CASE (alive # {}) = (alive' # {})
  BY <1>1 DEF Promised, Promise!promiseVars
<1>2. CASE alive # {} /\ alive' = {}
  BY <1>2 DEF Promised, Promise!PromiseNext, Promise!Quiesce
<1> QED BY <1>1, <1>2

\* A run that has not returned has no answer yet.
LEMMA NoAnswer ==
  /\ pc # "done" => Answered = Promise!NoResult
  /\ pc' # "done" => Answered' = Promise!NoResult
BY DEF Answered, Promise!NoResult

LEMMA StillRunning ==
  ASSUME pc \in Holding \cup Released, pc' \in Holding \cup Released,
         UNCHANGED cancelled, alive = {} => alive' = {}
  PROVE  Promised
<1>1. Phase = "running" /\ Phase' = "running"
  BY DEF Phase
<1>2. Answered' = Answered
  BY NoAnswer
<1> QED BY <1>1, <1>2, Unseen

LEMMA EnvironmentRefines ==
  ASSUME RefineInv, ProcessStep \/ \E s \in Streams : Reader(s)
  PROVE  Promised
<1>1. UNCHANGED runnerVars /\ (alive = {} => alive' = {})
  <2>1. ASSUME NEW p \in alive, Exit(p) \/ HostTerminates(p) \/ \E d \in unborn : Fork(p, d)
        PROVE  UNCHANGED runnerVars /\ (alive = {} => alive' = {})
    BY <2>1 DEF Exit, HostTerminates, Fork
  <2>2. KillLands => UNCHANGED runnerVars /\ alive # {}
    BY DEF KillLands
  <2>3. (\E s \in Streams : Reader(s)) => UNCHANGED runnerVars /\ alive' = alive
    BY DEF Reader
  <2>4. (\E s \in Streams : \E p \in writers[s] :
           /\ CloseEnd(p, s) \/ \E n \in 1..MaxSent[s] : Write(p, s, n)
           /\ UNCHANGED <<runnerVars, processVars>>) => UNCHANGED runnerVars /\ alive' = alive
    OBVIOUS
  <2> QED BY <2>1, <2>2, <2>3, <2>4 DEF ProcessStep
<1>2. Phase' = Phase /\ Answered' = Answered
  BY <1>1 DEF Phase, Answered
<1> QED BY <1>1, <1>2, Unseen

LEMMA WithoutProcessRefines ==
  ASSUME RefineInv, NEW why, WithoutProcess(why),
         \/ pc = "allow" /\ why = "Denied"
         \/ pc = "check" /\ why = "Cancelled" /\ cancelled
         \/ pc = "spawn" /\ why = "NotStarted"
  PROVE  Promised
<1>1. /\ pc' = "done" /\ end' = why /\ cleanup' = "NotStarted"
      /\ UNCHANGED cancelled /\ UNCHANGED alive
  BY DEF WithoutProcess
<1>2. /\ Phase' = "returned"
      /\ Answered' = [end |-> why, cleanup |-> "NotStarted"]
  BY <1>1 DEF Phase, Answered
<1>3. Phase = IF pc = "spawn" THEN "cleared" ELSE "asking"
  BY DEF Phase
<1>4. Promise!Decline(why)
  BY <1>1, <1>2, <1>3 DEF Promise!Decline
<1> QED BY <1>4 DEF Promised, Promise!PromiseNext

LEMMA StepRefines ==
  ASSUME RefineInv, Step
  PROVE  Promised
<1>1. CASE CheckCancelled
  <2>1. CASE cancelled
    BY <1>1, <2>1, WithoutProcessRefines DEF CheckCancelled
  <2>2. CASE ~cancelled
    <3>1. /\ pc = "check" /\ pc' = "spawn" /\ UNCHANGED <<cancelled, alive>>
      BY <1>1, <2>2 DEF CheckCancelled
    <3>2. Phase = "asking" /\ Phase' = "cleared" /\ Answered' = Answered
      BY <3>1, NoAnswer DEF Phase
    <3>3. Promise!Clear
      BY <2>2, <3>1, <3>2 DEF Promise!Clear
    <3> QED BY <3>3 DEF Promised, Promise!PromiseNext
  <2> QED BY <2>1, <2>2
<1>2. CASE SpawnFails
  BY <1>2, WithoutProcessRefines DEF SpawnFails
<1>3. ASSUME NEW g, Spawn(g) PROVE Promised
  <2>1. /\ pc = "spawn" /\ pc' = "select" /\ alive' = {Child} /\ UNCHANGED cancelled
    BY <1>3 DEF Spawn
  <2>2. Phase = "cleared" /\ Phase' = "running" /\ Answered' = Answered /\ alive' # {}
    BY <2>1, NoAnswer DEF Phase
  <2>3. Promise!Start
    BY <2>1, <2>2 DEF Promise!Start
  <2> QED BY <2>3 DEF Promised, Promise!PromiseNext
<1>4. CASE ChildExits \/ WaitFails \/ TimeoutFires \/ CancelSeen
  <2>1. /\ pc = "select" /\ pc' \in {"stop", "reap", "drop"} /\ UNCHANGED <<cancelled, alive>>
    BY <1>4 DEF ChildExits, WaitFails, TimeoutFires, CancelSeen, Ends, AfterEnd
  <2> QED BY <2>1, StillRunning
<1>5. CASE RequestStop \/ StartKill \/ WaitKilled
  BY <1>5, StillRunning DEF RequestStop, StartKill, WaitKilled
<1>6. CASE DropChild \/ Confirm
  BY <1>6, StillRunning DEF DropChild, Confirm
<1>7. CASE Finish
  BY <1>7, StillRunning DEF Finish, FinishStream
<1>8. CASE FinishOver \/ TakeText
  BY <1>8, StillRunning DEF FinishOver, TakeText
<1>9. CASE Return
  <2>1. /\ pc = "take" /\ pc' = "done" /\ UNCHANGED <<cancelled, alive, end, cleanup>>
    BY <1>9 DEF Return
  <2>2. /\ end \in Promise!StartedEnds
        /\ cleanup \in {"Unverified", "Confirmed"}
        /\ end = "Cancelled" => cancelled
        /\ cleanup = "Confirmed" => alive = {}
    BY <2>1 DEF RefineInv, EndIsKnown, IInv, TypeOK, HandleByStage, EndByStage, CleanupByStage,
                ConfirmedMeansGone, Promise!StartedEnds
  <2>3. /\ Phase = "running" /\ Phase' = "returned"
        /\ Answered' = [end |-> end, cleanup |-> cleanup]
    BY <2>1 DEF Phase, Answered
  <2>4. Promise!Answer(end, cleanup)
    BY <2>1, <2>2, <2>3 DEF Promise!Answer
  <2> QED BY <2>2, <2>4 DEF Promised, Promise!PromiseNext
<1> QED BY <1>1, <1>2, <1>3, <1>4, <1>5, <1>6, <1>7, <1>8, <1>9 DEF Step

LEMMA NextRefines == RefineInv /\ [Next]_vars => Promised
<1> SUFFICES ASSUME RefineInv, [Next]_vars PROVE Promised
  OBVIOUS
<1>1. CASE Cancel
  <2>1. /\ ~cancelled /\ cancelled' = TRUE /\ UNCHANGED <<pc, end, cleanup, alive>>
    BY <1>1 DEF Cancel
  <2>2. Phase' = Phase /\ Answered' = Answered
    BY <2>1 DEF Phase, Answered
  <2>3. Promise!CancelCall
    BY <2>1, <2>2 DEF Promise!CancelCall
  <2> QED BY <2>3 DEF Promised, Promise!PromiseNext
<1>2. CASE Allow
  <2>1. CASE WithoutProcess("Denied")
    BY <1>2, <2>1, WithoutProcessRefines DEF Allow
  <2>2. CASE ~WithoutProcess("Denied")
    <3>1. /\ pc = "allow" /\ pc' = "check" /\ UNCHANGED <<cancelled, alive>>
      BY <1>2, <2>2, Zenon DEF Allow, processVars
    <3>2. Phase' = Phase /\ Answered' = Answered
      BY <3>1, NoAnswer DEF Phase
    <3> QED BY <3>1, <3>2, Unseen
  <2> QED BY <2>1, <2>2
<1>3. CASE Reap \/ LateReap
  <2>1. UNCHANGED cancelled /\ (alive = {} => alive' = {})
    BY <1>3 DEF Reap, LateReap, HostReap, Kill, Die
  <2> QED BY <1>3, <2>1, StillRunning DEF Reap, LateReap
<1>4. CASE Abandon
  <2>1. /\ pc \in Awaits /\ pc' = "abandoned" /\ UNCHANGED <<cancelled, alive>>
    BY <1>4 DEF Abandon
  <2>2. Phase \in {"asking", "running"} /\ Phase' = "abandoned" /\ Answered' = Answered
    BY <2>1, NoAnswer DEF Phase
  <2>3. Promise!AbandonCall
    BY <2>1, <2>2 DEF Promise!AbandonCall
  <2> QED BY <2>3 DEF Promised, Promise!PromiseNext
<1>5. CASE UNCHANGED vars
  <2>1. Phase' = Phase /\ Answered' = Answered /\ UNCHANGED <<cancelled, alive>>
    BY <1>5 DEF vars, Phase, Answered
  <2> QED BY <2>1, Unseen
<1> QED BY <1>1, <1>2, <1>3, <1>4, <1>5, StepRefines, EnvironmentRefines DEF Next

\* CheckRunner::execute does what ExecutePromise says of it, step by step: what
\* the caller sees of it, with all its hooks, timers, readers and processes, is a
\* behaviour of the promise that CheckRun is built on.
THEOREM ExecuteKeepsItsPromise ==
  Spec => Promise!PromiseInit /\ [][Promise!PromiseNext]_(Promise!promiseVars)
<1>1. Init => Promise!PromiseInit
  <2> SUFFICES ASSUME Init PROVE Promise!PromiseInit
    OBVIOUS
  <2>1. pc = "allow" /\ cancelled = FALSE /\ alive = {}
    BY Zenon DEF Init
  <2> QED BY <2>1, NoAnswer DEF Promise!PromiseInit, Phase
<1>2. RefineInv /\ [Next]_vars => [Promise!PromiseNext]_(Promise!promiseVars)
  BY NextRefines DEF Promised
<1> QED BY <1>1, <1>2, InitRefine, NextRefine, PTL DEF Spec
=============================================================================
