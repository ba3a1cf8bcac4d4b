---------------------------- MODULE ToolRunProofs ----------------------------
(* For every limit and every poll interval: no tool outlives its run, text is *)
(* lost only to a helper, and a run overshoots its limit by at most as much   *)
(* again or by one poll.                                                      *)
EXTENDS ToolRun, TLAPS

LEMMA InitInv == Init => IInv
  BY TimeAssumption
  DEF Init, IInv, TypeOK, ToolKnown, ClockKnown, WaitKnown, OverrunIsBounded,
      NoToolLeft, LostOnlyToHelper, Streams, Tool, Helper, Running, Exited

\* The steps of the tool, its helper and the reading threads leave the clock and
\* the caller alone.
LEMMA ToolTypeOK ==
  ASSUME TypeOK,
         \/ ToolExits \/ HelperExits \/ Reader
         \/ \E s \in Streams : ToolWrites(s) \/ ToolForks(s)
  PROVE  TypeOK'
<1> USE DEF clockVars, TypeOK
<1>1. CASE ToolExits
  BY <1>1 DEF ToolExits, Released, Streams, Tool, Helper
<1>2. CASE HelperExits
  BY <1>2 DEF HelperExits, Released, Streams, Tool, Helper
<1>3. CASE Reader
  BY <1>3 DEF Reader, ReaderSends, toolVars
<1>4. ASSUME NEW s \in Streams, ToolWrites(s)
      PROVE  TypeOK'
  BY <1>4 DEF ToolWrites
<1>5. ASSUME NEW s \in Streams, ToolForks(s)
      PROVE  TypeOK'
  <2>1. holders' \in [Streams -> SUBSET {Tool, Helper}]
    BY <1>5 DEF ToolForks, Helper, Tool
  <2> QED BY <1>5, <2>1 DEF ToolForks
<1> QED BY <1>1, <1>2, <1>3, <1>4, <1>5

LEMMA ToolStepInv ==
  ASSUME IInv,
         \/ ToolExits \/ HelperExits \/ Reader
         \/ \E s \in Streams : ToolWrites(s) \/ ToolForks(s)
  PROVE  IInv'
<1> USE TimeAssumption
    DEF clockVars, toolVars, Streams, Tool, Helper, Running, Exited, Released,
        ToolExits, HelperExits, Reader, ReaderSends, ToolWrites, ToolForks
<1>1. TypeOK'
  BY ToolTypeOK DEF IInv
<1>2. ToolKnown'
  BY DEF IInv, TypeOK, ToolKnown, CanSend
<1>3. ClockKnown'
  BY DEF IInv, TypeOK, ClockKnown
<1>4. WaitKnown'
  BY DEF IInv, TypeOK, ToolKnown, WaitKnown
<1>5. OverrunIsBounded'
  BY DEF IInv, OverrunIsBounded
<1>6. NoToolLeft'
  BY DEF IInv, TypeOK, ToolKnown, NoToolLeft
<1>7. LostOnlyToHelper'
  BY DEF IInv, TypeOK, ToolKnown, LostOnlyToHelper
<1> QED BY <1>1, <1>2, <1>3, <1>4, <1>5, <1>6, <1>7 DEF IInv

\* The caller's steps, each with the parts of the invariant it can disturb.
LEMMA CallerStepInv ==
  ASSUME IInv, Caller
  PROVE  IInv'
<1> USE TimeAssumption
    DEF clockVars, toolVars, Streams, Tool, Helper, Running, Exited, Released,
        IInv, TypeOK, ToolKnown, ClockKnown, WaitKnown, OverrunIsBounded, NoToolLeft,
        LostOnlyToHelper
<1>1. CASE Spawn
  BY <1>1 DEF Spawn
<1>2. CASE SpawnFails
  BY <1>2 DEF SpawnFails
<1>3. CASE Sleeps
  BY <1>3 DEF Sleeps
<1>4. CASE Wakes
  BY <1>4 DEF Wakes
<1>5. ASSUME NEW failed \in BOOLEAN, GivesUp(failed)
      PROVE  IInv'
  BY <1>5 DEF GivesUp, KillTool
<1>6. CASE SeesExit
  BY <1>6 DEF SeesExit, Left
<1>7. CASE ReceiveStdout
  BY <1>7 DEF ReceiveStdout, Receive
<1>8. CASE ReceiveStderr
  BY <1>8 DEF ReceiveStderr, Receive
<1> QED BY <1>1, <1>2, <1>3, <1>4, <1>5, <1>6, <1>7, <1>8 DEF Caller

LEMMA TickInv ==
  ASSUME IInv, Tick
  PROVE  IInv'
  BY TimeAssumption
  DEF Tick, CanSend, toolVars, Streams, Tool, Helper, Running, Exited, IInv, TypeOK,
      ToolKnown, ClockKnown, WaitKnown, OverrunIsBounded, NoToolLeft, LostOnlyToHelper

LEMMA StutterInv ==
  ASSUME IInv, UNCHANGED vars
  PROVE  IInv'
  BY DEF vars, IInv, TypeOK, ToolKnown, ClockKnown, WaitKnown, OverrunIsBounded,
         NoToolLeft, LostOnlyToHelper, Running, Exited

\* run_tool keeps its invariant.
THEOREM ToolRunInvariant == Spec => []IInv
<1>1. IInv /\ [Next]_vars => IInv'
  BY ToolStepInv, CallerStepInv, TickInv, StutterInv DEF Next
<1> QED BY InitInv, <1>1, PTL DEF Spec

\* run_tool, tool.rs: it returns within twice its limit or one poll after it.
THEOREM ToolRunOverrun == Spec => []OverrunIsBounded
<1>1. IInv => OverrunIsBounded
  BY DEF IInv
<1> QED BY ToolRunInvariant, <1>1, PTL

\* run_tool, tool.rs: the tool never outlives its run.
THEOREM ToolRunLeavesNoTool == Spec => []NoToolLeft
<1>1. IInv => NoToolLeft
  BY DEF IInv
<1> QED BY ToolRunInvariant, <1>1, PTL

\* run_tool, tool.rs: what the tool wrote is lost only to a helper that holds
\* its stream, or to a limit that was over.
THEOREM ToolRunLosesOnlyToHelper == Spec => []LostOnlyToHelper
<1>1. IInv => LostOnlyToHelper
  BY DEF IInv
<1> QED BY ToolRunInvariant, <1>1, PTL

\* run_tool, tool.rs: it is over in time, and its tool with it.
THEOREM ToolRunIsContained == Spec => []RunIsContained
<1>1. OverrunIsBounded /\ NoToolLeft => RunIsContained
  BY DEF RunIsContained
<1> QED
  BY <1>1, ToolRunOverrun, ToolRunLeavesNoTool, PTL
=============================================================================
