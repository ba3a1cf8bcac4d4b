------------------------------- MODULE ToolRun -------------------------------
(***************************************************************************)
(* run_tool (localx-llama-runtime, tool.rs): a helper tool is run within a *)
(* time limit, both its streams read to their end on threads of their own, *)
(* and what they read is collected once the tool has exited.               *)
(*                                                                         *)
(* Time is counted in ticks and passes only while the caller's thread      *)
(* sleeps or waits; the reading threads take none.  The tool, and a helper *)
(* it may leave behind with one of its streams, take as long as they like. *)
(***************************************************************************)
EXTENDS Integers

CONSTANTS
  TIMEOUT,   \* the time limit
  POLL       \* how long the caller sleeps between two looks at the tool

ASSUME TimeAssumption == TIMEOUT \in Nat /\ POLL \in Nat \ {0}

VARIABLES
  now,        \* ticks since the deadline was set
  phase,      \* "start", "poll", "sleep", "stdout", "stderr" (waited for) or "over"
  until,      \* when the caller's sleep or wait is over
  remaining,  \* what was left of the limit when the exit was seen
  exit,       \* "none" before the start, then "running", "success" or "failure"
  holders,    \* [Streams -> processes that hold the write end]
  helped,     \* history: streams a helper has ever held
  wrote,      \* the streams the tool has written to
  sent,       \* the streams whose reading thread has sent its text
  result,     \* "pending", "none" or "output"
  got         \* the streams whose text is in the output

vars == <<now, phase, until, remaining, exit, holders, helped, wrote, sent, result, got>>
clockVars == <<now, until, remaining>>
toolVars == <<exit, holders, helped, wrote>>

Streams == {"stdout", "stderr"}
Tool == "tool"
Helper == "helper"

\* Mutant of Left: each wait has the whole limit.
LeftWhole == TIMEOUT

\* saturating_duration_since: what is left of the limit.
Left == IF now < TIMEOUT THEN TIMEOUT - now ELSE 0

Init ==
  /\ now = 0 /\ until = 0 /\ remaining = 0
  /\ phase = "start"
  /\ exit = "none"
  /\ holders = [s \in Streams |-> {}]
  /\ helped = {} /\ wrote = {} /\ sent = {} /\ got = {}
  /\ result = "pending"

-----------------------------------------------------------------------------
(* The tool, its helper and the reading threads. *)

Running == exit = "running"
Exited == exit \in {"success", "failure"}
Released(p) == [s \in Streams |-> holders[s] \ {p}]

ToolWrites(s) ==
  /\ Running
  /\ wrote' = wrote \cup {s}
  /\ UNCHANGED <<clockVars, phase, exit, holders, helped, sent, result, got>>

ToolForks(s) ==
  /\ Running
  /\ holders' = [holders EXCEPT ![s] = @ \cup {Helper}]
  /\ helped' = helped \cup {s}
  /\ UNCHANGED <<clockVars, phase, exit, wrote, sent, result, got>>

ToolExits ==
  /\ Running
  /\ exit' \in {"success", "failure"}
  /\ holders' = Released(Tool)
  /\ UNCHANGED <<clockVars, phase, helped, wrote, sent, result, got>>

HelperExits ==
  /\ \E s \in Streams : Helper \in holders[s]
  /\ holders' = Released(Helper)
  /\ UNCHANGED <<clockVars, phase, exit, helped, wrote, sent, result, got>>

\* drain: read_to_end returned, and the text is sent.
CanSend(s) == exit # "none" /\ s \notin sent /\ holders[s] = {}

ReaderSends(s) ==
  /\ CanSend(s)
  /\ sent' = sent \cup {s}
  /\ UNCHANGED <<clockVars, phase, toolVars, result, got>>

-----------------------------------------------------------------------------
(* The caller. *)

Spawn ==
  /\ phase = "start"
  /\ phase' = "poll"
  /\ exit' = "running"
  /\ holders' = [s \in Streams |-> {Tool}]
  /\ UNCHANGED <<clockVars, helped, wrote, sent, result, got>>

\* spawn().ok()? fails.
SpawnFails ==
  /\ phase = "start"
  /\ phase' = "over"
  /\ result' = "none"
  /\ UNCHANGED <<clockVars, toolVars, sent, got>>

\* Ok(None) within the limit.
Sleeps ==
  /\ phase = "poll"
  /\ Running
  /\ now < TIMEOUT
  /\ phase' = "sleep"
  /\ until' = now + POLL
  /\ UNCHANGED <<now, remaining, toolVars, sent, result, got>>

Wakes ==
  /\ phase = "sleep"
  /\ now = until
  /\ phase' = "poll"
  /\ UNCHANGED <<clockVars, toolVars, sent, result, got>>

\* kill and wait; a killed tool is gone at once.
KillTool ==
  /\ exit' = IF Running THEN "failure" ELSE exit
  /\ holders' = Released(Tool)

\* Ok(None) after the limit, or try_wait failed, which it may at any time.
GivesUp(failed) ==
  /\ phase = "poll"
  /\ failed \/ (Running /\ now >= TIMEOUT)
  /\ KillTool
  /\ phase' = "over"
  /\ result' = "none"
  /\ UNCHANGED <<clockVars, helped, wrote, sent, got>>

\* Ok(Some(status)): what is left of the limit is computed once, for both waits.
SeesExit ==
  /\ phase = "poll"
  /\ Exited
  /\ phase' = "stdout"
  /\ remaining' = Left
  /\ until' = now + Left
  /\ UNCHANGED <<now, toolVars, sent, result, got>>

\* Mutants of Receive: recv, which waits for as long as the stream is held;
\* try_recv, which does not wait.
ReceiveAtLast(s) == s \in sent /\ got' = got \cup ({s} \cap wrote)
ReceiveNow(s) == got' = got \cup (sent \cap {s} \cap wrote)

\* recv_timeout(remaining).unwrap_or_default()
Receive(s) ==
  /\ s \in sent \/ now = until
  /\ got' = got \cup (sent \cap {s} \cap wrote)

ReceiveStdout ==
  /\ phase = "stdout"
  /\ Receive("stdout")
  /\ phase' = "stderr"
  /\ until' = now + remaining
  /\ UNCHANGED <<now, remaining, toolVars, sent, result>>

ReceiveStderr ==
  /\ phase = "stderr"
  /\ Receive("stderr")
  /\ phase' = "over"
  /\ result' = "output"
  /\ UNCHANGED <<clockVars, toolVars, sent>>

Caller ==
  \/ Spawn \/ SpawnFails \/ Sleeps \/ Wakes \/ SeesExit
  \/ \E failed \in BOOLEAN : GivesUp(failed)
  \/ ReceiveStdout \/ ReceiveStderr

Reader == \E s \in Streams : ReaderSends(s)

Tick ==
  /\ phase \in {"sleep", "stdout", "stderr"}
  /\ now < until
  /\ \A s \in Streams : ~CanSend(s)
  /\ phase \in {"stdout", "stderr"} => phase \notin sent
  /\ now' = now + 1
  /\ UNCHANGED <<phase, until, remaining, toolVars, sent, result, got>>

Next ==
  \/ Caller \/ Reader \/ Tick
  \/ ToolExits \/ HelperExits
  \/ \E s \in Streams : ToolWrites(s) \/ ToolForks(s)

\* The caller's thread and the reading threads run and time passes; the tool and
\* its helper owe nothing.
Spec == Init /\ [][Next]_vars /\ WF_vars(Caller) /\ WF_vars(Reader) /\ WF_vars(Tick)

-----------------------------------------------------------------------------
TypeOK ==
  /\ now \in Nat /\ until \in Nat /\ remaining \in 0..TIMEOUT
  /\ phase \in {"start", "poll", "sleep", "stdout", "stderr", "over"}
  /\ exit \in {"none", "running", "success", "failure"}
  /\ holders \in [Streams -> SUBSET {Tool, Helper}]
  /\ helped \subseteq Streams /\ wrote \subseteq Streams
  /\ sent \subseteq Streams /\ got \subseteq Streams
  /\ result \in {"pending", "none", "output"}

\* run_tool returns, even of a tool that never exits or that left a helper with
\* its streams.
RunEnds == <>(phase = "over")

\* How late it may return: each of the two waits may take what was left of the
\* limit, and the last sleep may end after it.
OverrunIsBounded == now <= 2 * TIMEOUT \/ now < TIMEOUT + POLL

\* No tool outlives its run: either it never started or it has exited.
NoToolLeft == phase = "over" => ~Running /\ \A s \in Streams : Tool \notin holders[s]

\* A run is over in bounded time, and its tool with it.
RunIsContained == OverrunIsBounded /\ NoToolLeft

\* Text of a tool that exited is lost only with a stream a helper held or when
\* nothing was left of the limit.
LostOnlyToHelper ==
  result = "output" => wrote \ got \subseteq helped \/ remaining = 0

-----------------------------------------------------------------------------
\* The inductive invariant: what each phase knows of the tool and the clock.
ToolKnown ==
  /\ phase = "start" => exit = "none"
  /\ phase \in {"poll", "sleep"} => exit # "none"
  /\ phase \in {"stdout", "stderr"} => Exited
  /\ phase = "over" => ~Running
  /\ result = "output" => phase = "over"
  /\ ~Running => \A s \in Streams : Tool \notin holders[s]
  /\ \A s \in Streams : Helper \in holders[s] => s \in helped

ClockKnown ==
  /\ phase \in {"start", "poll"} => now < TIMEOUT + POLL
  /\ phase = "sleep" => now <= until /\ until < TIMEOUT + POLL
  /\ phase = "stdout" =>
       /\ now <= until
       /\ remaining > 0 => until = TIMEOUT
       /\ remaining = 0 => now < TIMEOUT + POLL /\ until = now
  /\ phase = "stderr" =>
       /\ now <= until
       /\ remaining > 0 => until <= TIMEOUT + remaining
       /\ remaining = 0 => now < TIMEOUT + POLL /\ until = now

\* A wait that took time was for a stream a helper held.
WaitKnown ==
  /\ phase \in {"stdout", "stderr"} => now + remaining = until \/ phase \in helped
  /\ phase = "stderr" /\ "stdout" \in wrote \ got => "stdout" \in helped \/ remaining = 0

IInv ==
  /\ TypeOK /\ ToolKnown /\ ClockKnown /\ WaitKnown
  /\ OverrunIsBounded /\ NoToolLeft /\ LostOnlyToHelper
=============================================================================
