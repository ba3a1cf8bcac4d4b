------------------------------ MODULE Captured ------------------------------
(***************************************************************************)
(* Captured (localx-eval-core, check.rs): the bounded capture of one       *)
(* command's output streams.  Each stream is read by a task of its own     *)
(* into a buffer behind a mutex; the runner waits for the pipe to close    *)
(* for a grace, abandons the task otherwise, and takes what is in the      *)
(* buffer.  Bytes are counted, not represented: the buffer only ever       *)
(* appends in reading order.                                               *)
(*                                                                         *)
(* The processes that write into the pipes are the environment here;       *)
(* CheckExecute composes these actions with the command's process tree.    *)
(***************************************************************************)
EXTENDS Integers

CONSTANTS
  Streams,          \* the captured streams: stdout and stderr
  Procs,            \* processes that may hold a pipe's write end
  CAPTURE_LIMIT,    \* bytes kept from each stream
  MAX_OUTPUT_BYTES, \* bytes of a stream shown in the result
  MaxSent,          \* bound: bytes the environment writes to each stream
  PipeCapacity      \* bytes the operating system buffers in a pipe

ASSUME CaptureAssumption ==
  /\ CAPTURE_LIMIT \in Nat
  /\ MAX_OUTPUT_BYTES \in Nat
  /\ MaxSent \in [Streams -> Nat]
  /\ PipeCapacity \in Nat

VARIABLES
  writers,  \* [Streams -> processes that hold the pipe's write end]
  sent,     \* [Streams -> bytes written]
  got,      \* [Streams -> bytes the reading task received]
  buffer,   \* [Streams -> Captured.buffer: bytes kept, and the truncated flag]
  task,     \* [Streams -> the reading task]
  finish,   \* [Streams -> progress and answer of finish(grace)]
  taken     \* [Streams -> the text of the result, once taken]

captureVars == <<writers, sent, got, buffer, task, finish, taken>>

\* A task in one of these states reports is_finished.
Finished == {"eof", "failed", "aborted"}
TaskStates == {"none", "reading", "aborting"} \cup Finished
NoText == [bytes |-> -1, marked |-> FALSE, truncated |-> FALSE]

Lesser(a, b) == IF a <= b THEN a ELSE b
Unread(s) == sent[s] - got[s]

-----------------------------------------------------------------------------
(* The processes: each may write, or close its end. *)

Write(p, s, n) ==
  /\ p \in writers[s]
  /\ task[s] \in {"reading", "aborting"}
  /\ sent[s] + n <= MaxSent[s]
  /\ Unread(s) + n <= PipeCapacity
  /\ sent' = [sent EXCEPT ![s] = @ + n]
  /\ UNCHANGED <<writers, got, buffer, task, finish, taken>>

CloseEnd(p, s) ==
  /\ p \in writers[s]
  /\ writers' = [writers EXCEPT ![s] = @ \ {p}]
  /\ UNCHANGED <<sent, got, buffer, task, finish, taken>>

-----------------------------------------------------------------------------
(* The reading task. *)

\* Mutant of Keep: a chunk that does not fit whole is dropped.
KeepWholeChunks(held, n) ==
  LET room == CAPTURE_LIMIT - held.bytes
  IN  [bytes |-> held.bytes + (IF n > room THEN 0 ELSE n),
       truncated |-> held.truncated \/ n > room]

\* What the buffer holds after a chunk of n bytes arrived.
Keep(held, n) ==
  LET room == CAPTURE_LIMIT - held.bytes
  IN  [bytes |-> held.bytes + Lesser(n, room),
       truncated |-> held.truncated \/ n > room]

\* Mutant of Read: the task stops reading once the buffer is full.
ReadWhileRoom(s, n) ==
  /\ task[s] \in {"reading", "aborting"}
  /\ n \in 1..Unread(s)
  /\ buffer[s].bytes < CAPTURE_LIMIT
  /\ got' = [got EXCEPT ![s] = @ + n]
  /\ buffer' = [buffer EXCEPT ![s] = Keep(@, n)]
  /\ UNCHANGED <<writers, sent, task, finish, taken>>

\* Ok(n): an abort only takes effect at the task's next await, so a task being
\* aborted may still read.
Read(s, n) ==
  /\ task[s] \in {"reading", "aborting"}
  /\ n \in 1..Unread(s)
  /\ got' = [got EXCEPT ![s] = @ + n]
  /\ buffer' = [buffer EXCEPT ![s] = Keep(@, n)]
  /\ UNCHANGED <<writers, sent, task, finish, taken>>

\* Ok(0): every write end is closed and the pipe is empty.
ReadEof(s) ==
  /\ task[s] \in {"reading", "aborting"}
  /\ writers[s] = {}
  /\ Unread(s) = 0
  /\ task' = [task EXCEPT ![s] = "eof"]
  /\ UNCHANGED <<writers, sent, got, buffer, finish, taken>>

\* Err(_): a failed read also ends the loop.
ReadFails(s) ==
  /\ task[s] \in {"reading", "aborting"}
  /\ task' = [task EXCEPT ![s] = "failed"]
  /\ UNCHANGED <<writers, sent, got, buffer, finish, taken>>

AbortLands(s) ==
  /\ task[s] = "aborting"
  /\ task' = [task EXCEPT ![s] = "aborted"]
  /\ UNCHANGED <<writers, sent, got, buffer, finish, taken>>

-----------------------------------------------------------------------------
(* The runner: finish(grace), then take(). *)

\* There is no task, or is_finished was seen: the stream closed.
FinishClosed(s) ==
  /\ finish[s] = "waiting"
  /\ task[s] \in Finished \cup {"none"}
  /\ finish' = [finish EXCEPT ![s] = "closed"]
  /\ UNCHANGED <<writers, sent, got, buffer, task, taken>>

\* Mutant of FinishExpired: the poll loop has no deadline.
PollForEver(s) ==
  /\ finish[s] = "waiting"
  /\ task[s] \in {"reading", "aborting"}
  /\ UNCHANGED captureVars

\* The task was still running when is_finished was polled, and the deadline
\* has passed.
FinishExpired(s) ==
  /\ finish[s] = "waiting"
  /\ task[s] \in {"reading", "aborting"}
  /\ finish' = [finish EXCEPT ![s] = "expired"]
  /\ UNCHANGED <<writers, sent, got, buffer, task, taken>>

\* task.abort(); return false.  The task may have finished since the poll.
FinishAbort(s) ==
  /\ finish[s] = "expired"
  /\ task' = [task EXCEPT ![s] = IF @ = "reading" THEN "aborting" ELSE @]
  /\ finish' = [finish EXCEPT ![s] = "open"]
  /\ UNCHANGED <<writers, sent, got, buffer, taken>>

\* sanitize() and bound(): text past the cap is cut and a marker appended.  The
\* text is one byte per character and the gate keeps it, which is its default.
Bound(held) ==
  [bytes |-> Lesser(held.bytes, MAX_OUTPUT_BYTES),
   marked |-> held.bytes > MAX_OUTPUT_BYTES,
   truncated |-> held.truncated]

Take(s) ==
  /\ finish[s] \in {"closed", "open"}
  /\ taken[s] = NoText
  /\ taken' = [taken EXCEPT ![s] = Bound(buffer[s])]
  /\ UNCHANGED <<writers, sent, got, buffer, task, finish>>

-----------------------------------------------------------------------------
(* The capture on its own: streams whose write ends are already held. *)

NothingCaptured ==
  /\ sent = [s \in Streams |-> 0]
  /\ got = [s \in Streams |-> 0]
  /\ buffer = [s \in Streams |-> [bytes |-> 0, truncated |-> FALSE]]
  /\ finish = [s \in Streams |-> "waiting"]
  /\ taken = [s \in Streams |-> NoText]

CaptureInit ==
  /\ NothingCaptured
  /\ writers \in [Streams -> SUBSET Procs]
  /\ task = [s \in Streams |-> "reading"]

\* The read returns without an error.
Receive(s) == (\E n \in 1..Unread(s) : Read(s, n)) \/ ReadEof(s)

ReaderStep(s) ==
  \/ Receive(s)
  \/ ReadFails(s)
  \/ AbortLands(s)

FinishStep(s) == FinishClosed(s) \/ FinishExpired(s) \/ FinishAbort(s)

CaptureNext ==
  \E s \in Streams :
    \/ \E p \in Procs : CloseEnd(p, s) \/ \E n \in 1..MaxSent[s] : Write(p, s, n)
    \/ ReaderStep(s)
    \/ FinishStep(s)
    \/ Take(s)

\* A reading task with something to read is scheduled.  No read owes a failure,
\* the writers owe nothing, and nobody has to end the command.
CaptureFairness == \A s \in Streams : WF_captureVars(Receive(s))

CaptureSpec == CaptureInit /\ [][CaptureNext]_captureVars /\ CaptureFairness

-----------------------------------------------------------------------------
Held == [bytes : Nat, truncated : BOOLEAN]
Text == [bytes : Nat, marked : BOOLEAN, truncated : BOOLEAN]

CaptureTypeOK ==
  /\ writers \in [Streams -> SUBSET Procs]
  /\ sent \in [Streams -> Nat]
  /\ got \in [Streams -> Nat]
  /\ buffer \in [Streams -> Held]
  /\ task \in [Streams -> TaskStates]
  /\ finish \in [Streams -> {"waiting", "expired", "closed", "open"}]
  /\ taken \in [Streams -> Text \cup {NoText}]

\* "Captured as it arrives and bounded while reading": the buffer is exactly
\* the first CAPTURE_LIMIT bytes read, however they were chunked, and the flag
\* is up exactly when a byte was discarded.
KeepsThePrefix ==
  \A s \in Streams :
    /\ got[s] <= sent[s]
    /\ buffer[s].bytes = Lesser(got[s], CAPTURE_LIMIT)
    /\ buffer[s].truncated <=> got[s] > CAPTURE_LIMIT

\* "An empty capture is then unproven, not clean" only for open pipes: text
\* that carries neither the flag nor the marker, from a pipe reported closed
\* and read without error, is everything that was written to it.
NothingLostSilently ==
  \A s \in Streams :
    (/\ taken[s] # NoText
     /\ finish[s] = "closed" /\ task[s] # "failed"
     /\ ~taken[s].truncated /\ ~taken[s].marked) => taken[s].bytes = sent[s]

\* What Captured tells of a stream is true, of what it keeps and of what it lost.
CaptureIsTrue == KeepsThePrefix /\ NothingLostSilently

\* What CheckExecuteProofs needs besides: a task that saw the end of its pipe has
\* read all of it, only an abandoned stream's task is aborted, and the text
\* taken from a closed stream is the final buffer.
EofIsComplete ==
  \A s \in Streams : task[s] = "eof" => writers[s] = {} /\ got[s] = sent[s]

OnlyOpenIsAborted ==
  \A s \in Streams :
    /\ task[s] \in {"aborting", "aborted"} => finish[s] = "open"
    /\ finish[s] = "closed" => task[s] \in Finished \cup {"none"}
    /\ task[s] = "none" => writers[s] = {} /\ sent[s] = 0

TakenIsFinal ==
  \A s \in Streams :
    taken[s] # NoText =>
      /\ finish[s] \in {"closed", "open"}
      /\ finish[s] = "closed" => taken[s] = Bound(buffer[s])

CaptureIInv ==
  /\ CaptureTypeOK
  /\ KeepsThePrefix
  /\ EofIsComplete
  /\ OnlyOpenIsAborted
  /\ TakenIsFinal

\* "The rest is read and discarded so the command never blocks on a full
\* pipe": every byte written is read in the end, also those past the limit,
\* unless the task failed or was abandoned.
FloodDrains ==
  \A s \in Streams : \A n \in 1..MaxSent[s] :
    sent[s] >= n ~> got[s] >= n \/ task[s] # "reading"
=============================================================================
