------------------------------- MODULE FitArgs ------------------------------
(***************************************************************************)
(* What llama-fit-params is given and what its answer means (fit.rs of     *)
(* localx-llama-core), and what a build's --help says of it                *)
(* (capabilities.rs).                                                      *)
(*                                                                         *)
(* Of the flags of the code's tables the ones that occur are listed.  Of   *)
(* the fitter's answer the parts that matter are kept: the value of -ngl,  *)
(* when it printed one, and the entries of -ot as [block, device] pairs.   *)
(***************************************************************************)
EXTENDS Lists, FiniteSets

CONSTANT Flags  \* the tokens of a dash and then a letter or a dash: "-1" is none of them

MEMORY_FLAGS_WITH_VALUE ==
  {"-m", "-c", "--parallel", "--cache-type-k", "--cache-type-v", "--flash-attn", "--ubatch-size",
   "--batch-size", "--load-mode", "--split-mode", "--main-gpu"}
MEMORY_SWITCHES == {"--swa-full", "--no-mmap", "--mlock"}
PLACEMENT_FLAGS ==
  {"-ngl", "--gpu-layers", "--n-gpu-layers", "-ncmoe", "--n-cpu-moe", "-ot", "--override-tensor"}

\* Server flags that occur and that the fitter does not know.
SERVER_FLAGS ==
  {"--host", "--port", "--cache-reuse", "--fit-target", "--threads", "--threads-batch", "--cache-prompt",
   "--jinja", "--chat-template", "--chat-template-file", "--mmproj", "--reasoning", "--reasoning-budget", "--reasoning-format",
   "--temp", "--spec-type", "--spec-draft-model", "--spec-draft-n-max", "--cpu-moe", "-cmoe"}

ASSUME FlagsAssumption ==
  MEMORY_FLAGS_WITH_VALUE \cup MEMORY_SWITCHES \cup PLACEMENT_FLAGS \cup SERVER_FLAGS \subseteq Flags

IsFlag(token) == token \in Flags

-----------------------------------------------------------------------------

\* Mutant of Token: whatever follows a dropped flag is dropped as its value.
TokenBlind(before, token) ==
  CASE before = "value" -> [kept |-> TRUE, next |-> "flag"]
    [] before = "flag" /\ token \in MEMORY_FLAGS_WITH_VALUE -> [kept |-> TRUE, next |-> "value"]
    [] before = "flag" /\ token \in MEMORY_SWITCHES -> [kept |-> TRUE, next |-> "flag"]
    [] before = "dropped" \/ ~IsFlag(token) -> [kept |-> FALSE, next |-> "flag"]
    [] OTHER -> [kept |-> FALSE, next |-> "dropped"]

\* How a token is read after what was read before it: as the "value" of the flag
\* that was kept, as what may be the value of the one "dropped", or anew.
\* Memory flags are kept with the value after them, memory switches are kept;
\* any other flag is dropped, with its value when one follows.
Token(before, token) ==
  CASE before = "value" -> [kept |-> TRUE, next |-> "flag"]
    [] before # "value" /\ token \in MEMORY_FLAGS_WITH_VALUE -> [kept |-> TRUE, next |-> "value"]
    [] before # "value" /\ token \in MEMORY_SWITCHES -> [kept |-> TRUE, next |-> "flag"]
    [] before = "dropped" /\ ~IsFlag(token) -> [kept |-> FALSE, next |-> "flag"]
    [] before = "flag" /\ ~IsFlag(token) -> [kept |-> FALSE, next |-> "flag"]
    [] OTHER -> [kept |-> FALSE, next |-> "dropped"]

FitParamsArgs(argv, margin) ==
  LET before[i \in 1..Len(argv)] ==
        IF i = 1 THEN "flag" ELSE Token(before[i - 1], argv[i - 1]).next
  IN FlattenSeq([i \in DOMAIN argv |-> IF Token(before[i], argv[i]).kept THEN <<argv[i]>> ELSE <<>>])
       \o <<"--fit-target", margin>>

-----------------------------------------------------------------------------

\* Blocks with an expert tensor on the CPU, each counted once.
CpuBlocks(overrides) == {entry[1] : entry \in {e \in overrides : e[2] = "CPU"}}

NCpuMoe(placement) == Cardinality(placement.cpu_expert_blocks)

ParseFitOutput(answer) ==
  CASE ~answer.ran -> [error |-> "DidNotRun"]
    [] answer.ran /\ answer.ngl = <<>> -> [error |-> IF answer.log THEN "Failed" ELSE "Unrecognised"]
    [] answer.ran /\ answer.ngl # <<>> ->
         [error |-> "none", gpu_layers |-> answer.ngl[1],
          cpu_expert_blocks |-> CpuBlocks(answer.overrides)]

-----------------------------------------------------------------------------
(* Help text: lines of tokens; a description is a token of its own. *)

\* The option is among the options that begin a line, before any other word.
ListsOption(help, option) ==
  \E line \in help :
    \E i \in DOMAIN line : line[i] = option /\ \A j \in 1..i : line[j] # "text"

FromHelp(help) ==
  [load_mode |-> ListsOption(help, "--load-mode"), fit |-> ListsOption(help, "--fit")]

LoadFlagsOf(capabilities) == IF capabilities.load_mode THEN "LoadMode" ELSE "Legacy"
=============================================================================
