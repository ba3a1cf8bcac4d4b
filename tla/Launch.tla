------------------------------- MODULE Launch -------------------------------
(***************************************************************************)
(* A launch from a request to an argument vector: the quant is chosen from *)
(* the listing, the definition is validated, the build's help is read, the *)
(* vector is built, llama-fit-params is asked where the model fits, and    *)
(* the vector is built again for its answer.  A tuner may store the        *)
(* overrides of what ran; a later launch, perhaps on another build,        *)
(* replays them.                                                           *)
(*                                                                         *)
(* The choices and the vectors are those of localx-llama-core.  The order  *)
(* of the calls is the application's, as the docs of each call give it,    *)
(* and the answers are those of external programs.                         *)
(***************************************************************************)
EXTENDS QuantSelect, FitArgs, LaunchArgs

CONSTANTS
  Requests,  \* [listing, quant, def, context, mode, params, build], from which a launch starts
  Builds,    \* builds of the server, as [help, accepts]
  Answers    \* answers of llama-fit-params

PATH == "model.gguf"
MARGIN == "1024"

-----------------------------------------------------------------------------
(* What is assumed of the inputs: their types, that no value looks like a      *)
(* flag, and that extra arguments give every flag its value.                   *)

\* The values that the code writes itself.
WRITTEN ==
  {PATH, MARGIN, "127.0.0.1", "8080", "on", "off", "deepseek", "0", "none", "0.6", "0.7", "0.2",
   "mlock", "mmap+mlock", "draft-simple"} \cup MAINLINE_KV_TYPES \cup TURBO_KV_TYPES

Text == STRING
Word == Text \ Flags
IsOption(o, S) == o = None \/ (o = Some(o[1]) /\ o[1] \in S)

ASSUME WordsAssumption ==
  /\ Flags \subseteq Text /\ WRITTEN \subseteq Word
  /\ Numbers \subseteq Int /\ 999 \in Numbers /\ Decimal \in [Numbers -> Word]
  /\ Lower("draft-simple") = "draft-simple"

\* Flags whose values a property looks at.
VALUED == MEMORY_FLAGS_WITH_VALUE \cup {"-ngl", "--n-cpu-moe", "--spec-type"}

GivesValues(args) ==
  \A i \in DOMAIN args : args[i] \in VALUED => i + 1 \in DOMAIN args /\ args[i + 1] \notin Flags

LOAD_FLAGS == {"--mlock", "--no-mmap", "--load-mode"}

IsExtra(args) == args \in Seq(Text) /\ GivesValues(args)

IsFile(file) ==
  /\ file.segments \in Seq(Text) /\ file.segments # <<>>
  /\ file.shard = <<>> \/ file.shard \in Nat \X Nat
  /\ IsOption(file.size, Nat)

NUMERIC == {"parallel", "cache_reuse", "n_gpu_layers", "n_cpu_moe", "fit_target_mib", "ubatch_size",
            "batch_size", "threads", "threads_batch", "spec_draft_n_max"}
TEXTUAL == {"split_mode", "vision_module_path", "draft_module_path", "spec_type"}

ASSUME RequestsAssumption ==
  \A request \in Requests :
    /\ IsFiniteSet(request.listing) /\ \A file \in request.listing : IsFile(file)
    /\ IsOption(request.quant, QuantKeys)
    /\ request.build \in Builds
    /\ request.params = [field \in DOMAIN Defaults |-> request.params[field]]
    /\ \A field \in NUMERIC : IsOption(request.params[field], Numbers)
    /\ \A field \in TEXTUAL : IsOption(request.params[field], Word)
    /\ \A field \in {"mlock", "no_mmap"} :
         IsOption(request.params[field], BOOLEAN) /\ IsOption(request.def[field], BOOLEAN)
    /\ IsOption(request.params.chat_template_override,
                [flag : {"--chat-template", "--chat-template-file"}, value : Word])
    /\ IsExtra(request.params.extra_args) /\ IsExtra(request.def.extra_args)
    /\ \A field \in {"n_gpu_layers", "n_cpu_moe"} : IsOption(request.def[field], Numbers)
    /\ IsOption(request.def.spec_type, Word)
    /\ request.def.contexts \in [DOMAIN request.def.contexts -> Numbers]

\* What a build lists it takes, and one without --load-mode the two old flags.
ASSUME BuildsAssumption ==
  \A b \in Builds :
    /\ \A option \in {"--load-mode", "--fit"} : ListsOption(b.help, option) => option \in b.accepts
    /\ ~ListsOption(b.help, "--load-mode") => {"--mlock", "--no-mmap"} \subseteq b.accepts

ASSUME AnswersAssumption ==
  \A answer \in Answers :
    /\ IsFiniteSet(answer.overrides)
    /\ ParseFitOutput(answer).error = "none" =>
         {ParseFitOutput(answer).gpu_layers, NCpuMoe(ParseFitOutput(answer))} \subseteq Numbers

-----------------------------------------------------------------------------

VARIABLES
  given,      \* the request
  build,      \* the build that would run
  pc,
  error,      \* why the launch failed, or "none"
  chosen,     \* what select_quant answered, or <<>>
  params,     \* the LaunchParams of the next vector
  argv,       \* the last vector built, or <<>>
  fit_args,   \* what the fitter was given, or <<>>
  placement,  \* what the fitter's answer was read as, or <<>>
  store       \* the last vector and its stored overrides, or <<>>
vars == <<given, build, pc, error, chosen, params, argv, fit_args, placement, store>>

Init ==
  /\ given \in Requests
  /\ build = given.build /\ params = given.params
  /\ pc = "select" /\ error = "none"
  /\ chosen = <<>> /\ argv = <<>> /\ fit_args = <<>> /\ placement = <<>> /\ store = <<>>

Fails(why) ==
  /\ pc' = "failed" /\ error' = why
  /\ UNCHANGED <<given, build, chosen, params, argv, fit_args, placement, store>>

SelectTheQuant ==
  /\ pc = "select"
  /\ \E answer \in {SelectQuant(QuantCandidates(given.listing), given.quant)} :
       IF answer.error # "none" THEN Fails(answer.error)
       ELSE /\ chosen' = answer.candidate /\ pc' = "validate"
            /\ UNCHANGED <<given, build, error, params, argv, fit_args, placement, store>>

Validate ==
  /\ pc = "validate"
  /\ IF ~ValidateModelDef(given.def) THEN Fails("InvalidDefinition")
     ELSE /\ pc' = "help"
          /\ UNCHANGED <<given, build, error, chosen, params, argv, fit_args, placement, store>>

\* The application reads the help of the build that will run, and takes from it
\* how load flags are spelled and whether the server may place the model.
ReadHelp ==
  /\ pc = "help"
  /\ \E capabilities \in {FromHelp(build.help)} :
       params' = [params EXCEPT !.load_flags = LoadFlagsOf(capabilities),
                                !.auto_fit = capabilities.fit]
  /\ pc' = "build"
  /\ UNCHANGED <<given, build, error, chosen, argv, fit_args, placement, store>>

Build(from, to) ==
  /\ pc = from
  /\ \E built \in {BuildArgs(given.def, given.context, given.mode, PATH, params)} :
       IF built.error # "none" THEN Fails(built.error)
       ELSE /\ argv' = built.argv /\ pc' = to
            /\ UNCHANGED <<given, build, error, chosen, params, fit_args, placement, store>>

AskFitter ==
  /\ pc = "built"
  /\ fit_args' = FitParamsArgs(argv, MARGIN) /\ pc' = "fitting"
  /\ UNCHANGED <<given, build, error, chosen, params, argv, placement, store>>

\* The application launches with the placement, or as it was without one.
FitterAnswers(answer) ==
  /\ pc = "fitting"
  /\ \E parsed \in {ParseFitOutput(answer)} :
       IF parsed.error # "none"
       THEN /\ pc' = "launched"
            /\ UNCHANGED <<params, placement>>
       ELSE /\ placement' = parsed /\ pc' = "place"
            /\ params' = [params EXCEPT !.n_gpu_layers = Some(parsed.gpu_layers),
                                        !.n_cpu_moe = Some(NCpuMoe(parsed))]
  /\ UNCHANGED <<given, build, error, chosen, argv, fit_args, store>>

\* The tuner stores the overrides of what ran.
Store ==
  /\ pc = "launched"
  /\ store' = [argv |-> argv,
               overrides |-> [field \in TUNABLE |->
                                IF field = "swa_full" THEN Some(params.swa_full) ELSE params[field]]]
  /\ pc' = "stored"
  /\ UNCHANGED <<given, build, error, chosen, params, argv, fit_args, placement>>

\* Another launch of the same model, on a build that may be another: what the
\* caller gives besides the tuned parameters is given again.
Replay ==
  /\ pc = "stored"
  /\ build' \in Builds
  /\ \E tuned \in {ToLaunchParams(store.overrides)} :
       params' = [field \in DOMAIN Defaults |->
                    CASE field = "load_flags" -> LoadFlagsOf(FromHelp(build'.help))
                      [] field \in TUNABLE \cup {"auto_fit", "fit_target_mib"} -> tuned[field]
                      [] OTHER -> given.params[field]]
  /\ pc' = "rebuild"
  /\ UNCHANGED <<given, error, chosen, argv, fit_args, placement, store>>

Next ==
  \/ SelectTheQuant \/ Validate \/ ReadHelp
  \/ Build("build", "built") \/ AskFitter
  \/ \E answer \in Answers : FitterAnswers(answer)
  \/ Build("place", "launched") \/ Store \/ Replay \/ Build("rebuild", "replayed")

Spec == Init /\ [][Next]_vars

-----------------------------------------------------------------------------
(* What a vector says. *)

\* The arguments that the model and the call add, and the part of a vector that
\* the launch writes itself, before them.
Extras == given.def.extra_args \o given.params.extra_args
Own(args) == SubSeq(args, 1, Len(args) - Len(Extras))
EndsInExtras(args) == args = Own(args) \o Extras

\* What follows a flag, each time that it occurs.
Values(args, flag) ==
  FlattenSeq([i \in DOMAIN args |-> IF i > 1 /\ args[i - 1] = flag THEN <<args[i]>> ELSE <<>>])

Has(args, flag) == flag \in ToSet(args)
LocksMemory(args) == Has(args, "--mlock") \/ \E m \in {"mlock", "mmap+mlock"} : m \in ToSet(Values(args, "--load-mode"))
MapsMemory(args) == ~Has(args, "--no-mmap") /\ \A m \in {"none", "mlock"} : m \notin ToSet(Values(args, "--load-mode"))

\* The vector without its load flags and the values of --load-mode.
WithoutLoadFlags(args) ==
  FlattenSeq([i \in DOMAIN args |->
    IF args[i] \in LOAD_FLAGS \/ (i > 1 /\ args[i - 1] = "--load-mode") THEN <<>> ELSE <<args[i]>>])

-----------------------------------------------------------------------------
(* Properties. *)

\* What was chosen can be loaded as it was published: it is one whole set of
\* shards of one name, none of an auxiliary model, and the first file stands for
\* exactly the files that were counted, in their order, if a name may stand for
\* that many.
SelectionIsLoadable ==
  chosen # <<>> =>
    LET files == chosen.files
        n == Len(files)
    IN /\ n > 0 /\ ToSet(files) \subseteq given.listing
       /\ \A i \in 1..n : /\ files[i].segments = files[1].segments
                          /\ files[i].segments[1] \notin AUXILIARY_PREFIXES
                          /\ files[i].shard = <<i, n>> \/ (n = 1 /\ files[i].shard = <<>>)
       /\ n <= MAX_SHARD_COUNT =>
            [i \in 1..n |-> [segments |-> files[i].segments, shard |-> files[i].shard]]
              = ShardFilesFromPrimary(files[1])

\* What was asked for is what is launched: the quant exactly when the listing has
\* it whole, an imatrix or plain build of it only when that is the only one, none
\* only when neither says which; and a context by its own name before any
\* other reading of it, said once before the extra arguments.
RequestIsHonoured ==
  /\ given.quant # <<>> /\ pc # "select" =>
       LET key == given.quant[1]
           twin == [key EXCEPT !.imatrix = ~key.imatrix]
       IN CASE CompleteBases(given.listing, key) # {} -> chosen.key = key
            [] CompleteBases(given.listing, key) = {} /\ CompleteBases(given.listing, twin) # {} ->
                 chosen.key = twin
            [] OTHER -> error \in {"Unknown", "NoneAvailable"}
  /\ argv # <<>> /\ ContextKey(given.context) \in DOMAIN given.def.contexts =>
       Values(Own(argv), "-c") = <<Decimal[given.def.contexts[ContextKey(given.context)]]>>

\* The build that would run takes what the launch writes: it knows the load
\* flags, the cache types as they are spelled and the speculation type; and this
\* asks for the memory mapping and locking that the call, or else the model,
\* asked for.
BuildAccepts ==
  pc \in {"built", "launched", "replayed"} =>
    LET own == Own(argv)
    IN /\ ToSet(own) \cap LOAD_FLAGS \subseteq build.accepts
       /\ ToSet(Values(own, "--cache-type-k") \o Values(own, "--cache-type-v"))
            \subseteq {"f16", "q8_0", "q4_0"} \cup (IF given.mode = "turboquant" THEN {"turbo3", "turbo4"} ELSE {})
       /\ given.mode = "turboquant" =>
            \A type \in ToSet(Values(own, "--spec-type")) : Lower(type) \notin {"draft-mtp", "mtp", "nextn"}
       /\ LocksMemory(own) <=> UnwrapOr(Or(given.params.mlock, given.def.mlock), FALSE)
       /\ MapsMemory(own) <=> ~UnwrapOr(Or(given.params.no_mmap, given.def.no_mmap), FALSE)

\* The model is placed by one party: a launch that leaves it to the server runs
\* a vector that names no placement at all, not even among extra arguments, and
\* only on a build that places models; one that places it does not ask the server.
PlacedByOneParty ==
  pc \in {"built", "launched", "replayed"} =>
    /\ ~Has(Own(argv), "-ngl") =>
         ToSet(argv) \cap (PLACEMENT_FLAGS \cup {"--cpu-moe", "-cmoe"}) = {} /\ "--fit" \in build.accepts
    /\ Has(Own(argv), "-ngl") => ~Has(Own(argv), "--fit-target")

\* A launch asks for one speculation engine, and passes a draft model only with
\* the type that uses it.
OneSpeculationEngine ==
  LET types == Values(Own(argv), "--spec-type")
  IN Len(types) <= 1 /\ (Has(Own(argv), "--spec-draft-model") => types = <<"draft-simple">>)

\* The fitter sees the launch that its answer is used for: every memory flag and
\* switch of it, with its value and as often, and no other flag; neither the
\* vector it was asked about nor the one it is launched with differs in them.
FitterSeesTheLaunch ==
  fit_args # <<>> /\ pc \in {"fitting", "place", "launched"} =>
    /\ \A flag \in MEMORY_FLAGS_WITH_VALUE : Values(fit_args, flag) = Values(argv, flag)
    /\ Only(fit_args, MEMORY_SWITCHES) = Only(argv, MEMORY_SWITCHES)
    /\ ToSet(fit_args) \cap Flags \subseteq MEMORY_FLAGS_WITH_VALUE \cup MEMORY_SWITCHES \cup {"--fit-target"}
    /\ Values(fit_args, "--fit-target") = <<MARGIN>>

\* A placement on some layers of the GPU is launched as it was answered, whatever
\* the call and the model say: also when it leaves no expert on the CPU. One on
\* every layer (-1) or on none (0) is launched with the model's own count, with
\* every layer or by the server: 0 is never kept. Nothing else in the vector
\* places the model, unless an extra argument, which comes later and wins, does.
PlacementIsKept ==
  pc = "launched" /\ placement # <<>> =>
    LET layers == placement.gpu_layers
        moe == NCpuMoe(placement)
        byHand == ToSet(Extras) \cap PLACEMENT_ARGS # {}
    IN \A line \in {Own(argv)} \cup (IF byHand THEN {} ELSE {argv}) :
         /\ layers > 0 => Values(line, "-ngl") = <<Decimal[layers]>>
         /\ layers <= 0 =>
              Values(line, "-ngl") \in {<<>>, <<Decimal[UnwrapOr(given.def.n_gpu_layers, 999)]>>}
         /\ Values(line, "--n-cpu-moe") = IF moe = 0 THEN <<>> ELSE <<Decimal[moe]>>
         /\ ToSet(line) \cap PLACEMENT_ARGS \subseteq {"-ngl", "--n-cpu-moe"}

\* The quant and the context that were asked for are launched, from files that
\* can be loaded.
LaunchIsTheRequest == SelectionIsLoadable /\ RequestIsHonoured

\* What the launch writes suits its build, one party places the model and one
\* engine speculates; the extra arguments stand last, as they were given, and
\* are all that may say otherwise.
VectorIsCoherent ==
  BuildAccepts /\ PlacedByOneParty /\ OneSpeculationEngine /\ (argv # <<>> => EndsInExtras(argv))

\* The fitter was asked about the launch, and what it answered is launched.
FitIsUsed == FitterSeesTheLaunch /\ PlacementIsKept

\* A replay runs what was measured, on any build: the same vector except for the
\* spelling of the load flags that the launch writes, and those mean the same. A
\* vector whose placement was left to the server is not among them: a replay
\* never leaves it.
ReplayIsFaithful ==
  pc = "replayed" /\ Has(Own(store.argv), "-ngl") =>
    LET own == Own(argv)
        measured == Own(store.argv)
    IN /\ WithoutLoadFlags(own) = WithoutLoadFlags(measured)
       /\ LocksMemory(own) <=> LocksMemory(measured)
       /\ MapsMemory(own) <=> MapsMemory(measured)
       /\ EndsInExtras(argv) /\ EndsInExtras(store.argv)
=============================================================================
