------------------------------ MODULE LaunchArgs -----------------------------
(***************************************************************************)
(* From a catalog definition and per-call parameters to the arguments of   *)
(* llama-server (localx-llama-core, model.rs, args.rs and tuner.rs).       *)
(*                                                                         *)
(* Arguments are tokens. An option that is absent is <<>> and one that is  *)
(* present <<v>>, as Option in the code. Spellings that differ in case are *)
(* told apart, because some comparisons of the code ignore case.           *)
(***************************************************************************)
EXTENDS Integers, Sequences, SequencesExt

CONSTANTS
  Numbers,  \* the numbers that are written
  Decimal,  \* how each of them is written
  Lower(_)  \* to_ascii_lowercase

None == <<>>
Some(v) == <<v>>
Or(o, other) == IF o = None THEN other ELSE o
UnwrapOr(o, default) == IF o = None THEN default ELSE o[1]
Positive(o) == IF o # None /\ o[1] > 0 THEN o ELSE None

Blank == {"", " "}
NonBlank(o) == IF o # None /\ o[1] \in Blank THEN None ELSE o

Ok(argv) == [error |-> "none", argv |-> argv]
Failed(error) == [error |-> error, argv |-> <<>>]

\* An option with a value, emitted when there is one.
Opt(flag, o) == IF o = None THEN <<>> ELSE <<flag, o[1]>>
Num(flag, o) == IF o = None THEN <<>> ELSE <<flag, Decimal[o[1]]>>
Switch(flag, on) == IF on THEN <<flag>> ELSE <<>>

-----------------------------------------------------------------------------
(* Model definitions. *)

KNOWN_PARSERS == {"none", "qwen3coder", "qwen36", "qwen36-think"}

ContextKey(key) == IF key \in Blank \/ Lower(key) = "default" THEN "" ELSE key
AliasOf(key) == CASE Lower(key) = "fast" -> "32k" [] Lower(key) = "deep" -> "64k"
                  [] Lower(key) = "128" -> "128k" [] OTHER -> key

\* The keys a request may stand for, in the order they are tried; of several
\* that differ only in case the code takes the first of the map.
ResolveContextKey(def, requested) ==
  LET key == ContextKey(requested)
      alike == {k \in DOMAIN def.contexts : Lower(k) = Lower(key)}
  IN CASE key \in DOMAIN def.contexts -> {key}
       [] key \notin DOMAIN def.contexts /\ alike # {} -> {CHOOSE k \in alike : TRUE}
       [] OTHER -> {AliasOf(key)} \cap DOMAIN def.contexts

ValidateModelDef(def) ==
  /\ def.repo \notin Blank
  /\ def.quant # None => \E k \in def.quants : Lower(k) = Lower(def.quant[1])
  /\ def.parser # None => \E p \in KNOWN_PARSERS : Lower(p) = Lower(def.parser[1])
  /\ \A k \in DOMAIN def.contexts : def.contexts[k] > 0

-----------------------------------------------------------------------------
(* What a mode can do. *)

MAINLINE_KV_TYPES == {"f16", "q8_0", "q4_0"}
TURBO_KV_TYPES == {"turbo3", "turbo4"}
MTP_SPEC_TYPES == {"draft-mtp", "mtp", "nextn"}

ValidateKvType(type, mode) ==
  CASE Lower(type) \in MAINLINE_KV_TYPES -> "none"
    [] Lower(type) \in TURBO_KV_TYPES -> IF mode = "turboquant" THEN "none" ELSE "KvTypeNeedsFork"
    [] OTHER -> "UnknownKvType"

ValidateSpecType(spec, mode) ==
  IF spec \notin Blank /\ mode = "turboquant" /\ Lower(spec) \in MTP_SPEC_TYPES
  THEN "SpecTypeUnsupported" ELSE "none"

IsNgramSpec(spec) == Lower(spec) \in {"ngram-mod", "ngram-simple"}

\* Explicit, then the model's, then q8_0; values follow keys.
ResolveKvTypes(def, kvK, kvV) ==
  LET k == UnwrapOr(Or(NonBlank(kvK), NonBlank(def.kv_cache_k)), "q8_0")
  IN [k |-> k, v |-> UnwrapOr(Or(NonBlank(kvV), NonBlank(def.kv_cache_v)), k)]

-----------------------------------------------------------------------------
(* The parts of the argument vector. *)

ChatTemplateArgs(parser, over) ==
  CASE over # None -> <<over[1].flag, over[1].value>>
    [] over = None /\ parser \in KNOWN_PARSERS \ {"none"} -> <<"--jinja">>
    [] OTHER -> <<>>

ReasoningArgs(policy) ==
  IF policy = "keep"
  THEN <<"--reasoning", "on", "--reasoning-format", "deepseek">>
  ELSE <<"--reasoning", "off", "--reasoning-budget", "0", "--reasoning-format", "none">>

\* Of the lines of a parser family only the sampler parameters become options;
\* one of them stands for all.
ParserKnown(parser) == parser \in KNOWN_PARSERS
SamplerArgs(parser, strict) ==
  (CASE parser = "none" -> <<>>
     [] parser = "qwen36-think" -> <<"--temp", "0.6">>
     [] OTHER -> <<"--temp", "0.7">>)
    \o (IF strict THEN <<"--temp", "0.2">> ELSE <<>>)

LoadArgs(mlock, noMmap, flags) ==
  CASE flags = "Legacy" -> Switch("--mlock", mlock) \o Switch("--no-mmap", noMmap)
    [] flags = "LoadMode" /\ noMmap -> <<"--load-mode", IF mlock THEN "mlock" ELSE "none">>
    [] flags = "LoadMode" /\ ~noMmap -> IF mlock THEN <<"--load-mode", "mmap+mlock">> ELSE <<>>

PLACEMENT_ARGS ==
  {"-ngl", "--gpu-layers", "--n-gpu-layers", "-ncmoe", "--n-cpu-moe", "-ot",
   "--override-tensor", "--cpu-moe", "-cmoe"}

\* Mutant of Placement: only the model's own extra arguments are looked at.
PlacementByCatalog(def, p) ==
  LET ngl == Or(Positive(p.n_gpu_layers), def.n_gpu_layers)
      ncmoe == UnwrapOr(Or(p.n_cpu_moe, def.n_cpu_moe), 0)
      byHand == PLACEMENT_ARGS \cap ToSet(def.extra_args) # {}
  IN (IF p.auto_fit /\ ngl = None /\ ncmoe <= 0 /\ ~byHand
      THEN Num("--fit-target", p.fit_target_mib) ELSE <<"-ngl", Decimal[UnwrapOr(ngl, 999)]>>)
       \o Num("--n-cpu-moe", Positive(Some(ncmoe)))

\* Layers for the GPU: the call's when positive, the model's, all of them;
\* unless nothing chose a placement and the server is left to.
Placement(def, p) ==
  LET ngl == Or(Positive(p.n_gpu_layers), def.n_gpu_layers)
      ncmoe == UnwrapOr(Or(p.n_cpu_moe, def.n_cpu_moe), 0)
      byHand == PLACEMENT_ARGS \cap ToSet(def.extra_args \o p.extra_args) # {}
  IN (IF p.auto_fit /\ ngl = None /\ ncmoe <= 0 /\ ~byHand
      THEN Num("--fit-target", p.fit_target_mib) ELSE <<"-ngl", Decimal[UnwrapOr(ngl, 999)]>>)
       \o Num("--n-cpu-moe", Positive(Some(ncmoe)))

\* One speculation engine per launch: a draft model runs as draft-simple and
\* conflicts with any other type; a type runs by its draft length, or, drafting
\* from n-grams, without one.
Speculation(def, p, mode) ==
  LET spec == NonBlank(Or(p.spec_type, def.spec_type))
      draft == NonBlank(p.draft_module_path)
      nMax == Positive(p.spec_draft_n_max)
  IN CASE draft # None /\ spec # None /\ Lower(spec[1]) # "draft-simple" ->
            Failed("SpecTypeConflictsWithDraft")
       [] draft # None /\ (spec = None \/ Lower(spec[1]) = "draft-simple") ->
            Ok(<<"--spec-type", "draft-simple", "--spec-draft-model", draft[1]>>
                 \o Num("--spec-draft-n-max", nMax))
       [] draft = None /\ spec # None /\ nMax # None ->
            IF ValidateSpecType(spec[1], mode) # "none" THEN Failed(ValidateSpecType(spec[1], mode))
            ELSE Ok(<<"--spec-type", spec[1]>> \o Num("--spec-draft-n-max", nMax))
       [] OTHER -> Ok(IF spec # None /\ IsNgramSpec(spec[1]) THEN <<"--spec-type", spec[1]>> ELSE <<>>)

-----------------------------------------------------------------------------
(* The whole vector, or the first error in the order of the code. *)

ServerArgs(path, context, p) ==
  <<"-m", path>> \o Num("-c", Positive(Some(context)))
    \o <<"--host", "127.0.0.1", "--port", "8080">>
    \o Num("--parallel", Positive(p.parallel)) \o Num("--cache-reuse", Positive(p.cache_reuse))

BatchArgs(p) ==
  Num("--ubatch-size", Positive(p.ubatch_size)) \o Num("--batch-size", Positive(p.batch_size))
    \o Num("--threads", Positive(p.threads)) \o Num("--threads-batch", Positive(p.threads_batch))

AttentionArgs(def, p) ==
  LET fa == Or(p.flash_attn, def.flash_attn)
  IN (IF fa = None THEN <<>> ELSE <<"--flash-attn", IF fa[1] THEN "on" ELSE "off">>)
       \o Switch("--swa-full", p.swa_full) \o Switch("--cache-prompt", p.cache_prompt = Some(TRUE))
       \o Opt("--split-mode", NonBlank(p.split_mode))

CacheArgs(kv) == <<"--cache-type-k", Lower(kv.k), "--cache-type-v", Lower(kv.v)>>

PromptArgs(def, p) ==
  LET parser == UnwrapOr(def.parser, "none")
  IN ChatTemplateArgs(parser, p.chat_template_override)
       \o Opt("--mmproj", NonBlank(p.vision_module_path))
       \o ReasoningArgs(UnwrapOr(Or(p.thinking_policy, def.thinking_policy), "strip"))
       \o SamplerArgs(parser, UnwrapOr(Or(p.strict, def.strict), FALSE))

Vector(def, context, mode, path, p) ==
  ServerArgs(path, context, p) \o Placement(def, p)
    \o LoadArgs(UnwrapOr(Or(p.mlock, def.mlock), FALSE),
                UnwrapOr(Or(p.no_mmap, def.no_mmap), FALSE), p.load_flags)
    \o BatchArgs(p) \o AttentionArgs(def, p) \o CacheArgs(ResolveKvTypes(def, p.kv_k, p.kv_v))
    \o PromptArgs(def, p) \o Speculation(def, p, mode).argv \o def.extra_args \o p.extra_args

BuildArgs(def, contextKey, mode, path, p) ==
  LET keys == ResolveContextKey(def, contextKey)
      kv == ResolveKvTypes(def, p.kv_k, p.kv_v)
      refused == {t \in {kv.k, kv.v} : ValidateKvType(t, mode) # "none"}
      parserKnown == ParserKnown(UnwrapOr(def.parser, "none"))
      speculation == Speculation(def, p, mode)
  IN CASE keys = {} -> Failed("UnknownContext")
       [] keys # {} /\ refused # {} ->
            Failed(ValidateKvType(IF kv.k \in refused THEN kv.k ELSE kv.v, mode))
       [] keys # {} /\ refused = {} /\ ~parserKnown -> Failed("UnknownParser")
       [] keys # {} /\ refused = {} /\ parserKnown /\ speculation.error # "none" -> speculation
       [] OTHER -> Ok(Vector(def, def.contexts[CHOOSE k \in keys : TRUE], mode, path, p))

-----------------------------------------------------------------------------
(* Stored tunings: the overrides a tuner keeps, and their replay. *)

TUNABLE == {"cache_reuse", "kv_k", "kv_v", "n_gpu_layers", "n_cpu_moe", "mlock", "no_mmap",
            "ubatch_size", "batch_size", "threads", "threads_batch", "flash_attn", "swa_full",
            "cache_prompt", "split_mode", "spec_type", "spec_draft_n_max"}

Defaults ==
  [parallel |-> None, cache_reuse |-> None, kv_k |-> None, kv_v |-> None, n_gpu_layers |-> None,
   n_cpu_moe |-> None, mlock |-> None, no_mmap |-> None, load_flags |-> "Legacy", auto_fit |-> FALSE,
   fit_target_mib |-> None, ubatch_size |-> None, batch_size |-> None, threads |-> None, threads_batch |-> None,
   flash_attn |-> None, swa_full |-> FALSE, cache_prompt |-> None, split_mode |-> None,
   chat_template_override |-> None, thinking_policy |-> None, strict |-> None,
   vision_module_path |-> None, draft_module_path |-> None, spec_type |-> None,
   spec_draft_n_max |-> None, extra_args |-> <<>>]

\* Mutant of ToLaunchParams: the type of the value cache is left out.
ToLaunchParamsKeysOnly(overrides) ==
  [field \in DOMAIN Defaults |->
     CASE field = "swa_full" -> UnwrapOr(overrides.swa_full, FALSE)
       [] field \in TUNABLE \ {"swa_full", "kv_v"} -> overrides[field]
       [] OTHER -> Defaults[field]]

ToLaunchParams(overrides) ==
  [field \in DOMAIN Defaults |->
     CASE field = "swa_full" -> UnwrapOr(overrides.swa_full, FALSE)
       [] field \in TUNABLE \ {"swa_full"} -> overrides[field]
       [] OTHER -> Defaults[field]]
=============================================================================
