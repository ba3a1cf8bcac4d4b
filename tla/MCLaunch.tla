------------------------------ MODULE MCLaunch ------------------------------
\* Requests that differ from a plain one in one group of inputs at a time, every
\* combination within a group, on four builds of the server and with six answers
\* of the fitter.
EXTENDS Launch

MCTokens == {"f16", "iq4_xs", "q4_k_m", "q8_0"}
MCKeys ==
  LET key(imatrix, quant) == [imatrix |-> imatrix, quant |-> quant]
      rest == <<"iq4_xs", "q4_k_m", "q8_0">>
  IN <<key(FALSE, "f16"), key(TRUE, "f16")>> \o [i \in 1..3 |-> key(TRUE, rest[i])]
       \o [i \in 1..3 |-> key(FALSE, rest[i])]

\* The spellings that occur.
MCFlags == MEMORY_FLAGS_WITH_VALUE \cup MEMORY_SWITCHES \cup PLACEMENT_FLAGS \cup SERVER_FLAGS
MCNumbers == {-1, 0, 1, 2, 3, 10, 12, 20, 512, 999, 2048, 4096, 32768, 131072}
MCDecimal == [n \in MCNumbers |-> ToString(n)]
MCLower(s) ==
  CASE s = "Q8_0" -> "q8_0" [] s = "TURBO3" -> "turbo3" [] s = "MTP" -> "mtp"
    [] s = "Draft-Simple" -> "draft-simple" [] s = "NGRAM-MOD" -> "ngram-mod"
    [] s = "Qwen36" -> "qwen36" [] s = "Default" -> "default" [] s = "FAST" -> "fast"
    [] s = "32K" -> "32k" [] OTHER -> s

Build_(help, accepts) == [help |-> help, accepts |-> accepts]
Mainline == Build_({<<"-fit", "--fit", "text">>, <<"-lm", "--load-mode", "text">>, <<"text", "--mlock">>},
                   {"--fit", "--load-mode"})
Fork == Build_({<<"--mlock", "text">>, <<"--mmap", "--no-mmap", "text", "--load-mode">>},
               {"--mlock", "--no-mmap"})
Prism == Build_({<<"--mlock", "text">>, <<"--no-mmap", "text">>, <<"--load-mode", "text">>},
                {"--mlock", "--no-mmap", "--load-mode"})
Silent == Build_({}, {"--mlock", "--no-mmap"})
MCBuilds == {Mainline, Fork, Prism, Silent}

Answer(ran, log, ngl, overrides) == [ran |-> ran, log |-> log, ngl |-> ngl, overrides |-> overrides]
MCAnswers ==
  {Answer(FALSE, FALSE, <<>>, {}), Answer(TRUE, TRUE, <<>>, {}),
   Answer(TRUE, FALSE, <<-1>>, {}), Answer(TRUE, FALSE, <<12>>, {}),
   Answer(TRUE, FALSE, <<12>>, {<<14, "CPU", "gate">>, <<14, "CPU", "up">>, <<15, "CPU", "up">>, <<3, "CUDA1", "up">>}),
   Answer(TRUE, FALSE, <<0>>, {<<15, "CPU", "up">>})}

-----------------------------------------------------------------------------
File(segments, shard, size) == [segments |-> segments, shard |-> shard, size |-> size]
Whole(segments, size) == File(segments, <<>>, <<size>>)
Shards(segments, indexes, total) == {File(segments, <<i, total>>, <<5>>) : i \in indexes}
Q4 == <<"m", "q4_k_m">>
I4 == <<"m", "i1", "q4_k_m">>
Q8 == <<"m", "q8_0">>
Listings ==
  {{}, {Whole(Q4, 4)}, {Whole(Q8, 8), Whole(<<"m", "iq4_xs">>, 3), Whole(<<"m", "f16">>, 16)},
   {File(Q8, <<>>, <<>>), Whole(<<"m", "iq4_xs">>, 3), Whole(I4, 4), Whole(Q4, 4)},
   {File(Q8, <<>>, <<>>), Whole(<<"m", "iq4_xs">>, 3)},
   {Whole(I4, 4), Whole(Q8, 8)}, {Whole(<<"m", "imat", "q8_0">>, 8), Whole(Q8, 7), Whole(Q4, 4)},
   Shards(Q4, 1..3, 3) \cup {Whole(Q8, 8)}, Shards(Q4, {1, 3}, 3) \cup {Whole(Q8, 8)},
   Shards(Q4, {1}, 2) \cup Shards(Q4, {2}, 3), Shards(Q4, {1}, 1),
   Shards(Q4, 1..2, 2) \cup Shards(I4, {2}, 2),
   Shards(Append(Q4, "mtp"), 1..2, 2) \cup Shards(Q4, {1}, 2),
   {Whole(Append(Q4, "mtp"), 5), Whole(Q4, 4)}, {Whole(<<"mtp", "m", "q4_k_m">>, 1), Whole(<<"mmproj", "f16">>, 1)},
   {Whole(<<"mtp", "m", "q4_k_m">>, 1), Whole(I4, 4), Whole(<<"f16", "m", "q8_0">>, 8)}}
Key(imatrix, quant) == [imatrix |-> imatrix, quant |-> quant]
QuantRequests == {<<>>} \cup {<<Key(i, q)>> : i \in BOOLEAN, q \in {"q4_k_m", "q8_0", "f16"}}

-----------------------------------------------------------------------------
Def == [repo |-> "owner/m", quants |-> {"q4_k_m", "Q8_0"}, quant |-> None,
        contexts |-> ("" :> 4096), parser |-> Some("qwen36"), strict |-> None,
        kv_cache_k |-> None, kv_cache_v |-> None, n_gpu_layers |-> None, n_cpu_moe |-> None,
        mlock |-> None, no_mmap |-> None, flash_attn |-> None, thinking_policy |-> None,
        spec_type |-> None, extra_args |-> <<>>]
Plain == [listing |-> {Whole(Q4, 4)}, quant |-> <<>>, def |-> Def, context |-> "", mode |-> "native",
          params |-> [Defaults EXCEPT !.fit_target_mib = Some(512)], build |-> Mainline]

Quants == {[Plain EXCEPT !.listing = l, !.quant = q] : l \in Listings, q \in QuantRequests}

Types == {None, Some(" "), Some("Q8_0"), Some("TURBO3"), Some("turbo9")}
Caches ==
  {[Plain EXCEPT !.mode = mode, !.params.kv_k = k, !.params.kv_v = v, !.def.kv_cache_k = dk, !.def.kv_cache_v = dv] :
     mode \in {"native", "turboquant"}, k \in Types, v \in Types,
     dk \in {None, Some("f16"), Some("TURBO3")}, dv \in {None, Some("turbo3")}}

Speculations ==
  {[Plain EXCEPT !.mode = mode, !.params.spec_type = spec, !.def.spec_type = dspec,
                 !.params.draft_module_path = draft, !.params.spec_draft_n_max = n,
                 !.params.extra_args = extra] :
     mode \in {"native", "turboquant"}, spec \in {None, Some(""), Some("MTP"), Some("NGRAM-MOD"), Some("Draft-Simple")},
     dspec \in {None, Some("draft-mtp")}, draft \in {None, Some(" "), Some("draft.gguf")}, n \in {None, Some(0), Some(3)},
     extra \in {<<>>, <<"--spec-type", "MTP", "--cache-type-k", "turbo4">>}}

Tensors == <<"-ot", "exps=CPU">>
Placements ==
  {[Plain EXCEPT !.params.n_gpu_layers = ngl, !.def.n_gpu_layers = dngl, !.params.n_cpu_moe = moe, !.def.n_cpu_moe = dmoe,
                 !.params.extra_args = extra, !.def.extra_args = dextra, !.build = build_] :
     ngl \in {None, Some(0), Some(10)}, dngl \in {None, Some(20)}, moe \in {None, Some(0), Some(2)}, dmoe \in {None, Some(3)},
     extra \in {<<>>, Tensors, <<"-ngl", "5", "--n-cpu-moe", "1", "--fit-target", "64">>}, dextra \in {<<>>, <<"-cmoe">>}, build_ \in {Mainline, Fork}}

Choice == {None, Some(TRUE), Some(FALSE)}
Loads ==
  {[Plain EXCEPT !.params.mlock = lock, !.def.mlock = dlock, !.params.no_mmap = map, !.def.no_mmap = dmap, !.build = build_,
                 !.def.extra_args = dextra] :
     lock \in Choice, dlock \in {None, Some(TRUE)}, map \in Choice, dmap \in {None, Some(TRUE)}, build_ \in MCBuilds,
     dextra \in {<<>>, <<"--mlock", "--load-mode", "none">>}}

Named == ("" :> 4096) @@ ("32k" :> 32768) @@ ("fast" :> 2048) @@ ("128k" :> 131072)
Definitions ==
  {[Plain EXCEPT !.context = key, !.def.contexts = contexts, !.def.parser = parser] :
     key \in {"", " ", "Default", "32K", "32k", "fast", "FAST", "128", "deep"},
     contexts \in {Named, ("" :> 4096) @@ ("32k" :> 32768), ("" :> 0), ("32k" :> 32768)},
     parser \in {None, Some("none"), Some("qwen36-think"), Some("Qwen36"), Some("other")}}
  \cup {[Plain EXCEPT !.def.repo = " "], [Plain EXCEPT !.def.quant = Some("Q8_0")], [Plain EXCEPT !.def.quant = Some("f16")]}

Shapes ==
  {[Plain EXCEPT !.params.swa_full = swa, !.params.cache_prompt = cache, !.params.split_mode = split,
                 !.params.ubatch_size = ub, !.params.flash_attn = fa, !.def.flash_attn = Some(TRUE),
                 !.params.parallel = Some(2), !.params.extra_args = extra] :
     swa \in BOOLEAN, cache \in {None, Some(TRUE)}, split \in {None, Some("row")}, ub \in {Some(-1), Some(512)}, fa \in Choice,
     extra \in {<<>>, <<"--reasoning-budget", "-1", "--swa-full">>, <<"--jinja", "--main-gpu", "-1">>, <<"-ncmoe", "4", "-c", "8192">>}}

Templates ==
  {[Plain EXCEPT !.params.chat_template_override = over, !.params.vision_module_path = vision, !.params.strict = strict,
                 !.def.strict = Some(TRUE), !.params.thinking_policy = policy, !.def.thinking_policy = Some("keep")] :
     over \in {None, Some([flag |-> "--chat-template", value |-> "inline"]),
               Some([flag |-> "--chat-template-file", value |-> "chat.jinja"])},
     vision \in {None, Some(" "), Some("proj.gguf")},
     strict \in Choice, policy \in {None, Some("strip")}}

MCRequests == Quants \cup Caches \cup Speculations \cup Placements \cup Loads \cup Definitions \cup Shapes \cup Templates
=============================================================================
