------------------------------- MODULE Judging -------------------------------
(***************************************************************************)
(* The judge (localx-eval-core, judge.rs): what a host may conclude from   *)
(* the replies of a judge model, all of them read from a cache that is     *)
(* keyed by the prompt alone and shared by every question that makes the   *)
(* same prompt: single scores, behind the ranking self-test, preferences   *)
(* between blinded solutions, and the agreement with a human.              *)
(*                                                                         *)
(* The environment is the host, which asks the judge again whenever it     *)
(* likes, and the judge, which means something by each reply and writes it *)
(* well or badly.  An Option is a set of at most one element.  The digest  *)
(* of a prompt stands for the prompt.                                      *)
(***************************************************************************)
EXTENDS Integers, Sequences, SequencesExt

CONSTANTS
  RANKING_FIXTURES, \* set of [better, worse], pairs of diffs
  Inputs,           \* the JudgeInputs the host scores: [diff, trajectory]
  Solutions,        \* the solutions it compares
  Seeds,            \* the seeds it blinds them with
  OddSeeds,         \* those whose hash is odd
  Json,             \* the bodies that are JSON objects, each with its value: a
                    \* function from keys to numbers
  Scorings,         \* [raw, means]: replies to a scoring prompt and what the judge
                    \* meant, the scores or nothing that can be used
  Preferences,      \* [raw, means]: replies to a preference prompt
  HumanLabel        \* what a human gave each diff, 1..5

ASSUME JudgingAssumption ==
  /\ OddSeeds \subseteq Seeds
  /\ IsFiniteSet(RANKING_FIXTURES) /\ IsFiniteSet(DOMAIN HumanLabel)

VARIABLES
  cache,     \* JudgeCache.entries: prompt -> the raw reply
  meant,     \* history: prompt -> what the judge meant by its last reply
  favourite  \* the solution the judge thinks better, wherever it is presented

judgeVars == <<cache, meant, favourite>>

Dimensions == {"readability", "idiomaticity", "abstraction_fit", "bug_resistance"}

-----------------------------------------------------------------------------
(* Prompts. *)

\* judge_prompt: the solution and how it came about, and nothing of its arm.
JudgePrompt(input) == [solution |-> input.diff, produced |-> input.trajectory]

NoTrajectory(diff) == [diff |-> diff, trajectory |-> "none"]

\* Mutant of Blind: the seed swaps the flag and not the solutions.
BlindHalf(a, b, seed) == [solution_1 |-> a, solution_2 |-> b, swapped |-> seed \in OddSeeds]

\* blind
Blind(a, b, seed) ==
  LET swapped == seed \in OddSeeds
  IN  [solution_1 |-> IF swapped THEN b ELSE a,
       solution_2 |-> IF swapped THEN a ELSE b,
       swapped |-> swapped]

\* preference_prompt: what is presented, in the order it is presented.
PreferencePrompt(pair) == [solution_1 |-> pair.solution_1, solution_2 |-> pair.solution_2]

-----------------------------------------------------------------------------
(* Replies: sequences of braces and of what stands between them. *)

Depth(raw, i, n) ==
  Cardinality({k \in i..n : raw[k] = "{"}) - Cardinality({k \in i..n : raw[k] = "}"})

\* first_json_object: from the first brace to the one that balances it.
FirstJsonObject(raw) ==
  LET opening == {i \in DOMAIN raw : raw[i] = "{"}
      closing == {n \in DOMAIN raw : n > Min(opening) /\ Depth(raw, Min(opening), n) = 0}
  IN  IF opening = {} \/ closing = {} THEN {}
      ELSE LET body == SubSeq(raw, Min(opening), Min(closing))
           IN  IF body \in DOMAIN Json THEN {Json[body]} ELSE {}

Total(scores) == scores.readability + scores.idiomaticity + scores.abstraction_fit
                   + scores.bug_resistance

\* JudgeBlock::from_dimensions; overall is kept as four times the mean.
FromDimensions(scores) == [scores |-> scores, overall |-> Total(scores), blinded |-> TRUE]

\* parse_judge_block: all four dimensions, each in 1..5.
ParseJudgeBlock(raw) ==
  {FromDimensions([d \in Dimensions |-> value[d]]) :
     value \in {v \in FirstJsonObject(raw) : \A d \in Dimensions : d \in DOMAIN v /\ v[d] \in 1..5}}

\* parse_preference
ParsePreference(raw) ==
  {value.preferred :
     value \in {v \in FirstJsonObject(raw) : "preferred" \in DOMAIN v /\ v.preferred \in {1, 2}}}

\* resolve_preference
ResolvePreference(pair, presented) ==
  CASE presented = 1 /\ ~pair.swapped -> {"First"}
    [] presented = 1 /\ pair.swapped -> {"Second"}
    [] presented = 2 /\ ~pair.swapped -> {"Second"}
    [] presented = 2 /\ pair.swapped -> {"First"}
    [] OTHER -> {}

-----------------------------------------------------------------------------
(* The judge behind its cache. *)

\* JudgeCache::get
Get(prompt) == IF prompt \in DOMAIN cache THEN {cache[prompt]} ELSE {}

\* Judge::score_offline
ScoreOffline(input) == UNION {ParseJudgeBlock(raw) : raw \in Get(JudgePrompt(input))}

\* Mutant of RankingVerdict: a tie is taken for a ranking.
RankingVerdictLax ==
  \A fx \in RANKING_FIXTURES :
    \E b \in ScoreOffline(NoTrajectory(fx.better)), w \in ScoreOffline(NoTrajectory(fx.worse)) :
      b.overall >= w.overall

\* ranking_verdict: every better scored strictly above its worse; a miss fails.
RankingVerdict ==
  \A fx \in RANKING_FIXTURES :
    \E b \in ScoreOffline(NoTrajectory(fx.better)), w \in ScoreOffline(NoTrajectory(fx.worse)) :
      b.overall > w.overall

\* Judge::score_offline_gated; refused is Err(Untrustworthy).
ScoreOfflineGated(input) ==
  IF RankingVerdict THEN [refused |-> FALSE, block |-> ScoreOffline(input)]
                    ELSE [refused |-> TRUE, block |-> {}]

-----------------------------------------------------------------------------
(* cohens_kappa, as a fraction. *)

Count(labels, n, k) == Cardinality({i \in 1..n : labels[i] = k})

\* Mutant of CohensKappa: agreement is not corrected for chance.
PlainAgreement(a, b) ==
  LET n == Min({Len(a), Len(b)})
  IN  [num |-> Cardinality({i \in 1..n : a[i] = b[i]}), den |-> IF n = 0 THEN 1 ELSE n]

\* The sum of the numbers f gives the members of a set.
SumOver(S, f) ==
  LET sum[T \in SUBSET S] ==
        IF T = {} THEN 0 ELSE LET k == CHOOSE k \in T : TRUE IN f[k] + sum[T \ {k}]
  IN  sum[S]

\* (po - pe) / (1 - pe), both sides times n * n; 1 for an empty sample and for
\* a single category.
CohensKappa(a, b) ==
  LET n == Min({Len(a), Len(b)})
      agree == Cardinality({i \in 1..n : a[i] = b[i]})
      categories == {a[i] : i \in 1..n} \cup {b[i] : i \in 1..n}
      expected == SumOver(categories, [k \in categories |-> Count(a, n, k) * Count(b, n, k)])
  IN  IF n = 0 \/ expected = n * n THEN [num |-> 1, den |-> 1]
      ELSE [num |-> n * agree - expected, den |-> n * n - expected]

\* A calibration: the diffs a human labelled and the judge has scored, in any order.
Labelled == {diff \in DOMAIN HumanLabel : ScoreOffline(NoTrajectory(diff)) # {}}
JudgeLabel(diff) == (CHOOSE b \in ScoreOffline(NoTrajectory(diff)) : TRUE).scores.readability

-----------------------------------------------------------------------------
AllInputs == Inputs \cup UNION {{NoTrajectory(fx.better), NoTrajectory(fx.worse)} : fx \in RANKING_FIXTURES}
Pairs == {Blind(ab[1], ab[2], seed) : ab \in {x \in Solutions \X Solutions : x[1] # x[2]}, seed \in Seeds}

JudgingInit ==
  /\ cache = <<>>
  /\ meant = <<>>
  /\ favourite \in Solutions

\* JudgeCache::insert: the last reply to a prompt replaces the one before.
Insert(prompt, reply) ==
  /\ cache' = [p \in DOMAIN cache \cup {prompt} |-> IF p = prompt THEN reply.raw ELSE cache[p]]
  /\ meant' = [p \in DOMAIN meant \cup {prompt} |-> IF p = prompt THEN reply.means ELSE meant[p]]
  /\ UNCHANGED favourite

\* The host has the judge score a solution, for the first time or again.
AskScore(input) == \E reply \in Scorings : Insert(JudgePrompt(input), reply)

\* The host has the judge compare two solutions: it names the place where its
\* favourite stands, or nothing that can be used.
AskPreference(pair) ==
  \E reply \in Preferences :
    /\ \A place \in reply.means :
         favourite = IF place = 1 THEN pair.solution_1 ELSE pair.solution_2
    /\ Insert(PreferencePrompt(pair), reply)

JudgingNext ==
  \/ \E input \in AllInputs : AskScore(input)
  \/ \E pair \in Pairs : AskPreference(pair)

JudgingSpec == JudgingInit /\ [][JudgingNext]_judgeVars

-----------------------------------------------------------------------------
Meant(input) == IF JudgePrompt(input) \in DOMAIN meant THEN meant[JudgePrompt(input)] ELSE {}

\* "Prove the instrument before spending on it".  A number is given only of a
\* judge that, by what it last meant, puts every better fixture strictly above
\* its worse one; the number is what it last meant by that very input, however
\* the reply was worded; and such a judge is never refused.
GatedScoreIsEarned ==
  LET Ranks ==
        \A fx \in RANKING_FIXTURES :
          \E b \in Meant(NoTrajectory(fx.better)), w \in Meant(NoTrajectory(fx.worse)) :
            Total(b) > Total(w)
  IN  \A input \in AllInputs :
        LET answer == ScoreOfflineGated(input)
        IN  /\ answer.refused <=> ~Ranks
            /\ {block.scores : block \in answer.block} = IF Ranks THEN Meant(input) ELSE {}

\* Whatever the seed, the order of the arguments and the question the reply was
\* cached for, the arm a preference resolves to is the one whose solution the
\* judge prefers; and a reply that was meant resolves to an arm.
VerdictIsOfContent ==
  \A a \in Solutions, b \in Solutions, seed \in Seeds :
    LET pair == Blind(a, b, seed)
        prompt == PreferencePrompt(pair)
        verdicts == UNION {ResolvePreference(pair, place) :
                             place \in UNION {ParsePreference(raw) : raw \in Get(prompt)}}
    IN  /\ \A verdict \in verdicts : favourite = IF verdict = "First" THEN a ELSE b
        /\ prompt \in DOMAIN meant /\ meant[prompt] # {} => verdicts # {}

\* Kappa is agreement beyond chance: with chance taken as how often two items
\* drawn independently would agree, it is 1 for raters who always agree, the
\* same whichever rater comes first, and otherwise the share of the possible
\* improvement over chance that they achieve.
KappaIsChanceCorrected ==
  \A order \in {SetToSeq(Labelled)} :
    LET n == Len(order)
        a == [i \in 1..n |-> HumanLabel[order[i]]]
        b == [i \in 1..n |-> JudgeLabel(order[i])]
        kappa == CohensKappa(a, b)
        \* of all n * n pairs of an item and another, those that agree
        chance == Cardinality({p \in (1..n) \X (1..n) : a[p[1]] = b[p[2]]})
        agree == Cardinality({i \in 1..n : a[i] = b[i]})
    IN  /\ kappa.den > 0
        /\ kappa = CohensKappa(b, a)
        /\ agree = n <=> kappa.num = kappa.den
        /\ agree < n => kappa.num * (n * n - chance) = (n * agree - chance) * kappa.den
=============================================================================
