------------------------------- MODULE Scoring -------------------------------
(***************************************************************************)
(* What a benchmark concludes from one run of a task (localx-eval-core):   *)
(* which command verifies a workspace (verify.rs), whether its output is a *)
(* solved task (grade.rs), what the checks say of the change and how runs  *)
(* compare (scorecard.rs, ablation.rs).  Pure functions of what the host   *)
(* hands over; the run itself is Evaluation.                               *)
(*                                                                         *)
(* An Option is a set of at most one element.  Scores are fractions: the   *)
(* rounding of the program's floating point is left out.                   *)
(***************************************************************************)
EXTENDS Integers, Sequences, SequencesExt

CONSTANT Words   \* check name -> the conventional words it contains

-----------------------------------------------------------------------------
(* verify.rs: a workspace is the set of the markers in its root. *)

\* The stacks in priority order: any of the markers, and the command.
Stacks ==
  <<[markers |-> {"Cargo.toml"}, command |-> "cargo test"],
    [markers |-> {"go.mod"}, command |-> "go test"],
    [markers |-> {"pom.xml"}, command |-> "mvn -q test"],
    [markers |-> {"build.gradle", "build.gradle.kts"}, command |-> "gradle test"],
    [markers |-> {"package.json"}, command |-> "npm test"],
    [markers |-> {"pyproject.toml", "test_x.py"}, command |-> "pytest"],
    [markers |-> {"Makefile", "makefile"}, command |-> "make"],
    [markers |-> {"x.cpp"}, command |-> "g++"]>>

\* detect_verify_command: the first stack that matches.
DetectVerifyCommand(root) ==
  LET found == {i \in DOMAIN Stacks : Stacks[i].markers \cap root # {}}
  IN  IF found = {} THEN {} ELSE {Stacks[Min(found)].command}

\* resolve_verify_command: a blank override is none.
ResolveVerifyCommand(root, override_cmd) ==
  IF override_cmd \subseteq {"blank"} THEN DetectVerifyCommand(root) ELSE override_cmd

-----------------------------------------------------------------------------
(* grade.rs: an output is a sequence of lines [kind, passed, failed]. *)

Line(kind, passed, failed) == [kind |-> kind, passed |-> passed, failed |-> failed]
Ran(line) == line.passed + line.failed
Lines(kind, output) == {i \in DOMAIN output : output[i].kind = kind}

\* The sum of a sequence of numbers.
Summed(counts) ==
  LET sum[n \in 0..Len(counts)] == IF n = 0 THEN 0 ELSE sum[n - 1] + counts[n]
  IN  sum[Len(counts)]
SumRan(kind, output) ==
  Summed([i \in DOMAIN output |-> IF output[i].kind = kind THEN Ran(output[i]) ELSE 0])

\* first_capture
FirstCapture(kind, output) ==
  IF Lines(kind, output) = {} THEN {} ELSE {Ran(output[Min(Lines(kind, output))])}
OrZero(option) == IF option = {} THEN 0 ELSE CHOOSE n \in option : TRUE

\* count_tests
CountTests(lang, output) ==
  CASE lang = "Rust" -> SumRan("test result", output)
    [] lang = "Python" -> OrZero(FirstCapture("Ran", output))
    [] lang = "Cpp" ->
         IF FirstCapture("All tests passed", output) # {}
           THEN OrZero(FirstCapture("All tests passed", output))
           ELSE OrZero(FirstCapture("test cases", output))
    [] lang = "Javascript" -> OrZero(FirstCapture("Tests", output))
    [] lang = "Go" -> Cardinality(Lines("ok", output) \cup Lines("FAIL", output))
    [] lang = "Java" ->
         IF Lines("BUILD SUCCESSFUL", output) # {} /\ Lines(":test skipped", output) = {}
           THEN 1 ELSE 0

\* Mutant of Grade: a clean exit is enough.
GradeByExit(lang, exit_code, output) ==
  [passed |-> exit_code = 0, tests_run |-> CountTests(lang, output)]

\* grade
Grade(lang, exit_code, output) ==
  LET tests_run == CountTests(lang, output)
  IN  [passed |-> exit_code = 0 /\ tests_run > 0, tests_run |-> tests_run]

-----------------------------------------------------------------------------
(* scorecard.rs *)

\* CheckOutcome::passed
OutcomePassed(check) == check.status = "Passed"

\* Mutant of CheckClean: only a check that reported findings is not clean.
CleanUnlessFailed(checks, names) ==
  \A i \in DOMAIN checks : Words[checks[i].name] \cap names # {} => checks[i].status # "Failed"

\* check_clean
CheckClean(checks, names) ==
  \A i \in DOMAIN checks : Words[checks[i].name] \cap names # {} => OutcomePassed(checks[i])

Formatters == {"fmt", "format"}
Linters == {"clippy", "lint"}
Compilers == {"check", "typecheck", "build"}

\* QualityBlock::from_signals; churn is the lines added and removed, gold that of
\* the gold patch, 0 when there is none.
FromSignals(checks, churn, gold, tests_added) ==
  [format_clean |-> CheckClean(checks, Formatters),
   lint_clean |-> CheckClean(checks, Linters),
   typecheck_clean |-> CheckClean(checks, Compilers),
   vs_gold_ratio |-> IF gold = 0 THEN {} ELSE {<<churn, gold>>},
   tests_added |-> tests_added]

-----------------------------------------------------------------------------
(* ablation.rs: the composite and the ranking; a fraction is <<num, den>>. *)

Plus(x, y) == <<x[1] * y[2] + y[1] * x[2], x[2] * y[2]>>
Over(x, n) == <<x[1], x[2] * n>>
Exceeds(x, y) == x[1] * y[2] > y[1] * x[2]
One(flag) == IF flag THEN 1 ELSE 0

QualityComponent(q) ==
  LET clean == <<One(q.format_clean) + One(q.lint_clean) + One(q.typecheck_clean), 3>>
      minimal == IF q.vs_gold_ratio = {} THEN <<1, 2>>
                 ELSE LET ratio == CHOOSE r \in q.vs_gold_ratio : TRUE
                      IN  <<ratio[2], Max({ratio[1], ratio[2]})>>
      tests == IF q.tests_added THEN <<1, 1>> ELSE <<1, 2>>
  IN  Over(Plus(Plus(clean, minimal), tests), 3)

ProcessComponent(p) ==
  LET good == One(p.reproduce_before_fix) + One(p.test_before_done) + One(p.retrieval_used)
      calls == IF p.tool_calls = 0 THEN 1 ELSE p.tool_calls
      useful == IF p.tool_calls = 0 THEN 1 ELSE Max({0, calls - p.redundant_calls})
  IN  <<good * useful, 3 * calls>>

\* composite_score with rank_key: <<1, score>> for a pass, <<0, score>> for a failure.
CompositeScore(card) ==
  LET process == ProcessComponent(card.process)
      regression == <<One(card.results.regression_safe), 1>>
  IN  IF ~card.results.passed THEN <<0, process>>
      ELSE <<1, Over(Plus(Plus(QualityComponent(card.quality), process), regression), 3)>>

\* Mutant of Outranks: the score is compared before the pass.
OutranksByScore(a, b) == Exceeds(CompositeScore(a)[2], CompositeScore(b)[2])

Outranks(a, b) ==
  LET ka == CompositeScore(a)
      kb == CompositeScore(b)
  IN  \/ ka[1] > kb[1]
      \/ ka[1] = kb[1] /\ Exceeds(ka[2], kb[2])

\* rank: best first, equals in the order they came in; a card's place is the
\* number of the cards before it.
Before(cards, i, j) ==
  \/ Outranks(cards[i], cards[j])
  \/ ~Outranks(cards[j], cards[i]) /\ i < j
Ahead(cards, i) == {j \in DOMAIN cards : Before(cards, j, i)}
Rank(cards) ==
  [n \in DOMAIN cards |-> CHOOSE i \in DOMAIN cards : Cardinality(Ahead(cards, i)) = n - 1]

-----------------------------------------------------------------------------
(* ablation.rs: arms and attribution.  An arm is named for what it leaves    *)
(* out: "baseline", "full", or the feature.                                  *)

\* FEATURES
FeatureSignal ==
  [retrieval |-> "retrieval_used", code_intelligence |-> "reproduce_before_fix",
   tool_budget |-> "tool_calls", check_before_launch |-> "reproduce_before_fix",
   tool_pull_discovery |-> "redundant_calls"]
Features == DOMAIN FeatureSignal

\* Mutant of SetFeature: a feature the match does not know stays as it is.
SetFeatureForgetful(features, name) == features \ ({name} \ {"tool_budget"})

\* set_feature to false
SetFeature(features, name) == features \ {name}

\* ablation_matrix: arm -> the features that are on
AblationMatrix ==
  [arm \in Features \cup {"baseline", "full"} |->
     CASE arm = "baseline" -> {}
       [] arm = "full" -> Features
       [] OTHER -> SetFeature(Features, arm)]

\* attribute: full and ablated[feature] are process blocks, as numbers.
Attribute(full, ablated) ==
  {[feature |-> f, moved |-> full[FeatureSignal[f]] # ablated[f][FeatureSignal[f]]] :
     f \in Features \cap DOMAIN ablated}
=============================================================================
