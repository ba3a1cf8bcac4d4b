----------------------------- MODULE Evaluation -----------------------------
(***************************************************************************)
(* From the checks of a change to its place in the ranking: the host runs  *)
(* its gate one CheckSpec after the other (CheckRun), runs the command     *)
(* that verifies the workspace, has its output graded, writes the          *)
(* scorecard and ranks it next to others (Scoring).  Or it compares the    *)
(* arms of an ablation, or works with a judge (Judging), whose scores are  *)
(* recorded on a card but are no part of its grade or its rank, or has an  *)
(* uplift run done (Uplift).  The order of these calls and the tools that  *)
(* print are the host's; what is made of them is localx-eval-core's.       *)
(***************************************************************************)
EXTENDS CheckRun, Scoring, Judging, Uplift

CONSTANTS
  Gate,       \* the names of the checks, in the order the host runs them
  Role,       \* check name -> "format", "lint" or "compile"
  Roots,      \* the workspaces, sets of markers
  Overrides,  \* the values of the host's verify override
  Suites,     \* the test suites: sequences of binaries, packages or projects [passed, failed, told]
  Sessions,   \* what else a card records: [process, regression_safe, churn, tests_added]
  Gold,       \* lines of the gold patch, 0 without one
  Rivals      \* the cards it is ranked with

\* A gate runs each check once, and names it by the convention of scorecard.rs.
ASSUME GateAssumption ==
  /\ Gate # <<>> /\ Gate \in Seq(DOMAIN Role)
  /\ \A i, j \in DOMAIN Gate : Gate[i] = Gate[j] => i = j
  /\ \A i \in DOMAIN Gate :
       LET named == Words[Gate[i]]
       IN  /\ Role[Gate[i]] = "format" => named \cap Formatters # {}
           /\ Role[Gate[i]] = "lint" => named \cap Linters # {}
           /\ Role[Gate[i]] = "compile" => named \cap Compilers # {}

\* A workspace is the set of the markers in its root; a suite counts its tests and,
\* if it has none, is told of in the form grade.rs looks for, or in another.
ASSUME RunsAssumption ==
  /\ \A root \in Roots : \A marker \in root : \E i \in DOMAIN Stacks : marker \in Stacks[i].markers
  /\ \A suites \in Suites : suites \in Seq([passed : Nat, failed : Nat, told : BOOLEAN])

\* The numbers on a card are counts, the gold patch has lines when there is one.
Processes ==
  [reproduce_before_fix : BOOLEAN, test_before_done : BOOLEAN, retrieval_used : BOOLEAN,
   tool_calls : Nat, redundant_calls : Nat]
Qualities(ratios) ==
  [format_clean : BOOLEAN, lint_clean : BOOLEAN, typecheck_clean : BOOLEAN,
   vs_gold_ratio : ratios, tests_added : BOOLEAN]
IsCard(c) ==
  /\ c.results \in [passed : BOOLEAN, regression_safe : BOOLEAN]
  /\ c.process \in Processes
  /\ c.quality \in Qualities({c.quality.vs_gold_ratio})
  /\ \/ c.quality.vs_gold_ratio = {}
     \/ \E r \in c.quality.vs_gold_ratio :
          r \in Nat \X (Nat \ {0}) /\ c.quality.vs_gold_ratio = {r}
ASSUME CardsAssumption ==
  /\ Gold \in Nat
  /\ \A s \in Sessions :
       s \in [process : Processes, regression_safe : BOOLEAN, churn : Nat, tests_added : BOOLEAN]
  /\ Rivals \in Seq(ToSet(Rivals)) /\ \A i \in DOMAIN Rivals : IsCard(Rivals[i])

VARIABLES
  stage,      \* "gate", "closed", "graded", "reported", "ablated", "judging" or "uplift"
  outcomes,   \* what the runner answered, [name, status, fixed]
  proved,     \* history: the checks whose command last exited 0
  tests,      \* the GradeOutcome
  truth,      \* history: what the test run was, [tool, ran, failed, exit, whole, native, untold, skipped]
  card,       \* the Scorecard
  ablation    \* an ablation: [effective, done] and the rows attributed

scoreVars == <<stage, outcomes, proved, tests, truth, card, ablation>>
evaluationVars == <<vars, scoreVars, judgeVars, upliftVars>>

NoTruth == [tool |-> {}, ran |-> 0, failed |-> 0, exit |-> 0, whole |-> FALSE, native |-> FALSE,
            untold |-> FALSE, skipped |-> FALSE]
Ungraded == [passed |-> FALSE, tests_run |-> 0]
NoAblation == [effective |-> {}, done |-> {}, rows |-> {}]

EvaluationInit ==
  /\ Init
  /\ outcomes = <<>>
  /\ proved = {}
  /\ tests = Ungraded
  /\ truth = NoTruth
  /\ card = <<>>
  /\ ablation = NoAblation
  /\ JudgingInit
  /\ UpliftInit
  /\ stage \in {"gate", "judging", "uplift"}
  /\ stage # "gate" => ~fixer
  /\ stage # "judging" => favourite = CHOOSE s \in Solutions : TRUE
  /\ stage # "uplift" => expected = CHOOSE identity \in Identities : TRUE

-----------------------------------------------------------------------------
(* The gate. *)

Running ==
  /\ stage = "gate"
  /\ Next
  /\ UNCHANGED scoreVars

\* A check is over; the next one starts on a fresh call, in the same directory.
Judged ==
  LET name == Gate[Len(outcomes) + 1]
  IN  /\ stage = "gate"
      /\ step = "over"
      /\ outcomes' = Append(outcomes, [name |-> name, status |-> outcome.status, fixed |-> outcome.fixed])
      /\ proved' = IF ends[Len(ends)].end = "ExitedOk" THEN proved \cup {name} ELSE proved
      /\ UNCHANGED <<tests, truth, card, ablation>>

NextCheck ==
  /\ Judged
  /\ Len(outcomes') < Len(Gate)
  /\ fixer' \in BOOLEAN
  /\ step' = "check"
  /\ phase' = "asking"
  /\ result' = NoResult
  /\ live' = FALSE
  /\ leftover' = (leftover \/ live)
  /\ outcome' = NoOutcome
  /\ ends' = <<>>
  /\ started' = <<>>
  /\ UNCHANGED <<cancelled, overlap, unverified, stage>>

\* The last check is over and the runner is dropped.
CloseGate ==
  /\ Judged
  /\ Len(outcomes') = Len(Gate)
  /\ stage' = "closed"
  /\ step' = "none"
  /\ phase' = "returned"
  /\ result' = NoResult
  /\ outcome' = NoOutcome
  /\ ends' = <<>>
  /\ started' = <<>>
  /\ fixer' = FALSE /\ live' = FALSE /\ leftover' = FALSE
  /\ overlap' = FALSE /\ unverified' = FALSE
  /\ UNCHANGED cancelled

-----------------------------------------------------------------------------
(* The test run.  The tools are not part of the repository: they print what  *)
(* grade.rs and its tests know of them, and of a suite without tests go and  *)
(* gradle also say so in ways it does not know.                              *)

Suite(passed, failed) == [passed |-> passed, failed |-> failed]
Failed(suites) == \E i \in DOMAIN suites : suites[i].failed > 0
Totals(suites) ==
  Suite(Summed([i \in DOMAIN suites |-> suites[i].passed]), Summed([i \in DOMAIN suites |-> suites[i].failed]))

\* A package or project without a test: go prints `? pkg [no test files]` and gradle
\* `> Task :test NO-SOURCE`, which is told; or `ok pkg [no tests to run]`, `:test
\* UP-TO-DATE` or a subproject's `:app:test NO-SOURCE`, which is not.
Told(suite) == Ran(suite) = 0 /\ suite.told
Untold(suite) == Ran(suite) = 0 /\ ~suite.told

\* cargo and gradle stop after the first suite that fails; the others run them all.
Reached(tool, suites) ==
  IF tool \in {"cargo test", "gradle test"} /\ Failed(suites)
    THEN SubSeq(suites, 1, Min({i \in DOMAIN suites : suites[i].failed > 0}))
    ELSE suites

\* A run fails with a test; gradle has no task test without a project.
Broken(tool, suites) == Failed(suites) \/ (tool = "gradle test" /\ suites = <<>>)

Summary(kind, suite) == <<Line(kind, suite.passed, suite.failed)>>

\* What a tool prints of the suites it ran.
Printed(tool, suites) ==
  LET all == Totals(suites)
      none == all = Suite(0, 0)
  IN  CASE tool = "cargo test" ->
             [i \in DOMAIN suites |-> Line("test result", suites[i].passed, suites[i].failed)]
        [] tool = "go test" ->
             [i \in DOMAIN suites |->
                IF Told(suites[i]) THEN Line("no test files", 0, 0)
                ELSE Line(IF suites[i].failed > 0 THEN "FAIL" ELSE "ok", suites[i].passed, suites[i].failed)]
        [] tool = "python -m unittest" -> Summary("Ran", all)
        [] tool = "pytest" -> Summary("passed", all)
        [] tool = "npm test" -> IF none THEN Summary("No tests found", all) ELSE Summary("Tests", all)
        [] tool = "gradle test" ->
             [i \in DOMAIN suites |->
                Line(IF Told(suites[i]) THEN ":test skipped" ELSE ":test", suites[i].passed, suites[i].failed)]
             \o Summary(IF Broken(tool, suites) THEN "BUILD FAILED" ELSE "BUILD SUCCESSFUL", all)
        [] tool = "catch2" ->
             IF Failed(suites) THEN Summary("test cases", all) ELSE Summary("All tests passed", all)
        [] OTHER -> <<>>

LangOf(tool) ==
  CASE tool = "cargo test" -> "Rust"
    [] tool = "go test" -> "Go"
    [] tool \in {"pytest", "python -m unittest"} -> "Python"
    [] tool = "npm test" -> "Javascript"
    [] tool \in {"gradle test", "mvn -q test"} -> "Java"
    [] OTHER -> "Cpp"

\* The tools whose summary count_tests reads; make and g++ run no tests, pytest
\* and a quiet Maven print another summary.
Understood == {"cargo test", "go test", "python -m unittest", "npm test", "gradle test", "catch2"}
Builds == {"make", "g++"}

\* The host runs the command and has the output graded.  A run that is killed
\* does not exit 0 and its output ends early; so does an output that is cut.
GradeRun(tool, native, suites, killed, cut) ==
  LET run == IF tool \in Builds THEN <<>> ELSE Reached(tool, suites)
      output == Printed(tool, run)
      exit == IF killed \/ Broken(tool, run) THEN 1 ELSE 0
      whole == ~killed /\ ~cut
      read == IF whole THEN output ELSE SubSeq(output, 1, Len(output) - 1)
  IN  /\ tests' = Grade(LangOf(tool), exit, read)
      /\ truth' = [tool |-> {tool}, ran |-> Ran(Totals(run)), failed |-> Totals(run).failed,
                   exit |-> exit, whole |-> whole, native |-> native,
                   untold |-> tool \in {"go test", "gradle test"} /\ \E i \in DOMAIN run : Untold(run[i]),
                   skipped |-> tool = "gradle test" /\ \E i \in DOMAIN run : Told(run[i])]

\* A workspace without a command is not verified: "the gate is a no-op".
Verify ==
  /\ stage = "closed"
  /\ \E root \in Roots, override_cmd \in Overrides, suites \in Suites, killed, cut \in BOOLEAN :
       LET command == ResolveVerifyCommand(root, override_cmd)
           native == /\ override_cmd \subseteq {"blank"}
                     /\ root \ {"Makefile", "makefile", "x.cpp"} # {}
       IN  \/ command = {} /\ UNCHANGED <<tests, truth>>
           \/ \E tool \in command : GradeRun(tool, native, suites, killed, cut)
  /\ stage' = "graded"
  /\ UNCHANGED <<vars, outcomes, proved, card, ablation>>

-----------------------------------------------------------------------------
\* The producer writes the card of the run.
Report ==
  /\ stage = "graded"
  /\ \E s \in Sessions :
       card' = <<[results |-> [passed |-> tests.passed, regression_safe |-> s.regression_safe],
                  quality |-> FromSignals(outcomes, s.churn, Gold, s.tests_added),
                  process |-> s.process]>>
  /\ stage' = "reported"
  /\ UNCHANGED <<vars, outcomes, proved, tests, truth, ablation>>

\* The process signals of a session with these features on, of which only the
\* effective ones do anything.
Signals(on, effective) ==
  LET does(f) == f \in on \cap effective
  IN  [retrieval_used |-> One(does("retrieval")),
       reproduce_before_fix |-> One(does("code_intelligence") \/ does("check_before_launch")),
       tool_calls |-> 3 - One(does("tool_budget")),
       redundant_calls |-> 1 - One(does("tool_pull_discovery"))]

\* Instead of one run: the arms of an ablation, some of which were not run.
Ablate ==
  /\ stage = "gate" /\ outcomes = <<>> /\ phase = "asking" /\ step = "check"
  /\ \E effective \in SUBSET Features, done \in SUBSET Features :
       ablation' = [effective |-> effective, done |-> done,
                    rows |-> Attribute(Signals(AblationMatrix["full"], effective),
                                       [f \in done |-> Signals(AblationMatrix[f], effective)])]
  /\ stage' = "ablated"
  /\ UNCHANGED <<vars, outcomes, proved, tests, truth, card>>

\* Instead of either: the host puts its questions to a judge.
Consult ==
  /\ stage = "judging"
  /\ JudgingNext
  /\ UNCHANGED <<vars, scoreVars, upliftVars>>

\* Instead of all of them: the host requests an uplift run and takes its receipt.
RunUplift ==
  /\ stage = "uplift"
  /\ UpliftNext
  /\ UNCHANGED <<vars, scoreVars, judgeVars>>

EvaluationNext ==
  \/ /\ Running \/ NextCheck \/ CloseGate \/ Verify \/ Report \/ Ablate
     /\ UNCHANGED <<judgeVars, upliftVars>>
  \/ Consult
  \/ RunUplift

EvaluationSpec == EvaluationInit /\ [][EvaluationNext]_evaluationVars

-----------------------------------------------------------------------------
\* grade: a run is graded as passed only if it exited 0, no test failed and some
\* test ran, or go or gradle did not say of a suite that it ran none in the form
\* the grader looks for; a run whose tests all passed and whose whole summary is
\* one it reads is, unless gradle skipped the root project's tests; and a workspace
\* with a test runner of its own is not verified by a build.
GradeIsTrue ==
  /\ tests.passed => truth.exit = 0 /\ truth.failed = 0 /\ (truth.ran > 0 \/ truth.untold)
  /\ /\ truth.tool \cap Understood # {} /\ truth.whole /\ ~truth.skipped
     /\ truth.failed = 0 /\ truth.ran > 0
     => tests.passed
  /\ truth.native => truth.tool \cap Builds = {}

\* "A compile-with-zero-tests must never score as solved" (grade.rs), as its comment
\* says it: the code does not keep it for the untold suites of go and gradle.
SolvedMeansTested == tests.passed => truth.ran > 0

\* A clean flag on the card is a check of that kind whose own last run exited 0,
\* through fixes, cancellations and refusals; and a gate in which every check
\* did so has a clean card.
CleanMeansRan ==
  stage = "reported" =>
    LET quality == card[1].quality
        Ok(role) == \A i \in DOMAIN Gate : Role[Gate[i]] = role => Gate[i] \in proved
    IN  /\ quality.format_clean => Ok("format")
        /\ quality.lint_clean => Ok("lint")
        /\ quality.typecheck_clean => Ok("compile")
        /\ (\A i \in DOMAIN Gate : Gate[i] \in proved) =>
             quality.format_clean /\ quality.lint_clean /\ quality.typecheck_clean

\* a is in every respect at least as good as b.
AtLeast(x, y) == ~Exceeds(y, x)
Wasted(p) == IF p.tool_calls = 0 THEN <<0, 1>> ELSE <<p.redundant_calls, p.tool_calls>>
NoMoreChurn(p, q) ==
  \/ p = q
  \/ \E x \in p, y \in q : AtLeast(y, x)
Dominates(a, b) ==
  LET Implied(signal, x, y) == y[signal] => x[signal]
  IN  /\ Implied("passed", a.results, b.results)
      /\ \A s \in {"reproduce_before_fix", "test_before_done", "retrieval_used"} :
           Implied(s, a.process, b.process)
      /\ AtLeast(Wasted(b.process), Wasted(a.process))
      /\ b.results.passed =>
           /\ Implied("regression_safe", a.results, b.results)
           /\ \A s \in {"format_clean", "lint_clean", "typecheck_clean", "tests_added"} :
                Implied(s, a.quality, b.quality)
           /\ NoMoreChurn(a.quality.vs_gold_ratio, b.quality.vs_gold_ratio)

\* The ranking names every card once and best first; it puts no failure before a
\* pass and lets no card outrank one that is at least as good in every signal:
\* "correctness gates first, then passers rank by quality, process and
\* regression-safety".
RankIsFair ==
  stage = "reported" =>
    LET cards == Append(Rivals, card[1])
        order == Rank(cards)
    IN  /\ Len(order) = Len(cards)
        /\ {order[n] : n \in DOMAIN order} = DOMAIN cards
        /\ \A m, n \in DOMAIN order : m < n =>
             LET better == cards[order[m]]
                 worse == cards[order[n]]
             IN  /\ worse.results.passed => better.results.passed
                 /\ ~Outranks(worse, better)
        /\ \A i, j \in DOMAIN cards : Dominates(cards[i], cards[j]) => ~Outranks(cards[j], cards[i])

\* A feature is said to move its signal only if it does something, and is said
\* so if nothing else moves that signal; every arm that was run is attributed.
AttributionIsSound ==
  stage = "ablated" =>
    /\ {row.feature : row \in ablation.rows} = ablation.done
    /\ \A row \in ablation.rows :
         LET alike == {f \in Features : FeatureSignal[f] = FeatureSignal[row.feature]}
         IN  /\ row.moved => row.feature \in ablation.effective
             /\ alike \cap ablation.effective = {row.feature} => row.moved
=============================================================================
