---------------------------- MODULE MCEvaluation ----------------------------
\* A gate of two checks, one with a name that contains the conventional words of
\* two kinds; workspaces with one stack, two and none; suites of up to two
\* binaries, empty and said to be so or not, passing and failing; rivals that passed dirty and failed
\* cleanly, one of them without a tool call.  A judge with two fixtures and one more
\* diff, that scores high, low or out of range, in prose or cut off, and compares two
\* solutions under two seeds.  Uplift runs with two bindings, three task sets of which
\* two differ only in their name, two configurations and two models.
EXTENDS Evaluation

MCGate == <<"fmt-check", "build">>
MCWords == [name \in {"fmt-check", "build"} |-> IF name = "build" THEN {"build"} ELSE {"fmt", "check"}]
MCRole == [name \in {"fmt-check", "build"} |-> IF name = "build" THEN "compile" ELSE "format"]
MCRoots ==
  {{}, {"Cargo.toml", "Makefile"}, {"go.mod"}, {"pom.xml"}, {"build.gradle", "package.json"},
   {"package.json", "makefile"}, {"test_x.py", "x.cpp"}, {"Makefile", "x.cpp"}, {"x.cpp"}}
MCOverrides == {{}, {"blank"}, {"python -m unittest"}, {"catch2"}}
MCBinaries ==
  {[passed |-> p, failed |-> f, told |-> TRUE] : <<p, f>> \in {<<0, 0>>, <<2, 0>>, <<1, 1>>}}
  \cup {[passed |-> 0, failed |-> 0, told |-> FALSE]}
MCSuites == {<<>>} \cup {<<a>> : a \in MCBinaries} \cup {<<a, b>> : a, b \in MCBinaries}

Session(good, calls, redundant, safe, churn, added) ==
  [process |-> [reproduce_before_fix |-> good, test_before_done |-> good, retrieval_used |-> TRUE,
                tool_calls |-> calls, redundant_calls |-> redundant],
   regression_safe |-> safe, churn |-> churn, tests_added |-> added]
MCSessions == {Session(TRUE, 4, 1, TRUE, 3, TRUE), Session(FALSE, 0, 0, FALSE, 9, TRUE),
               Session(TRUE, 2, 2, TRUE, 0, FALSE)}
MCGold == 3

Rival(passed, clean, s) ==
  [results |-> [passed |-> passed, regression_safe |-> s.regression_safe],
   quality |-> [format_clean |-> clean, lint_clean |-> TRUE, typecheck_clean |-> clean,
                vs_gold_ratio |-> {}, tests_added |-> s.tests_added],
   process |-> s.process]
MCRivals == <<Rival(TRUE, FALSE, Session(FALSE, 3, 3, FALSE, 9, FALSE)),
              Rival(FALSE, TRUE, Session(TRUE, 0, 0, TRUE, 1, TRUE)),
              Rival(TRUE, TRUE, Session(TRUE, 5, 1, TRUE, 3, TRUE))>>

-----------------------------------------------------------------------------
MCFixtures == {[better |-> "g1", worse |-> "b1"], [better |-> "g2", worse |-> "b2"]}
MCInputs == {[diff |-> "d", trajectory |-> "t"]}
MCHumanLabel == [diff \in {"g1", "b1", "g2", "b2"} |-> IF diff = "g1" THEN 5 ELSE IF diff = "g2" THEN 4 ELSE 2]

Even(n) == [d \in Dimensions |-> n]
MCJson ==
  LET body == {<<"{", x, "}">> : x \in {"high", "low", "six", "none", "one", "two", "three"}}
      value == [high |-> Even(5), low |-> Even(2), six |-> [Even(5) EXCEPT !["readability"] = 6],
                none |-> [d \in {"readability"} |-> 5],
                one |-> [d \in {"preferred"} |-> 1], two |-> [d \in {"preferred"} |-> 2],
                three |-> [d \in {"preferred"} |-> 3]]
  IN  [b \in body |-> value[b[2]]]

MCScorings ==
  {[raw |-> <<"{", "high", "}">>, means |-> {Even(5)}],
   [raw |-> <<"prose", "{", "low", "}", "prose", "{", "high", "}">>, means |-> {Even(2)}],
   [raw |-> <<"{", "six", "}">>, means |-> {}],
   [raw |-> <<"{", "prose", "}", "{", "high", "}">>, means |-> {}]}
MCPreferences ==
  {[raw |-> <<"{", "one", "}">>, means |-> {1}], [raw |-> <<"prose", "{", "two", "}">>, means |-> {2}],
   [raw |-> <<"{", "three", "}">>, means |-> {}]}

-----------------------------------------------------------------------------
MCTaskSets == {[name |-> "old", digest |-> "d1", task_count |-> 3], [name |-> "new", digest |-> "d1", task_count |-> 3],
               [name |-> "old", digest |-> "d2", task_count |-> 3]}
=============================================================================
