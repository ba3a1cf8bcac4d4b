------------------------ MODULE MCExecuteRefinement -------------------------
\* The refinement for a silent command with one descendant.
EXTENDS ExecuteRefinement

MCStreams == {"stdout", "stderr"}
MCQuiet == [s \in MCStreams |-> 0]
=============================================================================
