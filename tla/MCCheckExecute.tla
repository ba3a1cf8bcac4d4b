--------------------------- MODULE MCCheckExecute ---------------------------
\* A command that may start one descendant and writes to stdout, past what is
\* shown and past what is kept; stderr only opens and closes.  MCQuiet: a
\* command that writes nothing, for the liveness properties.
EXTENDS CheckExecute

MCStreams == {"stdout", "stderr"}
MCQuiet == [s \in MCStreams |-> 0]
MCMaxSent == [s \in MCStreams |-> IF s = "stdout" THEN 2 ELSE 0]
=============================================================================
