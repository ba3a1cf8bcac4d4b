----------------------------- MODULE MCCaptured -----------------------------
\* One stream that two processes write to, with more bytes than are kept and
\* more kept than are shown.
EXTENDS Captured

MCStreams == {"stdout"}
MCMaxSent == [s \in MCStreams |-> 5]
=============================================================================
