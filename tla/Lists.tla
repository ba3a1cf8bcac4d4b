-------------------------------- MODULE Lists --------------------------------
\* Lists filtered by what their elements are.
EXTENDS Integers, Sequences, SequencesExt

\* What of a sequence is in S, in its order.
Only(s, S) == FlattenSeq([i \in DOMAIN s |-> IF s[i] \in S THEN <<s[i]>> ELSE <<>>])
=============================================================================
