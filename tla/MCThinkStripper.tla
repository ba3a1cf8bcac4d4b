-------------------------- MODULE MCThinkStripper ---------------------------
\* Tags of two and three characters that share their first, one character of
\* two bytes, and chunks that cut a text anywhere.
EXTENDS ThinkStripper

MCChars == {"<", "/", "t", "x"}
MCWide == {"x"}
MCOpen == <<"<", "t">>
MCClose == <<"<", "/", "t">>
MCChunks == UNION {[1..n -> MCChars] : n \in 1..3}
=============================================================================
