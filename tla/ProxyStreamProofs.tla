-------------------------- MODULE ProxyStreamProofs --------------------------
(* For every pair of tags, every limit and every way a text is cut: what the   *)
(* filter holds back between two pushes is bounded and contains no tag that    *)
(* should have been acted on, and what it shows is strip_think of the whole.   *)
(* For every answer, however it is cut: the client sees a clean end only of an *)
(* answer that ended, each block in its order and with the text strip_think    *)
(* leaves of it.  For every request: what is forwarded asks for the same, and  *)
(* what is answered whole is what the upstream answered.                       *)
EXTENDS Proxy, ThinkStripper, TLAPS, SequenceTheorems, FiniteSetTheorems, WellFoundedInduction

-----------------------------------------------------------------------------
(* The filter of one text.                                                     *)

\* Every non-empty set of numbers has a least one.
LEMMA LeastOf ==
  ASSUME NEW T \in SUBSET Nat, T # {}
  PROVE  \E n \in T : \A m \in T : n <= m
<1>1. PICK n \in T : \A m \in T : <<m, n>> \notin OpToRel(<, Nat)
  BY NatLessThanWellFounded, WFMin
<1>2. \A m \in T : ~(m < n)
  BY <1>1 DEF OpToRel
<1> QED BY <1>2

LEMMA TagsAreTexts == OPEN \in Seq(Chars) /\ CLOSE \in Seq(Chars) /\ HOLDBACK \in Nat
<1>1. OPEN \in Seq(Chars) /\ CLOSE \in Seq(Chars)
  BY ThinkAssumption, SeqMonotonic
<1>2. Len(CLOSE) \in Nat /\ Len(OPEN) \in Nat /\ Len(OPEN) < Len(CLOSE)
  BY <1>1, ThinkAssumption, LenProperties
<1> QED BY <1>1, <1>2, ThinkAssumption

\* find returns a place in the text.
LEMMA FirstInText ==
  ASSUME NEW text \in Seq(Chars), NEW tag \in Seq(Chars), Occurs(tag, text)
  PROVE  First(tag, text) \in 1..Len(text)
<1> DEFINE T == {i \in DOMAIN text : At(tag, text, i)}
<1>1. T \in SUBSET Nat /\ T # {} /\ DOMAIN text = 1..Len(text) /\ Len(text) \in Nat
  BY LenProperties DEF Occurs
<1>2. PICK i \in T : \A j \in T : i <= j
  BY <1>1, LeastOf
<1>3. /\ i \in DOMAIN text
      /\ At(tag, text, i)
      /\ \A j \in 1..(i - 1) : ~At(tag, text, j)
  BY <1>1, <1>2
<1>4. First(tag, text) \in DOMAIN text
  BY <1>3 DEF First
<1> QED BY <1>1, <1>4

\* What is cut off at a tag is a text.
LEMMA CutIsText ==
  ASSUME NEW text \in Seq(Chars), NEW tag \in Seq(Chars), Occurs(tag, text)
  PROVE  Before(tag, text) \in Seq(Chars) /\ After(tag, text) \in Seq(Chars)
<1>1. First(tag, text) \in 1..Len(text) /\ Len(text) \in Nat /\ Len(tag) \in Nat
  BY FirstInText, LenProperties
<1>2. \A i \in 1..Len(text) : text[i] \in Chars
  BY ElementOfSeq
<1>3. Before(tag, text) \in Seq(Chars)
  BY <1>1, <1>2, SubSeqProperties DEF Before
<1>4. After(tag, text) \in Seq(Chars)
  BY <1>1, <1>2, SubSeqProperties DEF After
<1> QED BY <1>3, <1>4

\* The end of a text.
LEMMA TailOfText ==
  ASSUME NEW text \in Seq(Chars), NEW n \in 0..Len(text)
  PROVE  /\ SubSeq(text, n + 1, Len(text)) \in Seq(Chars)
         /\ SubSeq(text, 1, n) \in Seq(Chars)
         /\ Len(SubSeq(text, n + 1, Len(text))) = Len(text) - n
         /\ \A i \in 1..(Len(text) - n) : SubSeq(text, n + 1, Len(text))[i] = text[n + i]
<1>1. Len(text) \in Nat
  BY LenProperties
<1>2. \A i \in 1..Len(text) : text[i] \in Chars
  BY ElementOfSeq
<1>3. SubSeq(text, 1, n) \in Seq(Chars)
  BY <1>1, <1>2, SubSeqProperties
<1>4. /\ SubSeq(text, n + 1, Len(text)) \in Seq(Chars)
      /\ Len(SubSeq(text, n + 1, Len(text))) = IF n + 1 <= Len(text) THEN Len(text) - (n + 1) + 1 ELSE 0
      /\ \A i \in 1..(Len(text) - (n + 1) + 1) : SubSeq(text, n + 1, Len(text))[i] = text[(n + 1) + i - 1]
  BY <1>1, <1>2, SubSeqProperties
<1> QED BY <1>1, <1>3, <1>4

LEMMA NoBytes == Bytes(<<>>) = 0
<1>1. {i \in DOMAIN <<>> : <<>>[i] \in Wide} = {} /\ Len(<<>>) = 0
  OBVIOUS
<1> QED BY <1>1, FS_EmptySet DEF Bytes

LEMMA BytesIsNat ==
  ASSUME NEW text \in Seq(Chars)
  PROVE  Bytes(text) \in Nat
<1> DEFINE wide == {i \in DOMAIN text : text[i] \in Wide}
<1>1. Len(text) \in Nat /\ wide \in SUBSET (1..Len(text))
  BY LenProperties
<1>2. IsFiniteSet(wide)
  BY <1>1, FS_Interval, FS_Subset
<1>3. Cardinality(wide) \in Nat
  BY <1>2, FS_CardinalityType
<1> QED BY <1>1, <1>3 DEF Bytes

\* holdback_start: a place in the text, with at most HOLDBACK bytes after it, and
\* the first such place.
LEMMA HoldbackIsSmall ==
  ASSUME NEW text \in Seq(Chars)
  PROVE  /\ HoldbackStart(text) \in 0..Len(text)
         /\ Bytes(SubSeq(text, HoldbackStart(text) + 1, Len(text))) <= HOLDBACK
         /\ \A m \in 0..(HoldbackStart(text) - 1) :
              Bytes(SubSeq(text, m + 1, Len(text))) > HOLDBACK
<1> DEFINE Left(n) == Bytes(SubSeq(text, n + 1, Len(text)))
<1>1. Len(text) \in Nat /\ HOLDBACK \in Nat
  BY LenProperties, TagsAreTexts
<1>2. \A n \in 0..Len(text) : Left(n) \in Nat
  BY TailOfText, BytesIsNat
<1>3. Left(Len(text)) <= HOLDBACK
  <2>1. SubSeq(text, Len(text) + 1, Len(text)) = <<>>
    BY <1>1, SubSeqEmpty
  <2>2. Left(Len(text)) = 0
    BY <2>1, NoBytes
  <2> HIDE DEF Left
  <2> QED BY <1>1, <2>2
<1>4. HoldbackStart(text) = CHOOSE n \in 0..Len(text) :
                              Left(n) <= HOLDBACK /\ \A m \in 0..(n - 1) : Left(m) > HOLDBACK
  BY DEF HoldbackStart
<1> HIDE DEF Left
<1> DEFINE T == {n \in 0..Len(text) : Left(n) <= HOLDBACK}
<1>5. T \in SUBSET Nat /\ Len(text) \in T
  BY <1>1, <1>3
<1>6. PICK n \in T : \A m \in T : n <= m
  <2> HIDE DEF T
  <2> QED BY <1>5, LeastOf
<1>7. /\ n \in 0..Len(text)
      /\ Left(n) <= HOLDBACK
      /\ \A m \in 0..(n - 1) : Left(m) > HOLDBACK
  BY <1>1, <1>2, <1>6
<1>8. /\ HoldbackStart(text) \in 0..Len(text)
      /\ Left(HoldbackStart(text)) <= HOLDBACK
      /\ \A m \in 0..(HoldbackStart(text) - 1) : Left(m) > HOLDBACK
  BY <1>4, <1>7
<1> QED BY <1>8 DEF Left

\* No tag turns up in the end of a text that has none.
LEMMA TailHasNoTag ==
  ASSUME NEW text \in Seq(Chars), NEW tag \in Seq(Chars), NEW n \in 0..Len(text),
         ~Occurs(tag, text)
  PROVE  ~Occurs(tag, SubSeq(text, n + 1, Len(text)))
<1> DEFINE rest == SubSeq(text, n + 1, Len(text))
<1>1. /\ rest \in Seq(Chars) /\ Len(rest) = Len(text) - n
      /\ Len(text) \in Nat /\ Len(tag) \in Nat
      /\ DOMAIN rest = 1..Len(rest) /\ DOMAIN text = 1..Len(text)
  BY TailOfText, LenProperties
<1> SUFFICES ASSUME NEW i \in 1..Len(rest), At(tag, rest, i)
             PROVE  FALSE
  BY <1>1 DEF Occurs
<1>2. i + Len(tag) - 1 <= Len(rest) /\ SubSeq(rest, i, i + Len(tag) - 1) = tag
  BY DEF At
<1>3. SubSeq(rest, i, i + Len(tag) - 1) = SubSeq(text, n + i, n + i + Len(tag) - 1)
  <2>1. CASE Len(tag) = 0
    <3>1. i \in Int /\ n + i \in Int /\ i + Len(tag) - 1 < i /\ n + i + Len(tag) - 1 < n + i
          /\ i + Len(tag) - 1 \in Int /\ n + i + Len(tag) - 1 \in Int
      <4> HIDE DEF rest
      <4> QED BY <1>1, <2>1
    <3>2. SubSeq(rest, i, i + Len(tag) - 1) = <<>>
      BY <3>1, SubSeqEmpty, Zenon
    <3>3. SubSeq(text, n + i, n + i + Len(tag) - 1) = <<>>
      BY <3>1, SubSeqEmpty, Zenon
    <3> QED BY <3>2, <3>3
  <2>2. CASE Len(tag) > 0
    <3> DEFINE k == i + Len(tag) - 1
    <3>1. /\ n + 1 \in 1..Len(text) /\ Len(text) \in 1..Len(text)
          /\ i \in 1..(Len(text) - (n + 1) + 1)
          /\ k \in 1..(Len(text) - (n + 1) + 1)
      <4> HIDE DEF rest
      <4> QED BY <1>1, <1>2, <2>2
    <3>2. SubSeq(rest, i, k) = SubSeq(text, (n + 1) + i - 1, (n + 1) + k - 1)
      <4> HIDE DEF k
      <4>1. \A a, b \in 1..Len(text) : \A c, d \in 1..(b - a + 1) :
              SubSeq(SubSeq(text, a, b), c, d) = SubSeq(text, a + c - 1, a + d - 1)
        BY SubSeqOfSubSeq
      <4>2. SubSeq(SubSeq(text, n + 1, Len(text)), i, k) =
              SubSeq(text, (n + 1) + i - 1, (n + 1) + k - 1)
        BY <3>1, <4>1, Zenon
      <4> QED BY <4>2
    <3>3. (n + 1) + i - 1 = n + i /\ (n + 1) + k - 1 = n + i + Len(tag) - 1
      <4> HIDE DEF rest
      <4> QED BY <1>1
    <3> QED BY <3>2, <3>3
  <2> HIDE DEF rest
  <2> QED BY <1>1, <2>1, <2>2
<1>4. At(tag, text, n + i) /\ n + i \in DOMAIN text
  <2> HIDE DEF rest
  <2>1. n + i \in 1..Len(text) /\ n + i + Len(tag) - 1 <= Len(text)
    BY <1>1, <1>2
  <2> QED BY <1>1, <1>2, <1>3, <2>1 DEF At
<1> QED BY <1>4 DEF Occurs

-----------------------------------------------------------------------------
IInv == StripperOK /\ HeldIsBounded

\* One turn of the loop of push.
LEMMA ScanOK ==
  ASSUME NEW st \in [buf : Seq(Chars), in_think : BOOLEAN, out : Seq(Chars), going : BOOLEAN],
         st.going
  PROVE  /\ Scan(st) \in [buf : Seq(Chars), in_think : BOOLEAN, out : Seq(Chars), going : BOOLEAN]
         /\ ~Scan(st).going =>
              /\ Bytes(Scan(st).buf) <= IF Scan(st).in_think THEN THINK_BAILOUT ELSE HOLDBACK
              /\ Scan(st).in_think => ~Occurs(CLOSE, Scan(st).buf)
              /\ ~Scan(st).in_think => ~Occurs(OPEN, Scan(st).buf)
<1> DEFINE Typed == [buf : Seq(Chars), in_think : BOOLEAN, out : Seq(Chars), going : BOOLEAN]
<1>1. CASE st.in_think /\ Occurs(CLOSE, st.buf)
  <2>1. Scan(st) = CloseSpan(st)
    BY <1>1 DEF Scan, GivesUp
  <2>2. CloseSpan(st) \in Typed /\ CloseSpan(st).going
    BY <1>1, TagsAreTexts, CutIsText DEF CloseSpan
  <2> QED BY <2>1, <2>2
<1>2. CASE GivesUp(st)
  <2>1. Scan(st) = GiveUpSpan(st)
    BY <1>2 DEF Scan, GivesUp
  <2>2. GiveUpSpan(st) \in Typed /\ GiveUpSpan(st).going
    BY ConcatProperties, EmptySeq DEF GiveUpSpan
  <2> QED BY <2>1, <2>2
<1>3. CASE st.in_think /\ ~Occurs(CLOSE, st.buf) /\ ~GivesUp(st)
  <2>1. Scan(st) = [st EXCEPT !.going = FALSE]
    BY <1>3 DEF Scan, GivesUp
  <2>2. Bytes(st.buf) <= THINK_BAILOUT
    BY <1>3, BytesIsNat, ThinkAssumption DEF GivesUp
  <2> QED BY <1>3, <2>1, <2>2
<1>4. CASE ~st.in_think /\ Occurs(OPEN, st.buf)
  <2>1. Scan(st) = OpenSpan(st)
    BY <1>4 DEF Scan, GivesUp
  <2>2. OpenSpan(st) \in Typed /\ OpenSpan(st).going
    BY <1>4, TagsAreTexts, CutIsText, ConcatProperties DEF OpenSpan
  <2> QED BY <2>1, <2>2
<1>5. CASE ~st.in_think /\ ~Occurs(OPEN, st.buf)
  <2> DEFINE keep == HoldbackStart(st.buf)
             rest == SubSeq(st.buf, keep + 1, Len(st.buf))
  <2>1. Scan(st) = EmitSafePrefix(st)
    BY <1>5 DEF Scan, GivesUp
  <2>2. keep \in 0..Len(st.buf) /\ Bytes(rest) <= HOLDBACK
    BY HoldbackIsSmall
  <2>3. rest \in Seq(Chars) /\ SubSeq(st.buf, 1, keep) \in Seq(Chars)
    BY <2>2, TailOfText
  <2>4. ~Occurs(OPEN, rest)
    BY <1>5, <2>2, TagsAreTexts, TailHasNoTag
  <2>5. st.out \o SubSeq(st.buf, 1, keep) \in Seq(Chars)
    BY <2>3, ConcatProperties
  <2>6. EmitSafePrefix(st) =
          [st EXCEPT !.out = st.out \o SubSeq(st.buf, 1, keep), !.buf = rest, !.going = FALSE]
    BY DEF EmitSafePrefix
  <2> HIDE DEF keep, rest
  <2> QED BY <1>5, <2>1, <2>2, <2>3, <2>4, <2>5, <2>6
<1> QED BY <1>1, <1>2, <1>3, <1>4, <1>5 DEF GivesUp

LEMMA NothingHeld == Bytes(<<>>) <= HOLDBACK /\ ~Occurs(OPEN, <<>>)
  BY NoBytes, TagsAreTexts DEF Occurs

LEMMA InitInv == FeedInit => IInv
  BY NothingHeld, EmptySeq DEF FeedInit, IInv, StripperOK, HeldIsBounded, Fresh

LEMMA NextInv == IInv /\ [FeedNext]_feedVars => IInv'
<1> SUFFICES ASSUME IInv, [FeedNext]_feedVars PROVE IInv'
  OBVIOUS
<1>1. ASSUME NEW chunk \in Chunks, Feed(chunk)
      PROVE  IInv'
  <2>1. chunk \in Seq(Chars)
    BY ChunksAssumption
  <2>2. stripper.buf \o chunk \in Seq(Chars)
    BY <2>1, ConcatProperties DEF IInv, StripperOK
  <2> QED BY <1>1, <2>2 DEF Feed, Take, IInv, StripperOK, HeldIsBounded
<1>2. CASE Iterate
  <2>1. stripper' = Scan(stripper) /\ stripper.going /\ UNCHANGED over
    BY <1>2 DEF Iterate
  <2>2. ~over
    BY <2>1 DEF IInv, StripperOK, Fresh
  <2> QED BY <2>1, <2>2, ScanOK DEF IInv, StripperOK, HeldIsBounded
<1>3. CASE Finish
  <2>1. stripper.out \o stripper.buf \in Seq(Chars)
    BY ConcatProperties DEF IInv, StripperOK
  <2> QED BY <1>3, <2>1, NothingHeld, EmptySeq
          DEF Finish, Flush, Fresh, IInv, StripperOK, HeldIsBounded
<1>4. CASE UNCHANGED feedVars
  BY <1>4 DEF feedVars, IInv, StripperOK, HeldIsBounded
<1> QED BY <1>1, <1>2, <1>3, <1>4 DEF FeedNext

\* ThinkStripper, nothink.rs: between two pushes the filter holds a tail no
\* longer than HOLDBACK or a span no longer than THINK_BAILOUT, and no whole tag
\* it should have acted on.
THEOREM StripperHeldIsBounded == FeedSpec => []HeldIsBounded
<1>1. IInv => HeldIsBounded
  BY DEF IInv
<1> QED BY InitInv, NextInv, <1>1, PTL DEF FeedSpec

-----------------------------------------------------------------------------
(* A tag and a text, character by character. *)

Text == Seq(Chars)
Tag == Text \ {<<>>}

LEMMA TagsAreTags == OPEN \in Tag /\ CLOSE \in Tag
<1>1. OPEN \in Text /\ CLOSE \in Text /\ OPEN # <<>>
  BY TagsAreTexts, ThinkAssumption DEF Text
<1>2. Len(OPEN) \in Nat /\ Len(CLOSE) > Len(OPEN) /\ Len(<<>>) = 0
  BY <1>1, ThinkAssumption, LenProperties DEF Text
<1>3. CLOSE # <<>>
  BY <1>2
<1> QED BY <1>1, <1>3 DEF Tag

LEMMA AtIs ==
  ASSUME NEW text \in Text, NEW tag \in Tag, NEW i \in Nat \ {0}
  PROVE  At(tag, text, i) <=>
           /\ i + Len(tag) - 1 <= Len(text)
           /\ \A k \in 1..Len(tag) : text[i + k - 1] = tag[k]
<1> DEFINE n == i + Len(tag) - 1
           part == SubSeq(text, i, n)
<1>1. Len(tag) \in Nat \ {0} /\ Len(text) \in Nat /\ tag \in Seq(Chars)
  BY LenProperties, EmptySeq DEF Text, Tag
<1> SUFFICES ASSUME n <= Len(text)
             PROVE  part = tag <=> \A k \in 1..Len(tag) : text[i + k - 1] = tag[k]
  BY <1>1 DEF At
<1>2. \A j \in i..n : text[j] \in Chars
  BY <1>1, ElementOfSeq DEF Text
<1>3. /\ part \in Seq(Chars) /\ Len(part) = Len(tag)
      /\ \A k \in 1..Len(tag) : part[k] = text[i + k - 1]
  BY <1>1, <1>2, SubSeqProperties
<1> HIDE DEF part, n
<1>4. (\A k \in 1..Len(tag) : part[k] = tag[k]) => part = tag
  BY <1>1, <1>3, SeqEqual
<1> QED BY <1>3, <1>4

\* find, and that there is only one answer.
LEMMA FirstIsFirst ==
  ASSUME NEW text \in Text, NEW tag \in Tag, Occurs(tag, text)
  PROVE  /\ First(tag, text) \in 1..Len(text)
         /\ At(tag, text, First(tag, text))
         /\ \A j \in 1..(First(tag, text) - 1) : ~At(tag, text, j)
<1> DEFINE T == {i \in DOMAIN text : At(tag, text, i)}
<1>1. T \in SUBSET Nat /\ T # {} /\ DOMAIN text = 1..Len(text) /\ Len(text) \in Nat
  BY LenProperties DEF Occurs, Text
<1>2. PICK i \in T : \A j \in T : i <= j
  BY <1>1, LeastOf
<1>3. /\ i \in DOMAIN text
      /\ At(tag, text, i)
      /\ \A j \in 1..(i - 1) : ~At(tag, text, j)
  BY <1>1, <1>2
<1> QED BY <1>1, <1>3 DEF First

LEMMA FirstIs ==
  ASSUME NEW text \in Text, NEW tag \in Tag, NEW i \in 1..Len(text), At(tag, text, i),
         \A j \in 1..(i - 1) : ~At(tag, text, j)
  PROVE  Occurs(tag, text) /\ First(tag, text) = i
<1>1. DOMAIN text = 1..Len(text) /\ Len(text) \in Nat
  BY LenProperties DEF Text
<1>2. Occurs(tag, text)
  BY <1>1 DEF Occurs
<1> QED BY <1>1, <1>2, FirstIsFirst

\* The end of a text that begins with another.
LEMMA EndOfBeginning ==
  ASSUME NEW text \in Text, NEW more \in Text, NEW m \in 1..(Len(text) + 1)
  PROVE  SubSeq(text \o more, m, Len(text \o more)) = SubSeq(text, m, Len(text)) \o more
<1>1. CASE m = Len(text) + 1
  <2>1. /\ Len(text) \in Nat /\ Len(text) < m /\ Len(text) \in 0..Len(text)
        /\ m \in Int /\ Len(text) \in Int
    BY <1>1, LenProperties DEF Text
  <2>2. SubSeq(text, m, Len(text)) = <<>>
    BY <2>1, SubSeqEmpty
  <2>3. SubSeq(text \o more, m, Len(text \o more)) = more
    <3> DEFINE rest == SubSeq(text \o more, m, Len(text \o more))
    <3>1. /\ text \o more \in Text /\ Len(text \o more) = Len(text) + Len(more)
          /\ Len(more) \in Nat
          /\ \A k \in 1..Len(more) : (text \o more)[Len(text) + k] = more[k]
      BY <2>1, ConcatProperties, LenProperties DEF Text
    <3>2. Len(text) \in 0..Len(text \o more)
      BY <2>1, <3>1
    <3>3. /\ rest \in Seq(Chars)
          /\ Len(rest) = Len(text \o more) - Len(text)
          /\ \A k \in 1..(Len(text \o more) - Len(text)) : rest[k] = (text \o more)[Len(text) + k]
      BY <1>1, <3>1, <3>2, TailOfText DEF Text
    <3> HIDE DEF rest
    <3>4. Len(rest) = Len(more) /\ \A k \in 1..Len(rest) : rest[k] = more[k]
      BY <2>1, <3>1, <3>3
    <3>5. rest = more
      BY <3>3, <3>4, SeqEqual DEF Text
    <3> QED BY <3>5 DEF rest
  <2> QED BY <2>2, <2>3, ConcatEmptySeq DEF Text
<1>2. CASE m <= Len(text)
  <2>1. /\ text \o more \in Text /\ Len(text \o more) = Len(text) + Len(more)
        /\ Len(text) \in Nat /\ Len(more) \in Nat
    BY ConcatProperties, LenProperties DEF Text
  <2> DEFINE everything == text \o more
  <2>2. /\ m \in 1..(Len(everything) + 1) /\ Len(text) \in (m - 1)..Len(everything)
        /\ Len(everything) \in Len(text)..Len(everything)
    BY <1>2, <2>1
  <2>3. SubSeq(everything, m, Len(text)) \o SubSeq(everything, Len(text) + 1, Len(everything))
          = SubSeq(everything, m, Len(everything))
    <3> HIDE DEF everything
    <3> QED BY <2>1, <2>2, ConcatAdjacentSubSeq DEF Text, everything
  <2>4. SubSeq(everything, m, Len(text)) = SubSeq(text, m, Len(text))
    <3>1. m \in 1..Len(text) /\ Len(text) \in 1..Len(text)
      BY <1>2, <2>1
    <3> QED BY <3>1, SubSeqOfConcat1 DEF Text
  <2>5. SubSeq(everything, Len(text) + 1, Len(everything)) = more
    <3>1. CASE Len(more) = 0
      <4>1. more = <<>>
        BY <3>1, EmptySeq DEF Text
      <4>2. Len(everything) < Len(text) + 1 /\ Len(everything) \in Int /\ Len(text) + 1 \in Int
        BY <2>1, <3>1
      <4>3. SubSeq(everything, Len(text) + 1, Len(everything)) = <<>>
        BY <4>2, SubSeqEmpty
      <4> QED BY <4>1, <4>3
    <3>2. CASE Len(more) > 0
      <4>1. /\ Len(text) + 1 \in (Len(text) + 1)..(Len(text) + Len(more))
            /\ Len(everything) \in (Len(text) + 1)..(Len(text) + Len(more))
            /\ Len(text) + 1 - Len(text) = 1 /\ Len(everything) - Len(text) = Len(more)
        BY <2>1, <3>2
      <4>2. SubSeq(everything, Len(text) + 1, Len(everything)) = SubSeq(more, 1, Len(more))
        BY <4>1, SubSeqOfConcat2 DEF Text
      <4> QED BY <4>2, SubSeqFull DEF Text
    <3> QED BY <2>1, <3>1, <3>2
  <2> QED BY <2>3, <2>4, <2>5
<1>3. Len(text) \in Nat
  BY LenProperties DEF Text
<1> QED BY <1>1, <1>2, <1>3

\* A tag at a place of a text stands there in any text that begins with it, and
\* the other way about when it ends inside.
LEMMA AtInBeginning ==
  ASSUME NEW text \in Text, NEW more \in Text, NEW tag \in Tag, NEW i \in Nat \ {0},
         i + Len(tag) - 1 <= Len(text)
  PROVE  At(tag, text \o more, i) <=> At(tag, text, i)
<1> DEFINE everything == text \o more
           n == Len(tag)
<1>1. /\ everything \in Text /\ Len(everything) = Len(text) + Len(more)
      /\ Len(text) \in Nat /\ Len(more) \in Nat
      /\ \A k \in 1..Len(text) : everything[k] = text[k]
  BY ConcatProperties, LenProperties DEF Text
<1>2. n \in Nat \ {0}
  BY LenProperties, EmptySeq DEF Text, Tag
<1>3. ASSUME NEW k \in 1..n PROVE everything[i + k - 1] = text[i + k - 1]
  <2>1. i + k - 1 \in 1..Len(text)
    BY <1>1, <1>2
  <2> QED BY <1>1, <2>1
<1>4. i + n - 1 <= Len(everything)
  BY <1>1, <1>2
<1> HIDE DEF everything
<1> QED BY <1>1, <1>3, <1>4, AtIs DEF everything

\* A text that begins with another: where a tag is found in the first, it is
\* found in the whole, and what stands before it is the same.
LEMMA FoundInBeginning ==
  ASSUME NEW text \in Text, NEW more \in Text, NEW tag \in Tag, Occurs(tag, text)
  PROVE  /\ Occurs(tag, text \o more)
         /\ Before(tag, text \o more) = Before(tag, text)
         /\ After(tag, text \o more) = After(tag, text) \o more
<1>1. PICK i \in 1..Len(text) : /\ i = First(tag, text) /\ At(tag, text, i)
                                /\ \A j \in 1..(i - 1) : ~At(tag, text, j)
  BY FirstIsFirst
<1>2. /\ text \o more \in Text /\ Len(text \o more) = Len(text) + Len(more)
      /\ Len(text) \in Nat /\ Len(more) \in Nat
      /\ \A k \in 1..Len(text) : (text \o more)[k] = text[k]
  BY ConcatProperties, LenProperties DEF Text
<1>3. Len(tag) \in Nat \ {0}
  BY LenProperties, EmptySeq DEF Text, Tag
<1>4. i \in Nat \ {0} /\ i + Len(tag) - 1 <= Len(text)
  BY <1>1, <1>2 DEF At
<1>5. At(tag, text \o more, i)
  BY <1>1, <1>4, AtInBeginning
<1>6. ASSUME NEW j \in 1..(i - 1) PROVE ~At(tag, text \o more, j)
  <2>1. j \in Nat \ {0} /\ j + Len(tag) - 1 <= Len(text)
    BY <1>3, <1>4
  <2> QED BY <1>1, <2>1, AtInBeginning
<1>7. i \in 1..Len(text \o more)
  BY <1>2
<1>8. Occurs(tag, text \o more) /\ First(tag, text \o more) = i
  BY <1>2, <1>5, <1>6, <1>7, FirstIs
<1>9. SubSeq(text \o more, 1, i - 1) = SubSeq(text, 1, i - 1)
  <2>1. CASE i = 1
    BY <2>1, SubSeqEmpty
  <2>2. CASE i > 1
    <3>1. 1 \in 1..Len(text) /\ i - 1 \in 1..Len(text)
      BY <1>2, <2>2
    <3> QED BY <3>1, SubSeqOfConcat1 DEF Text
  <2> QED BY <1>4, <2>1, <2>2
<1>10. i + Len(tag) \in 1..(Len(text) + 1)
  BY <1>2, <1>3, <1>4
<1>11. SubSeq(text \o more, i + Len(tag), Len(text \o more))
         = SubSeq(text, i + Len(tag), Len(text)) \o more
  BY <1>10, EndOfBeginning
<1> QED BY <1>1, <1>8, <1>9, <1>11 DEF Before, After


\* What is cut off behind a tag is a shorter text.
LEMMA AfterIsShorter ==
  ASSUME NEW text \in Text, NEW tag \in Tag, Occurs(tag, text)
  PROVE  /\ Before(tag, text) \in Text /\ After(tag, text) \in Text
         /\ Len(After(tag, text)) < Len(text)
<1> DEFINE n == First(tag, text) + Len(tag) - 1
<1>1. First(tag, text) \in 1..Len(text) /\ At(tag, text, First(tag, text))
  BY FirstIsFirst
<1>2. Len(tag) \in Nat \ {0} /\ Len(text) \in Nat /\ tag \in Seq(Chars)
  BY LenProperties, EmptySeq DEF Text, Tag
<1>3. Before(tag, text) \in Text /\ After(tag, text) \in Text
  BY <1>2, CutIsText DEF Text
<1>4. n \in 0..Len(text) /\ n > 0
  BY <1>1, <1>2 DEF At
<1>5. Len(SubSeq(text, n + 1, Len(text))) = Len(text) - n
  <2> HIDE DEF n
  <2> QED BY <1>4, TailOfText DEF Text
<1>6. First(tag, text) + Len(tag) = n + 1
  BY <1>1, <1>2
<1>7. Len(After(tag, text)) = Len(text) - n
  <2> HIDE DEF n
  <2> QED BY <1>5, <1>6 DEF After
<1> HIDE DEF n
<1> QED BY <1>2, <1>3, <1>4, <1>7

-----------------------------------------------------------------------------
(* strip_think, and that its recursion is well founded. *)

\* A set of numbers that has 0 and every successor has them all.
LEMMA AllNumbers ==
  ASSUME NEW S, 0 \in S, \A n \in Nat : n \in S => n + 1 \in S
  PROVE  Nat \subseteq S
<1> SUFFICES ASSUME Nat \ S # {} PROVE FALSE
  OBVIOUS
<1>1. PICK n \in Nat \ S : \A m \in Nat \ S : n <= m
  <2> DEFINE T == Nat \ S
  <2>1. T \in SUBSET Nat /\ T # {}
    OBVIOUS
  <2> HIDE DEF T
  <2>2. \E n \in T : \A m \in T : n <= m
    BY <2>1, LeastOf
  <2> QED BY <2>2 DEF T
<1>2. n - 1 \in Nat /\ n - 1 \in S
  BY <1>1
<1> QED BY <1>1, <1>2

\* The text that the recursion goes on with, and one turn of it.
Behind(text) == After(CLOSE, After(OPEN, text))
HasSpan(text) == Occurs(OPEN, text) /\ Occurs(CLOSE, After(OPEN, text))
StripTurn(f, text) ==
  IF ~Occurs(OPEN, text) THEN text
  ELSE Before(OPEN, text) \o (IF Occurs(CLOSE, After(OPEN, text)) THEN f[Behind(text)]
                              ELSE After(OPEN, text))

LEMMA BehindIsShorter ==
  ASSUME NEW text \in Text, HasSpan(text)
  PROVE  Behind(text) \in Text /\ Len(Behind(text)) < Len(text)
<1>1. After(OPEN, text) \in Text /\ Len(After(OPEN, text)) < Len(text)
  BY AfterIsShorter, TagsAreTags DEF HasSpan
<1>2. Behind(text) \in Text /\ Len(Behind(text)) < Len(After(OPEN, text))
  BY <1>1, AfterIsShorter, TagsAreTags DEF HasSpan, Behind
<1>3. Len(text) \in Nat /\ Len(After(OPEN, text)) \in Nat /\ Len(Behind(text)) \in Nat
  BY <1>1, <1>2, LenProperties DEF Text
<1> QED BY <1>1, <1>2, <1>3

LEMMA TurnIsText ==
  ASSUME NEW f \in [Text -> Text], NEW text \in Text
  PROVE  StripTurn(f, text) \in Text
<1>1. CASE ~Occurs(OPEN, text)
  BY <1>1 DEF StripTurn
<1>2. CASE Occurs(OPEN, text)
  <2>1. Before(OPEN, text) \in Text /\ After(OPEN, text) \in Text
    BY <1>2, AfterIsShorter, TagsAreTags
  <2>2. CASE HasSpan(text)
    <3>1. Behind(text) \in Text
      BY <2>2, BehindIsShorter
    <3>2. f[Behind(text)] \in Text
      BY <3>1
    <3> QED BY <1>2, <2>1, <2>2, <3>2, ConcatProperties DEF StripTurn, HasSpan, Text
  <2>3. CASE ~HasSpan(text)
    BY <1>2, <2>1, <2>3, ConcatProperties DEF StripTurn, HasSpan, Text
  <2> QED BY <2>2, <2>3
<1> QED BY <1>1, <1>2

\* A turn reads the function at a shorter text only.
LEMMA TurnReadsShorter ==
  ASSUME NEW f, NEW g, NEW text \in Text,
         \A y \in Text : Len(y) < Len(text) => f[y] = g[y]
  PROVE  StripTurn(f, text) = StripTurn(g, text)
<1>1. HasSpan(text) => f[Behind(text)] = g[Behind(text)]
  BY BehindIsShorter
<1> QED BY <1>1 DEF StripTurn, HasSpan

\* The functions that satisfy the recursion on texts shorter than n.
Good(n) == {f \in [Text -> Text] : \A x \in Text : Len(x) < n => f[x] = StripTurn(f, x)}

LEMMA GoodExists == \A n \in Nat : Good(n) # {}
<1> DEFINE S == {n \in Nat : Good(n) # {}}
<1>1. 0 \in S
  <2>1. [x \in Text |-> x] \in Good(0)
    BY LenProperties DEF Good, Text
  <2> QED BY <2>1
<1>2. ASSUME NEW n \in Nat, n \in S PROVE n + 1 \in S
  <2>1. PICK f \in [Text -> Text] : \A x \in Text : Len(x) < n => f[x] = StripTurn(f, x)
    BY <1>2 DEF Good
  <2> DEFINE g == [x \in Text |-> IF Len(x) < n THEN f[x] ELSE StripTurn(f, x)]
  <2>2. g \in [Text -> Text]
    BY TurnIsText
  <2>3. ASSUME NEW x \in Text, Len(x) < n + 1 PROVE g[x] = StripTurn(g, x)
    <3>1. g[x] = StripTurn(f, x)
      BY <2>1
    <3>2. Len(x) \in Nat /\ \A y \in Text : Len(y) \in Nat
      BY LenProperties DEF Text
    <3>3. \A y \in Text : Len(y) < Len(x) => g[y] = f[y]
      BY <2>3, <3>2
    <3> HIDE DEF g
    <3>4. StripTurn(g, x) = StripTurn(f, x)
      BY <3>3, TurnReadsShorter
    <3> QED BY <3>1, <3>4
  <2> HIDE DEF g
  <2>4. g \in Good(n + 1)
    BY <2>2, <2>3 DEF Good
  <2> QED BY <2>4
<1>3. Nat \subseteq S
  <2> HIDE DEF S
  <2> QED BY <1>1, <1>2, AllNumbers
<1> QED BY <1>3

LEMMA GoodAgree ==
  \A n \in Nat : \A f, g \in Good(n) : \A x \in Text : Len(x) < n => f[x] = g[x]
<1> DEFINE Agree(n) == \A f, g \in Good(n) : \A x \in Text : Len(x) < n => f[x] = g[x]
           S == {n \in Nat : Agree(n)}
<1>1. 0 \in S
  BY LenProperties DEF Text
<1>2. ASSUME NEW n \in Nat, n \in S PROVE n + 1 \in S
  <2> SUFFICES ASSUME NEW f \in Good(n + 1), NEW g \in Good(n + 1), NEW x \in Text,
                      Len(x) < n + 1
               PROVE  f[x] = g[x]
    OBVIOUS
  <2>1. \A y \in Text : Len(y) \in Nat
    BY LenProperties DEF Text
  <2>2. f \in Good(n) /\ g \in Good(n)
    BY <2>1 DEF Good
  <2>3. \A y \in Text : Len(y) < n => f[y] = g[y]
    BY <1>2, <2>2
  <2>4. \A y \in Text : Len(y) < Len(x) => f[y] = g[y]
    BY <2>1, <2>3
  <2>5. StripTurn(f, x) = StripTurn(g, x)
    BY <2>4, TurnReadsShorter
  <2> QED BY <2>5 DEF Good
<1>3. Nat \subseteq S
  <2> HIDE DEF S
  <2> QED BY <1>1, <1>2, AllNumbers
<1> QED BY <1>3

\* strip_think is the function its recursion says.
LEMMA StrippedIs == Stripped \in [Text -> Text] /\ \A x \in Text : Stripped[x] = StripTurn(Stripped, x)
<1> DEFINE Of(x) == CHOOSE f \in Good(Len(x) + 1) : TRUE
           g == [x \in Text |-> Of(x)[x]]
<1>1. \A x \in Text : Len(x) \in Nat
  BY LenProperties DEF Text
<1>2. \A x \in Text : Of(x) \in Good(Len(x) + 1)
  <2>1. \A x \in Text : Len(x) + 1 \in Nat
    BY <1>1
  <2>2. \A x \in Text : Good(Len(x) + 1) # {}
    BY <2>1, GoodExists
  <2> QED BY <2>2
<1> HIDE DEF Of
<1>3. g \in [Text -> Text]
  BY <1>2 DEF Good
<1>4. ASSUME NEW x \in Text PROVE g[x] = StripTurn(g, x)
  <2>1. g[x] = Of(x)[x] /\ Of(x)[x] = StripTurn(Of(x), x)
    BY <1>1, <1>2 DEF Good
  <2>2. ASSUME NEW y \in Text, Len(y) < Len(x) PROVE Of(x)[y] = g[y]
    <3>1. Of(x) \in Good(Len(y) + 1)
      BY <1>1, <1>2, <2>2 DEF Good
    <3>2. Of(y) \in Good(Len(y) + 1) /\ Len(y) + 1 \in Nat /\ Len(y) < Len(y) + 1
      BY <1>1, <1>2
    <3>3. Of(x)[y] = Of(y)[y]
      BY <3>1, <3>2, GoodAgree
    <3> QED BY <3>3
  <2> HIDE DEF g
  <2>3. StripTurn(Of(x), x) = StripTurn(g, x)
    BY <2>2, TurnReadsShorter
  <2> QED BY <2>1, <2>3
<1> HIDE DEF g
<1>5. g = [x \in Text |-> StripTurn(g, x)]
  BY <1>3, <1>4
<1>6. Stripped = [x \in Text |-> StripTurn(Stripped, x)]
  <2>1. Stripped = CHOOSE f : f = [x \in Text |-> StripTurn(f, x)]
    BY Zenon DEF Stripped, StripTurn, Behind, Text
  <2> QED BY <1>5, <2>1
<1>7. DOMAIN Stripped = Text
  BY <1>6
<1>8. \A x \in Text : Stripped[x] = StripTurn(Stripped, x)
  BY <1>6
<1>9. Stripped = g
  <2> DEFINE S == {n \in Nat : \A x \in Text : Len(x) < n => Stripped[x] = g[x]}
  <2>1. 0 \in S
    BY <1>1
  <2>2. ASSUME NEW n \in Nat, n \in S PROVE n + 1 \in S
    <3> SUFFICES ASSUME NEW x \in Text, Len(x) < n + 1 PROVE Stripped[x] = g[x]
      OBVIOUS
    <3>1. \A y \in Text : Len(y) < Len(x) => Stripped[y] = g[y]
      BY <1>1, <2>2
    <3>2. StripTurn(Stripped, x) = StripTurn(g, x)
      BY <3>1, TurnReadsShorter
    <3> QED BY <1>4, <1>8, <3>2
  <2>3. Nat \subseteq S
    <3> HIDE DEF S
    <3> QED BY <2>1, <2>2, AllNumbers
  <2>4. \A x \in Text : Len(x) + 1 \in Nat /\ Len(x) < Len(x) + 1
    BY <1>1
  <2>5. \A x \in Text : Stripped[x] = g[x]
    BY <2>3, <2>4
  <2> QED BY <1>3, <1>6, <1>7, <2>5
<1> QED BY <1>3, <1>8, <1>9

LEMMA Joined == \A a, b \in Text : a \o b \in Text
  BY ConcatProperties DEF Text

FromLeft(a, b, c) == (a \o b) \o c
FromRight(a, b, c) == a \o (b \o c)

LEMMA JoinedThrice == \A a, b, c \in Text : FromLeft(a, b, c) = FromRight(a, b, c)
  BY ConcatAssociative DEF Text, FromLeft, FromRight

-----------------------------------------------------------------------------
(* A text in which no opening tag begins before some place: strip_think leaves *)
(* what precedes that place, and goes on behind it.                            *)

\* strip_think of a text, and of one that begins inside a span.
Inside(text) == IF Occurs(CLOSE, text) THEN StripThink(After(CLOSE, text)) ELSE text
Rest(in_think, text) == IF in_think THEN Inside(text) ELSE StripThink(text)

LEMMA StripIs ==
  ASSUME NEW text \in Text
  PROVE  /\ StripThink(text) \in Text
         /\ StripThink(text) = IF Occurs(OPEN, text)
                                 THEN Before(OPEN, text) \o Inside(After(OPEN, text))
                                 ELSE text
<1>1. Stripped[text] \in Text /\ Stripped[text] = StripTurn(Stripped, text)
  BY StrippedIs
<1> QED BY <1>1 DEF StripThink, StripTurn, Inside, Behind

LEMMA InsideIsText ==
  ASSUME NEW text \in Text
  PROVE  Inside(text) \in Text
<1>1. CASE Occurs(CLOSE, text)
  <2>1. After(CLOSE, text) \in Text
    BY <1>1, AfterIsShorter, TagsAreTags
  <2> QED BY <1>1, <2>1, StripIs DEF Inside
<1>2. CASE ~Occurs(CLOSE, text)
  BY <1>2 DEF Inside
<1> QED BY <1>1, <1>2

\* What a place behind the first part of a joined text has.
LEMMA Shift ==
  ASSUME NEW f, NEW g, NEW p \in Nat, NEW n \in Nat,
         \A k \in 1..(p + n) : ~(k <= p) => f[k] = g[k - p],
         NEW k \in 1..n
  PROVE  f[p + k] = g[k]
<1>1. PICK j \in 1..(p + n) : j = p + k
  OBVIOUS
<1>2. ~(j <= p) /\ j - p = k
  BY <1>1
<1>3. f[j] = g[j - p]
  BY <1>2
<1> QED BY <1>1, <1>2, <1>3

\* Two texts joined, character by character.
LEMMA WholeIs ==
  ASSUME NEW text \in Text, NEW more \in Text
  PROVE  /\ text \o more \in Text /\ Len(text \o more) = Len(text) + Len(more)
         /\ Len(text) \in Nat /\ Len(more) \in Nat
         /\ \A k \in 1..Len(text) : (text \o more)[k] = text[k]
         /\ \A k \in 1..Len(more) : (text \o more)[Len(text) + k] = more[k]
<1> DEFINE everything == text \o more
           p == Len(text)
<1>1. /\ everything \in Seq(Chars) /\ Len(everything) = p + Len(more)
      /\ \A k \in 1..Len(everything) : everything[k] = IF k <= p THEN text[k] ELSE more[k - p]
  BY ConcatProperties DEF Text
<1>2. p \in Nat /\ Len(more) \in Nat
  BY LenProperties DEF Text
<1> HIDE DEF everything, p
<1>3. ASSUME NEW k \in 1..Len(more) PROVE everything[p + k] = more[k]
  <2>1. \A j \in 1..(p + Len(more)) : ~(j <= p) => everything[j] = more[j - p]
    BY <1>1
  <2> QED BY <1>2, <2>1, Shift
<1>4. ASSUME NEW k \in 1..p PROVE everything[k] = text[k]
  <2>1. k \in 1..Len(everything) /\ k <= p
    BY <1>1, <1>2
  <2> QED BY <1>1, <2>1
<1> QED BY <1>1, <1>2, <1>3, <1>4 DEF Text, everything, p

LEMMA BeginningOfWhole ==
  ASSUME NEW text \in Text, NEW more \in Text, NEW n \in 0..Len(more)
  PROVE  SubSeq(text \o more, 1, Len(text) + n) = text \o SubSeq(more, 1, n)
<1> DEFINE everything == text \o more
           p == Len(text)
           part == SubSeq(everything, 1, p + n)
           beginning == SubSeq(more, 1, n)
           joined == text \o beginning
<1>1. /\ everything \in Text /\ Len(everything) = p + Len(more) /\ p \in Nat /\ Len(more) \in Nat
      /\ \A k \in 1..p : everything[k] = text[k]
      /\ \A k \in 1..Len(more) : everything[p + k] = more[k]
  BY WholeIs
<1>2. \A k \in 1..n : more[k] \in Chars
  BY ElementOfSeq, LenProperties DEF Text
<1>3. beginning \in Text /\ Len(beginning) = n /\ \A k \in 1..n : beginning[k] = more[k]
  BY <1>1, <1>2, SubSeqProperties DEF Text
<1>4. p + n \in 0..Len(everything) /\ p + n \in Nat
  <2> HIDE DEF everything, p
  <2> QED BY <1>1
<1>5. \A k \in 1..(p + n) : everything[k] \in Chars
  BY <1>1, <1>4, ElementOfSeq DEF Text
<1>6. part \in Seq(Chars) /\ Len(part) = p + n /\ \A k \in 1..(p + n) : part[k] = everything[k]
  <2> HIDE DEF everything, p
  <2> QED BY <1>1, <1>4, <1>5, SubSeqProperties
<1>7. /\ joined \in Text /\ Len(joined) = p + n
      /\ \A k \in 1..p : joined[k] = text[k]
      /\ \A k \in 1..n : joined[p + k] = beginning[k]
  <2>1. beginning \in Text /\ Len(beginning) = n
    BY <1>3
  <2> HIDE DEF beginning
  <2> QED BY <2>1, WholeIs
<1> HIDE DEF everything, p, part, beginning, joined
<1>8. ASSUME NEW k \in 1..(p + n) PROVE part[k] = joined[k]
  <2>1. CASE k <= p
    <3>1. k \in 1..p
      BY <1>1, <2>1
    <3> QED BY <1>1, <1>6, <1>7, <3>1
  <2>2. CASE ~(k <= p)
    <3>1. PICK j \in 1..n : k = p + j
      <4>1. k - p \in 1..n /\ k = p + (k - p)
        BY <1>1, <2>2
      <4> QED BY <4>1
    <3>2. j \in 1..Len(more)
      BY <1>1
    <3> QED BY <1>1, <1>3, <1>6, <1>7, <3>1, <3>2
  <2> QED BY <2>1, <2>2
<1> QED BY <1>6, <1>7, <1>8, SeqEqual DEF Text, everything, p, part, beginning, joined

LEMMA EndOfWhole ==
  ASSUME NEW text \in Text, NEW more \in Text, NEW m \in 1..(Len(more) + 1)
  PROVE  SubSeq(text \o more, Len(text) + m, Len(text \o more)) = SubSeq(more, m, Len(more))
<1> DEFINE everything == text \o more
           p == Len(text)
           n == Len(everything)
<1>1. n = p + Len(more) /\ p \in Nat /\ Len(more) \in Nat
  BY WholeIs
<1>2. CASE m = Len(more) + 1
  <2>1. /\ Len(more) \in Int /\ m \in Int /\ Len(more) < m
        /\ p + m \in Int /\ n \in Int /\ n < p + m
    <3> HIDE DEF everything, p, n
    <3> QED BY <1>1, <1>2
  <2>2. SubSeq(more, m, Len(more)) = <<>> /\ SubSeq(everything, p + m, n) = <<>>
    <3> HIDE DEF everything, p, n
    <3> QED BY <2>1, SubSeqEmpty
  <2> QED BY <2>2
<1>3. CASE m # Len(more) + 1
  <2>1. /\ p + m \in (p + 1)..(p + Len(more)) /\ n \in (p + 1)..(p + Len(more))
        /\ p + m - p = m /\ n - p = Len(more)
    <3> HIDE DEF everything, p, n
    <3> QED BY <1>1, <1>3
  <2>2. SubSeq(everything, p + m, n) = SubSeq(more, p + m - p, n - p)
    <3> HIDE DEF n
    <3> QED BY <2>1, SubSeqOfConcat2 DEF Text
  <2> HIDE DEF everything, p, n
  <2>3. SubSeq(everything, p + m, n) = SubSeq(more, m, Len(more))
    BY <2>1, <2>2
  <2> QED BY <2>3 DEF everything, p, n
<1> QED BY <1>2, <1>3

\* A tag behind the first part of a text.
LEMMA AtInEnd ==
  ASSUME NEW text \in Text, NEW more \in Text, NEW tag \in Tag, NEW i \in Nat \ {0}
  PROVE  At(tag, text \o more, Len(text) + i) <=> At(tag, more, i)
<1> DEFINE everything == text \o more
           p == Len(text)
<1>1. /\ everything \in Text /\ Len(everything) = p + Len(more) /\ p \in Nat /\ Len(more) \in Nat
      /\ \A k \in 1..Len(more) : everything[p + k] = more[k]
  BY WholeIs
<1>2. Len(tag) \in Nat \ {0}
  BY LenProperties, EmptySeq DEF Text, Tag
<1>3. p + i \in Nat \ {0}
  BY <1>1
<1> HIDE DEF everything, p
<1>4. At(tag, everything, p + i) <=> /\ p + i + Len(tag) - 1 <= Len(everything)
                                /\ \A k \in 1..Len(tag) : everything[p + i + k - 1] = tag[k]
  BY <1>1, <1>3, AtIs
<1>5. At(tag, more, i) <=> /\ i + Len(tag) - 1 <= Len(more)
                           /\ \A k \in 1..Len(tag) : more[i + k - 1] = tag[k]
  BY AtIs
<1>6. p + i + Len(tag) - 1 <= Len(everything) <=> i + Len(tag) - 1 <= Len(more)
  BY <1>1, <1>2
<1>7. ASSUME i + Len(tag) - 1 <= Len(more), NEW k \in 1..Len(tag)
      PROVE  everything[p + i + k - 1] = more[i + k - 1]
  <2>1. i + k - 1 \in 1..Len(more) /\ p + i + k - 1 = p + (i + k - 1)
    BY <1>1, <1>2, <1>7
  <2> QED BY <1>1, <2>1
<1> QED BY <1>4, <1>5, <1>6, <1>7 DEF everything, p

LEMMA StripBehind ==
  ASSUME NEW text \in Text, NEW more \in Text,
         \A i \in 1..Len(text) : ~At(OPEN, text \o more, i)
  PROVE  StripThink(text \o more) = text \o StripThink(more)
<1> DEFINE everything == text \o more
           p == Len(text)
<1>1. /\ everything \in Text /\ Len(everything) = p + Len(more) /\ p \in Nat /\ Len(more) \in Nat
      /\ DOMAIN everything = 1..Len(everything) /\ DOMAIN more = 1..Len(more)
  BY ConcatProperties, LenProperties DEF Text
<1>2. \A i \in Nat \ {0} : At(OPEN, everything, p + i) <=> At(OPEN, more, i)
  BY AtInEnd, TagsAreTags
<1>3. CASE ~Occurs(OPEN, more)
  <2>1. ~Occurs(OPEN, everything)
    <3> SUFFICES ASSUME NEW j \in 1..Len(everything), At(OPEN, everything, j) PROVE FALSE
      BY <1>1 DEF Occurs
    <3>1. ~(j <= p)
      BY <1>1
    <3> HIDE DEF everything, p
    <3>2. j - p \in 1..Len(more) /\ p + (j - p) = j
      BY <1>1, <3>1
    <3>3. At(OPEN, more, j - p)
      BY <1>2, <3>2
    <3> QED BY <1>1, <1>3, <3>2, <3>3 DEF Occurs
  <2> QED BY <1>1, <1>3, <2>1, StripIs
<1>4. CASE Occurs(OPEN, more)
  <2>1. PICK i \in 1..Len(more) : /\ i = First(OPEN, more) /\ At(OPEN, more, i)
                                  /\ \A j \in 1..(i - 1) : ~At(OPEN, more, j)
    BY <1>4, FirstIsFirst, TagsAreTags
  <2>2. At(OPEN, everything, p + i)
    BY <1>2, <2>1
  <2>3. ASSUME NEW j \in 1..(p + i - 1) PROVE ~At(OPEN, everything, j)
    <3>1. CASE j <= p
      BY <1>1, <3>1
    <3>2. CASE ~(j <= p)
      <4> HIDE DEF everything, p
      <4>1. j - p \in 1..(i - 1) /\ p + (j - p) = j /\ j - p \in Nat \ {0}
        BY <1>1, <3>2
      <4> QED BY <1>2, <2>1, <4>1
    <3> QED BY <3>1, <3>2
  <2>4. p + i \in 1..Len(everything)
    <3> HIDE DEF everything, p
    <3> QED BY <1>1
  <2>5. Occurs(OPEN, everything) /\ First(OPEN, everything) = p + i
    <3> HIDE DEF everything, p
    <3> QED BY <1>1, <2>2, <2>3, <2>4, FirstIs, TagsAreTags
  <2>6. Len(OPEN) \in Nat \ {0}
    BY TagsAreTags, LenProperties, EmptySeq DEF Text, Tag
  <2>7. i + Len(OPEN) - 1 <= Len(more)
    BY <2>1 DEF At
  <2>8. SubSeq(everything, 1, p + i - 1) = text \o SubSeq(more, 1, i - 1)
    <3>1. i - 1 \in 0..Len(more) /\ p + i - 1 = p + (i - 1)
      <4> HIDE DEF everything, p
      <4> QED BY <1>1
    <3>2. SubSeq(everything, 1, p + (i - 1)) = text \o SubSeq(more, 1, i - 1)
      BY <3>1, BeginningOfWhole
    <3> HIDE DEF everything, p
    <3> QED BY <3>1, <3>2
  <2>9. SubSeq(everything, p + i + Len(OPEN), Len(everything)) = SubSeq(more, i + Len(OPEN), Len(more))
    <3>1. i + Len(OPEN) \in 1..(Len(more) + 1) /\ p + (i + Len(OPEN)) = p + i + Len(OPEN)
      <4> HIDE DEF everything, p
      <4> QED BY <1>1, <2>6, <2>7
    <3>2. SubSeq(everything, p + (i + Len(OPEN)), Len(everything)) = SubSeq(more, i + Len(OPEN), Len(more))
      BY <3>1, EndOfWhole
    <3> HIDE DEF everything, p
    <3> QED BY <3>1, <3>2
  <2>10. /\ Before(OPEN, everything) = text \o Before(OPEN, more)
         /\ After(OPEN, everything) = After(OPEN, more)
    <3>1. First(OPEN, everything) - 1 = p + i - 1 /\ First(OPEN, more) = i
      BY <2>1, <2>5
    <3>2. First(OPEN, everything) + Len(OPEN) = p + i + Len(OPEN)
      BY <2>5
    <3> HIDE DEF everything, p
    <3> QED BY <2>8, <2>9, <3>1, <3>2 DEF Before, After
  <2>11. Before(OPEN, more) \in Text /\ Inside(After(OPEN, more)) \in Text
    BY <1>4, AfterIsShorter, TagsAreTags, InsideIsText
  <2>12. (text \o Before(OPEN, more)) \o Inside(After(OPEN, more))
           = text \o (Before(OPEN, more) \o Inside(After(OPEN, more)))
    BY <2>11, Joined
  <2> QED BY <1>1, <1>4, <2>5, <2>10, <2>12, StripIs
<1> QED BY <1>3, <1>4

\* A text cut in two.
LEMMA CutAndJoined ==
  ASSUME NEW text \in Text, NEW n \in 0..Len(text)
  PROVE  /\ SubSeq(text, 1, n) \in Text /\ SubSeq(text, n + 1, Len(text)) \in Text
         /\ Len(SubSeq(text, 1, n)) = n
         /\ text = SubSeq(text, 1, n) \o SubSeq(text, n + 1, Len(text))
<1> DEFINE a == SubSeq(text, 1, n)
           b == SubSeq(text, n + 1, Len(text))
<1>1. /\ a \in Text /\ b \in Text /\ Len(b) = Len(text) - n
      /\ \A k \in 1..(Len(text) - n) : b[k] = text[n + k]
      /\ Len(text) \in Nat
  BY TailOfText, LenProperties DEF Text
<1>2. Len(a) = n /\ \A k \in 1..n : a[k] = text[k]
  <2>1. \A k \in 1..n : text[k] \in Chars
    BY <1>1, ElementOfSeq DEF Text
  <2> QED BY <2>1, SubSeqProperties
<1> HIDE DEF a, b
<1>3. /\ a \o b \in Text /\ Len(a \o b) = Len(text)
      /\ \A k \in 1..n : (a \o b)[k] = a[k]
      /\ \A k \in 1..Len(b) : (a \o b)[n + k] = b[k]
  <2>1. /\ a \o b \in Text /\ Len(a \o b) = Len(a) + Len(b)
        /\ \A k \in 1..Len(a) : (a \o b)[k] = a[k]
        /\ \A k \in 1..Len(b) : (a \o b)[Len(a) + k] = b[k]
    BY <1>1, WholeIs
  <2>2. n + (Len(text) - n) = Len(text)
    BY <1>1
  <2> QED BY <1>1, <1>2, <2>1, <2>2
<1>4. ASSUME NEW k \in 1..Len(text) PROVE (a \o b)[k] = text[k]
  <2>1. CASE k <= n
    BY <1>2, <1>3, <2>1
  <2>2. CASE ~(k <= n)
    <3>1. PICK j \in 1..Len(b) : k = n + j
      <4>1. k - n \in 1..Len(b) /\ k = n + (k - n)
        BY <1>1, <2>2
      <4> QED BY <4>1, Zenon
    <3> QED BY <1>1, <1>3, <3>1
  <2> QED BY <2>1, <2>2
<1>5. a \o b = text
  BY <1>3, <1>4, SeqEqual DEF Text
<1> QED BY <1>1, <1>2, <1>5 DEF a, b

\* A text of characters that take one byte each.
LEMMA NarrowBytes ==
  ASSUME NEW text \in Text, \A i \in 1..Len(text) : text[i] \notin Wide
  PROVE  Bytes(text) = Len(text)
<1>1. DOMAIN text = 1..Len(text) /\ Len(text) \in Nat
  BY LenProperties DEF Text
<1>2. {i \in DOMAIN text : text[i] \in Wide} = {}
  BY <1>1
<1>3. Cardinality({}) = 0
  BY FS_EmptySet
<1>4. Bytes(text) = Len(text) + 0
  BY <1>2, <1>3, Zenon DEF Bytes
<1> QED BY <1>1, <1>4

\* emit_safe_prefix releases nothing in which an opening tag has begun, however
\* the text goes on: the part of the tag that has arrived is short enough to be
\* held.
LEMMA PrefixIsSafe ==
  ASSUME NEW buf \in Text, NEW z \in Text, ~Occurs(OPEN, buf),
         NEW i \in 1..HoldbackStart(buf)
  PROVE  ~At(OPEN, buf \o z, i)
<1> SUFFICES ASSUME At(OPEN, buf \o z, i) PROVE FALSE
  OBVIOUS
<1> DEFINE everything == buf \o z
           tail == SubSeq(buf, (i - 1) + 1, Len(buf))
<1>1. /\ everything \in Text /\ Len(everything) = Len(buf) + Len(z) /\ Len(buf) \in Nat /\ Len(z) \in Nat
      /\ \A k \in 1..Len(buf) : everything[k] = buf[k]
  BY WholeIs
<1>2. /\ OPEN \in Tag /\ Len(OPEN) \in Nat \ {0} /\ Len(CLOSE) \in Nat
      /\ Len(OPEN) <= HOLDBACK /\ HOLDBACK \in Nat
      /\ \A k \in 1..Len(OPEN) : OPEN[k] \notin Wide
  <2>1. OPEN \in Tag /\ Len(OPEN) \in Nat \ {0} /\ Len(CLOSE) \in Nat
    BY TagsAreTags, LenProperties, EmptySeq DEF Tag, Text
  <2>2. OPEN \in Seq(Chars \ Wide)
    BY ThinkAssumption
  <2>3. \A k \in 1..Len(OPEN) : OPEN[k] \in Chars \ Wide
    BY <2>2, ElementOfSeq
  <2> QED BY <2>1, <2>3, ThinkAssumption
<1>3. HoldbackStart(buf) \in 0..Len(buf) /\ i \in 1..Len(buf) /\ i \in Nat \ {0}
  BY <1>1, HoldbackIsSmall DEF Text
<1>4. Bytes(tail) > HOLDBACK
  <2>1. i - 1 \in 0..(HoldbackStart(buf) - 1)
    BY <1>3
  <2>2. \A m \in 0..(HoldbackStart(buf) - 1) : Bytes(SubSeq(buf, m + 1, Len(buf))) > HOLDBACK
    BY HoldbackIsSmall DEF Text
  <2> QED BY <2>1, <2>2
<1>5. CASE i + Len(OPEN) - 1 <= Len(buf)
  <2>1. At(OPEN, buf, i)
    BY <1>2, <1>3, <1>5, AtInBeginning
  <2>2. DOMAIN buf = 1..Len(buf)
    BY LenProperties DEF Text
  <2> QED BY <1>3, <2>1, <2>2 DEF Occurs
<1>6. CASE ~(i + Len(OPEN) - 1 <= Len(buf))
  <2>1. \A k \in 1..Len(OPEN) : everything[i + k - 1] = OPEN[k]
    BY <1>1, <1>2, <1>3, AtIs
  <2>2. i - 1 \in 0..Len(buf)
    BY <1>1, <1>3
  <2>3. /\ tail \in Text /\ Len(tail) = Len(buf) - (i - 1)
        /\ \A k \in 1..(Len(buf) - (i - 1)) : tail[k] = buf[(i - 1) + k]
    BY <2>2, TailOfText DEF Text
  <2> HIDE DEF everything, tail
  <2>4. ASSUME NEW k \in 1..Len(tail) PROVE tail[k] \notin Wide
    <3>1. k \in 1..Len(OPEN) /\ i + k - 1 \in 1..Len(buf) /\ (i - 1) + k = i + k - 1
      BY <1>1, <1>2, <1>3, <1>6, <2>3
    <3> QED BY <1>1, <1>2, <2>1, <2>3, <3>1
  <2>5. Bytes(tail) = Len(tail)
    BY <2>3, <2>4, NarrowBytes
  <2>6. Len(tail) < Len(OPEN)
    BY <1>1, <1>2, <1>3, <1>6, <2>3
  <2> QED BY <1>1, <1>2, <1>3, <1>4, <2>3, <2>5, <2>6
<1> QED BY <1>5, <1>6

-----------------------------------------------------------------------------
(* What is seen of a stripper when the text goes on with z and nothing is      *)
(* given up: what it has shown, and what strip_think leaves of the rest. A     *)
(* push and a turn of its loop do not change it.                               *)

Strippers == [buf : Text, in_think : BOOLEAN, out : Text, going : BOOLEAN]

Sees(st, z) == st.out \o Rest(st.in_think, st.buf \o z)

LEMMA Nothing == <<>> \in Text /\ \A x \in Text : x \o <<>> = x /\ <<>> \o x = x
  BY ConcatEmptySeq, EmptySeq DEF Text

LEMMA RestIsText ==
  ASSUME NEW in_think, NEW text \in Text
  PROVE  Rest(in_think, text) \in Text
BY StripIs, InsideIsText DEF Rest

LEMMA TakeSees ==
  ASSUME NEW st \in Strippers, NEW chunk \in Text, NEW z \in Text
  PROVE  Sees(Take(st, chunk), z) = Sees(st, chunk \o z)
<1>1. PICK buf \in Text : buf = st.buf
  BY DEF Strippers
<1>2. (buf \o chunk) \o z = buf \o (chunk \o z)
  <2>1. FromLeft(buf, chunk, z) = FromRight(buf, chunk, z)
    BY JoinedThrice
  <2> QED BY <2>1, Zenon DEF FromLeft, FromRight
<1>3. /\ Take(st, chunk).buf = buf \o chunk /\ Take(st, chunk).out = st.out
      /\ Take(st, chunk).in_think = st.in_think
  BY <1>1 DEF Take, Strippers
<1> QED BY <1>1, <1>2, <1>3, Zenon DEF Sees

LEMMA ScanSees ==
  ASSUME NEW st \in Strippers, st.going, ~GivesUp(st), NEW z \in Text
  PROVE  Sees(Scan(st), z) = Sees(st, z)
<1>1. PICK buf \in Text, out \in Text : buf = st.buf /\ out = st.out
  BY DEF Strippers
<1>2. CASE st.in_think /\ Occurs(CLOSE, buf)
  <2>1. /\ Scan(st).buf = After(CLOSE, buf) /\ ~Scan(st).in_think /\ Scan(st).out = out
    BY <1>1, <1>2 DEF Strippers, Scan, CloseSpan
  <2>2. Inside(buf \o z) = StripThink(After(CLOSE, buf) \o z)
    BY <1>2, FoundInBeginning, TagsAreTags DEF Inside
  <2> QED BY <1>1, <1>2, <2>1, <2>2 DEF Sees, Rest
<1>3. CASE st.in_think /\ ~Occurs(CLOSE, buf)
  BY <1>1, <1>3 DEF Strippers, Scan, GivesUp, Sees
<1>4. CASE ~st.in_think /\ Occurs(OPEN, buf)
  <2>1. PICK before, after : before = Before(OPEN, buf) /\ after = After(OPEN, buf)
    OBVIOUS
  <2>2. before \in Text /\ after \in Text
    BY <1>4, <2>1, AfterIsShorter, TagsAreTags
  <2>3. /\ Scan(st).buf = after /\ Scan(st).in_think /\ Scan(st).out = out \o before
    BY <1>1, <1>4, <2>1 DEF Strippers, Scan, GivesUp, OpenSpan
  <2>4. /\ buf \o z \in Text /\ Occurs(OPEN, buf \o z)
        /\ Before(OPEN, buf \o z) = before /\ After(OPEN, buf \o z) = after \o z
    BY <1>4, <2>1, FoundInBeginning, TagsAreTags, Joined
  <2>5. Inside(after \o z) \in Text
    BY <2>2, Joined, InsideIsText
  <2>6. (out \o before) \o Inside(after \o z) = out \o (before \o Inside(after \o z))
    <3>1. FromLeft(out, before, Inside(after \o z)) = FromRight(out, before, Inside(after \o z))
      BY <2>2, <2>5, JoinedThrice
    <3> QED BY <3>1, Zenon DEF FromLeft, FromRight
  <2>7. StripThink(buf \o z) = before \o Inside(after \o z)
    BY <2>4, StripIs
  <2> QED BY <1>1, <1>4, <2>3, <2>6, <2>7 DEF Sees, Rest
<1>5. CASE ~st.in_think /\ ~Occurs(OPEN, buf)
  <2>1. PICK keep, safe, held : /\ keep = HoldbackStart(buf) /\ safe = SubSeq(buf, 1, keep)
                                /\ held = SubSeq(buf, keep + 1, Len(buf))
    OBVIOUS
  <2>2. keep \in 0..Len(buf)
    BY <2>1, HoldbackIsSmall DEF Text
  <2>3. safe \in Text /\ held \in Text /\ Len(safe) = keep /\ buf = safe \o held
    BY <2>1, <2>2, CutAndJoined
  <2>4. /\ Scan(st).buf = held /\ ~Scan(st).in_think /\ Scan(st).out = out \o safe
    BY <1>1, <1>5, <2>1 DEF Strippers, Scan, GivesUp, EmitSafePrefix
  <2>5. held \o z \in Text /\ (safe \o held) \o z = safe \o (held \o z)
    <3>1. held \o z \in Text
      BY <2>3, Joined
    <3>2. FromLeft(safe, held, z) = FromRight(safe, held, z)
      BY <2>3, JoinedThrice
    <3> QED BY <3>1, <3>2, Zenon DEF FromLeft, FromRight
  <2>6. \A i \in 1..Len(safe) : ~At(OPEN, safe \o (held \o z), i)
    <3>1. \A i \in 1..keep : ~At(OPEN, buf \o z, i)
      BY <1>5, <2>1, PrefixIsSafe
    <3> QED BY <2>3, <2>5, <3>1
  <2>7. StripThink(safe \o (held \o z)) = safe \o StripThink(held \o z)
    BY <2>3, <2>5, <2>6, StripBehind
  <2>8. StripThink(held \o z) \in Text
    BY <2>5, StripIs
  <2>9. (out \o safe) \o StripThink(held \o z) = out \o (safe \o StripThink(held \o z))
    <3>1. PICK rest \in Text : rest = StripThink(held \o z)
      BY <2>8
    <3>2. FromLeft(out, safe, rest) = FromRight(out, safe, rest)
      BY <2>3, JoinedThrice
    <3> QED BY <3>1, <3>2, Zenon DEF FromLeft, FromRight
  <2>10. StripThink(buf \o z) = safe \o StripThink(held \o z)
    BY <2>3, <2>5, <2>7, Zenon
  <2>11. Sees(Scan(st), z) = (out \o safe) \o StripThink(held \o z)
    BY <2>4, Zenon DEF Sees, Rest
  <2>12. Sees(st, z) = out \o StripThink(buf \o z)
    BY <1>1, <1>5, Zenon DEF Sees, Rest
  <2> QED BY <2>9, <2>10, <2>11, <2>12, Zenon
<1> QED BY <1>2, <1>3, <1>4, <1>5

\* What is held without a tag is seen as it is when nothing more comes.
LEMMA HeldIsSeen ==
  ASSUME NEW st \in Strippers, IF st.in_think THEN ~Occurs(CLOSE, st.buf) ELSE ~Occurs(OPEN, st.buf)
  PROVE  Sees(st, <<>>) = st.out \o st.buf
<1>1. st.buf \in Text /\ st.buf \o <<>> = st.buf
  BY Nothing DEF Strippers
<1>2. Rest(st.in_think, st.buf) = st.buf
  BY <1>1, StripIs DEF Rest, Inside
<1> QED BY <1>1, <1>2 DEF Sees

-----------------------------------------------------------------------------
(* What is seen of the stripper is strip_think of the text that was fed.       *)

Shows == \A z \in Text : Sees(stripper, z) = expected \o StripThink(fed \o z)

StreamInv ==
  /\ IInv /\ fed \in Text /\ expected \in Text
  /\ ~over => Shows
  /\ StreamIsStrip

LEMMA StreamInit == FeedInit => StreamInv
<1> SUFFICES ASSUME FeedInit PROVE StreamInv
  OBVIOUS
<1>1. IInv
  BY InitInv
<1>2. Shows
  <2>1. \A z \in Text : StripThink(z) \in Text
    BY StripIs
  <2> QED BY <2>1, Nothing DEF FeedInit, Fresh, Shows, Sees, Rest
<1> QED BY <1>1, <1>2, Nothing DEF FeedInit, StreamInv, StreamIsStrip

\* What is held without a tag ends the text.
LEMMA HeldIsShown ==
  ASSUME Shows, stripper \in Strippers, fed \in Text,
         IF stripper.in_think THEN ~Occurs(CLOSE, stripper.buf) ELSE ~Occurs(OPEN, stripper.buf)
  PROVE  stripper.out \o stripper.buf = expected \o StripThink(fed)
<1>1. Sees(stripper, <<>>) = expected \o StripThink(fed \o <<>>)
  BY Nothing DEF Shows
<1>2. fed \o <<>> = fed
  BY Nothing
<1> QED BY <1>1, <1>2, HeldIsSeen

LEMMA StreamFeed ==
  ASSUME StreamInv, NEW chunk \in Chunks, Feed(chunk)
  PROVE  fed' \in Text /\ Shows'
<1>1. Shows /\ stripper \in Strippers
  BY DEF StreamInv, Feed, IInv, StripperOK, Strippers, Text
<1>2. chunk \in Text /\ fed \in Text
  BY ChunksAssumption DEF StreamInv, Text
<1>3. stripper' = Take(stripper, chunk) /\ fed' = fed \o chunk /\ expected' = expected
  BY DEF Feed
<1>4. ASSUME NEW z \in Text
      PROVE  Sees(stripper', z) = expected \o StripThink((fed \o chunk) \o z)
  <2>1. chunk \o z \in Text
    BY <1>2, Joined
  <2>2. (fed \o chunk) \o z = fed \o (chunk \o z)
    <3>1. PICK a \in Text, b \in Text : a = fed /\ b = chunk
      BY <1>2
    <3>2. FromLeft(a, b, z) = FromRight(a, b, z)
      BY JoinedThrice
    <3> QED BY <3>1, <3>2, Zenon DEF FromLeft, FromRight
  <2>3. Sees(Take(stripper, chunk), z) = Sees(stripper, chunk \o z)
    BY <1>1, <1>2, TakeSees
  <2> QED BY <1>1, <1>3, <2>1, <2>2, <2>3 DEF Shows
<1>5. Shows'
  BY <1>3, <1>4 DEF Shows, Sees, Rest, Inside
<1> QED BY <1>2, <1>3, <1>5, Joined

LEMMA StreamIterate ==
  ASSUME StreamInv, Iterate
  PROVE  fed' \in Text /\ expected' \in Text /\ Shows'
<1>1. ~over /\ stripper.going /\ stripper' = Scan(stripper)
  BY DEF StreamInv, IInv, StripperOK, Fresh, Iterate
<1>2. /\ fed \in Text /\ expected \in Text /\ stripper \in Strippers /\ Shows
  BY <1>1 DEF StreamInv, IInv, StripperOK, Strippers, Text
<1>3. CASE ~GivesUp(stripper)
  <2>1. fed' = fed /\ expected' = expected
    BY <1>3 DEF Iterate
  <2>2. \A z \in Text : Sees(stripper', z) = Sees(stripper, z)
    BY <1>1, <1>2, <1>3, ScanSees
  <2>3. Shows'
    BY <1>2, <2>1, <2>2 DEF Shows, Sees, Rest, Inside
  <2> QED BY <1>2, <2>1, <2>3
<1>4. CASE GivesUp(stripper)
  <2>1. /\ stripper'.buf = <<>> /\ ~stripper'.in_think /\ stripper'.out = stripper.out \o stripper.buf
        /\ fed' = <<>> /\ expected' = expected \o StripThink(fed)
    BY <1>1, <1>2, <1>4 DEF Iterate, GivesUp, Scan, GiveUpSpan, Strippers
  <2>2. stripper.out \o stripper.buf = expected \o StripThink(fed)
    BY <1>2, <1>4, HeldIsShown DEF GivesUp
  <2>3. expected \o StripThink(fed) \in Text
    BY <1>2, StripIs, Joined
  <2>4. \A z \in Text : StripThink(z) \in Text
    BY StripIs
  <2>5. Shows'
    BY <2>1, <2>2, <2>3, <2>4, Nothing DEF Shows, Sees, Rest
  <2> QED BY <2>1, <2>3, <2>5, Nothing
<1> QED BY <1>3, <1>4

LEMMA StreamNext == StreamInv /\ [FeedNext]_feedVars => StreamInv'
<1> SUFFICES ASSUME StreamInv, [FeedNext]_feedVars PROVE StreamInv'
  OBVIOUS
<1>1. IInv'
  BY NextInv DEF StreamInv
<1>2. ASSUME NEW chunk \in Chunks, Feed(chunk) PROVE StreamInv'
  <2>1. ~over' /\ expected' = expected
    BY <1>2 DEF Feed
  <2> QED BY <1>1, <1>2, <2>1, StreamFeed DEF StreamInv, StreamIsStrip
<1>3. CASE Iterate
  <2>1. ~over'
    BY <1>3 DEF Iterate, StreamInv, IInv, StripperOK, Fresh
  <2> QED BY <1>1, <1>3, <2>1, StreamIterate DEF StreamInv, StreamIsStrip
<1>4. CASE Finish
  <2>1. /\ stripper'.out = stripper.out \o stripper.buf
        /\ over' /\ fed' = fed /\ expected' = expected
    BY <1>4 DEF Finish, Flush, Fresh
  <2>2. fed \in Text /\ expected \in Text /\ stripper \in Strippers /\ Shows
    BY <1>4 DEF StreamInv, IInv, StripperOK, Finish, Strippers, Text
  <2>3. StreamIsStrip'
    BY <1>4, <2>1, <2>2, HeldIsShown DEF StreamInv, IInv, HeldIsBounded, Finish, StreamIsStrip
  <2> QED BY <1>1, <2>1, <2>2, <2>3 DEF StreamInv
<1>5. CASE UNCHANGED feedVars
  BY <1>1, <1>5 DEF feedVars, StreamInv, StreamIsStrip, Shows, Sees
<1> QED BY <1>2, <1>3, <1>4, <1>5 DEF FeedNext

\* ThinkStripper::push and finish, nothink.rs: however a text is cut into chunks,
\* what the filter shows of it is what strip_think leaves of the whole; a bailout
\* ends one text and begins the next.
THEOREM StripperStreamIsStrip == FeedSpec => []StreamIsStrip
<1>1. StreamInv => StreamIsStrip
  BY DEF StreamInv
<1> QED BY StreamInit, StreamNext, <1>1, PTL DEF FeedSpec

-----------------------------------------------------------------------------
(* The proxy.                                                                  *)

\* The inductive invariant: what the phase knows of the upstream.
EndKnown ==
  /\ phase = "erroring" => upstream = "broken" /\ client = "reading"
  /\ phase = "streaming" => client = "reading"
  /\ phase = "done" /\ client = "reading" => upstream = "eof"
  /\ DropIsNoEnd

LEMMA InitEnd == Init => EndKnown
  BY DEF Init, EndKnown, DropIsNoEnd

\* The server and the transport touch neither the phase nor the client, and the
\* stream ends one way only.
LEMMA OutsideEnd ==
  ASSUME EndKnown, Server \/ \E how \in {"eof", "broken"} : Upstream(how)
  PROVE  EndKnown'
<1> USE DEF EndKnown, DropIsNoEnd
<1>1. CASE Server
  BY <1>1 DEF Server, SendStart, SendStop, SendTerminal, SendDelta, SendText, Sends
<1>2. ASSUME NEW how \in {"eof", "broken"}, Upstream(how)
      PROVE  EndKnown'
  BY <1>2 DEF Upstream
<1> QED BY <1>1, <1>2

LEMMA StreamEnd ==
  ASSUME EndKnown, Stream
  PROVE  EndKnown'
<1> USE DEF EndKnown, DropIsNoEnd
<1>1. ASSUME NEW n \in 0..MaxWire, NEW cut \in BOOLEAN, Chunk(n, cut)
      PROVE  EndKnown'
  BY <1>1 DEF Chunk
<1>2. CASE UpstreamFails
  BY <1>2 DEF UpstreamFails
<1>3. CASE ErrorSurfaces
  BY <1>3 DEF ErrorSurfaces
<1>4. CASE UpstreamEnds
  BY <1>4 DEF UpstreamEnds
<1>5. CASE Done
  BY <1>5 DEF Done
<1> QED BY <1>1, <1>2, <1>3, <1>4, <1>5 DEF Stream

\* sse_think_stream, proxy.rs: "a mid-stream drop MUST NOT be turned into a
\* graceful end".
THEOREM StreamDropIsNoEnd == Spec => []DropIsNoEnd
<1>1. EndKnown /\ [Next]_vars => EndKnown'
  <2>1. EndKnown /\ UNCHANGED vars => EndKnown'
    BY DEF EndKnown, DropIsNoEnd, vars
  <2> QED BY <2>1, OutsideEnd, StreamEnd DEF Next
<1>2. EndKnown => DropIsNoEnd
  BY DEF EndKnown
<1> QED BY InitEnd, <1>1, <1>2, PTL DEF Spec

-----------------------------------------------------------------------------
(* The same of every answer of the proxy, also of a buffered one and of a      *)
(* request that never got an answer of the upstream.                           *)

\* What the handler knows of the upstream and the client in each stage.
StageKnown ==
  /\ DropIsNoEnd
  /\ stage = "streaming" => EndKnown
  /\ stage \in {"received", "forwarding", "collecting"} => phase = "streaming" /\ client = "reading"
  /\ stage # "streaming" => upstream \in {"flowing", "eof", "broken"}

LEMMA HandlerKeeps ==
  ASSUME StageKnown, Health \/ Handle \/ ForwardFails \/ Collect
  PROVE  StageKnown'
<1> USE DEF StageKnown, EndKnown, DropIsNoEnd, Respond, vars
<1>1. CASE Health
  BY <1>1 DEF Health
<1>2. CASE Handle
  BY <1>2 DEF Handle
<1>3. CASE ForwardFails
  BY <1>3 DEF ForwardFails
<1>4. CASE Collect
  BY <1>4 DEF Collect, Collected
<1> QED BY <1>1, <1>2, <1>3, <1>4

LEMMA OutsideKeeps ==
  ASSUME StageKnown,
         \/ Unreachable \/ BeginStream \/ BeginCollect
         \/ \E how \in {"eof", "broken"} : BodyEnds(how)
  PROVE  StageKnown'
<1> USE DEF StageKnown, EndKnown, DropIsNoEnd, vars, handlerVars
<1>1. CASE Unreachable
  BY <1>1 DEF Unreachable
<1>2. CASE BeginStream
  BY <1>2 DEF BeginStream
<1>3. CASE BeginCollect
  BY <1>3 DEF BeginCollect
<1>4. ASSUME NEW how \in {"eof", "broken"}, BodyEnds(how)
      PROVE  StageKnown'
  BY <1>4 DEF BodyEnds
<1> QED BY <1>1, <1>2, <1>3, <1>4

\* While an answer streams the stage stays, and the stream keeps its own.
LEMMA StreamingKeeps ==
  ASSUME StageKnown, stage = "streaming", UNCHANGED handlerVars,
         Stream \/ Server \/ \E how \in {"eof", "broken"} : Upstream(how)
  PROVE  StageKnown'
<1>1. EndKnown
  BY DEF StageKnown
<1>2. EndKnown'
  <2>1. CASE Stream
    BY <1>1, <2>1, StreamEnd
  <2>2. CASE Server \/ \E how \in {"eof", "broken"} : Upstream(how)
    BY <1>1, <2>2, OutsideEnd
  <2> QED BY <2>1, <2>2
<1>3. DropIsNoEnd'
  BY <1>2 DEF EndKnown
<1> QED BY <1>2, <1>3 DEF StageKnown, handlerVars

\* proxy_handler and build_response: the client of a buffered or a streamed
\* answer sees a clean end only of one that ended, and an error only of one that
\* failed.
THEOREM ProxyDropIsNoEnd == ProxySpec => []DropIsNoEnd
<1>1. ProxyInit => StageKnown
  BY DEF ProxyInit, Init, StageKnown, DropIsNoEnd
<1>2. StageKnown /\ [ProxyNext]_proxyVars => StageKnown'
  <2> SUFFICES ASSUME StageKnown, [ProxyNext]_proxyVars PROVE StageKnown'
    OBVIOUS
  <2>1. CASE UNCHANGED proxyVars
    BY <2>1 DEF proxyVars, handlerVars, vars, StageKnown, EndKnown, DropIsNoEnd
  <2>2. CASE Health \/ Handle \/ ForwardFails \/ Collect
    BY <2>2, HandlerKeeps
  <2>3. CASE Streaming
    BY <2>3, StreamingKeeps DEF Streaming
  <2>4. CASE \/ Unreachable \/ BeginStream \/ BeginCollect
             \/ \E how \in {"eof", "broken"} : BodyEnds(how)
    BY <2>4, OutsideKeeps
  <2>5. CASE /\ stage = "streaming"
             /\ Server \/ \E how \in {"eof", "broken"} : Upstream(how)
             /\ UNCHANGED handlerVars
    BY <2>5, StreamingKeeps
  <2> QED BY <2>1, <2>2, <2>3, <2>4, <2>5 DEF ProxyNext, Proxying
<1>3. StageKnown => DropIsNoEnd
  BY DEF StageKnown, EndKnown
<1> QED BY <1>1, <1>2, <1>3, PTL DEF ProxySpec

-----------------------------------------------------------------------------
(* What a buffered answer is, and where it can come from.                    *)

\* A call as it was received, with what was forwarded of it, if anything.
CallIs == call = [config |-> call.config, request |-> call.request, forwarded |-> call.forwarded]

AnswerInv ==
  /\ upstream \in {"flowing", "eof", "broken"}
  /\ stage \in {"received", "forwarding", "collecting", "answered"} => CallIs
  /\ stage = "received" => call.forwarded = <<>>
  /\ stage \in {"forwarding", "collecting"} => call.forwarded # <<>>
  /\ stage = "collecting" => whole \in Answers
  /\ BufferedAnswerIsTrue

\* strip_think_json_response: text by text, and nothing else of the body.
LEMMA FilterBlocksIs ==
  ASSUME NEW blocks \in ContentBlocks
  PROVE  /\ Len(FilterBlocks(blocks)) = Len(blocks)
         /\ \A i \in DOMAIN blocks :
              IF blocks[i].kind # "text" THEN FilterBlocks(blocks)[i] = blocks[i]
              ELSE FilterBlocks(blocks)[i].text = FallbackIfEmpty(StripThink(blocks[i].text))
<1> DEFINE new(i) == IF blocks[i].kind = "text"
                       THEN [blocks[i] EXCEPT !.text = FallbackIfEmpty(StripThink(@))] ELSE blocks[i]
<1>1. FilterBlocks(blocks) = [i \in 1..Len(blocks) |-> new(i)] /\ DOMAIN blocks = 1..Len(blocks)
      /\ Len(blocks) \in Nat
  BY DEF FilterBlocks, ContentBlocks
<1> HIDE DEF new
<1>2. ASSUME NEW i \in 1..Len(blocks)
      PROVE  blocks[i] \in [kind : {"text", "other"}, text : Seq(Chars)]
  BY ElementOfSeq DEF ContentBlocks
<1>3. \A i \in 1..Len(blocks) :
        IF blocks[i].kind # "text" THEN new(i) = blocks[i]
        ELSE new(i).text = FallbackIfEmpty(StripThink(blocks[i].text))
  BY <1>2 DEF new
<1> QED BY <1>1, <1>3

LEMMA FallbackIsInk ==
  ASSUME NEW text
  PROVE  ~Blank(FallbackIfEmpty(text)) /\ (~Blank(text) => FallbackIfEmpty(text) = text)
BY SubstituteAssumption DEF FallbackIfEmpty

LEMMA CollectAnswer ==
  ASSUME AnswerInv, Collect
  PROVE  BufferedAnswerIsTrue'
<1>1. /\ stage = "collecting" /\ upstream \in {"eof", "broken"} /\ call.forwarded # <<>>
      /\ whole \in [json : BOOLEAN, raw : Seq(Chars), content : ContentBlocks, choices : ContentBlocks]
      /\ UNCHANGED <<upstream, call, head, whole>>
  BY AnswersAssumption DEF AnswerInv, Collect
<1>2. CASE upstream = "broken"
  <2>1. answer' = [status |-> 502, body |-> "text"]
    BY <1>2 DEF Collect, Collected, Respond
  <2> QED BY <1>1, <1>2, <2>1 DEF BufferedAnswerIsTrue
<1>3. CASE upstream # "broken"
  <2> DEFINE body == IF IsChat THEN StripThinkJsonResponse(whole) ELSE whole
  <2>1. answer' = [status |-> head, body |-> body]
    BY <1>3 DEF Collect, Collected, Respond
  <2>2. IsChat' <=> IsChat
    BY <1>1 DEF IsChat
  <2>3. ASSUME IsChat, ~whole.json PROVE body.raw = StripThink(whole.raw)
    BY <1>1, <2>3 DEF StripThinkJsonResponse
  <2>4. ASSUME IsChat, whole.json, NEW field \in {"content", "choices"}
        PROVE  body[field] = FilterBlocks(whole[field]) /\ whole[field] \in ContentBlocks
    BY <1>1, <2>4 DEF StripThinkJsonResponse
  <2>5. ASSUME IsChat, whole.json, NEW field \in {"content", "choices"}
        PROVE  /\ Len(body[field]) = Len(whole[field])
               /\ \A i \in DOMAIN whole[field] :
                    LET was == whole[field][i]
                        is == body[field][i]
                    IN  IF was.kind # "text" THEN is = was
                        ELSE /\ ~Blank(is.text)
                             /\ ~Blank(StripThink(was.text)) => is.text = StripThink(was.text)
    <3> HIDE DEF body
    <3>1. body[field] = FilterBlocks(whole[field]) /\ whole[field] \in ContentBlocks
      BY <2>4, <2>5
    <3> QED BY <3>1, FilterBlocksIs, FallbackIsInk
  <2>6. answer'.status = head /\ answer'.body = body
    <3> HIDE DEF body
    <3> QED BY <2>1
  <2> HIDE DEF body
  <2>7. ~IsChat => body = whole
    BY DEF body
  <2> QED BY <1>1, <1>3, <2>2, <2>3, <2>5, <2>6, <2>7 DEF BufferedAnswerIsTrue
<1> QED BY <1>2, <1>3

LEMMA AnswerNext == AnswerInv /\ [ProxyNext]_proxyVars => AnswerInv'
<1> SUFFICES ASSUME AnswerInv, [ProxyNext]_proxyVars PROVE AnswerInv'
  OBVIOUS
<1>1. CASE Health
  <2>1. /\ stage = "received" /\ stage' = "answered" /\ answer' = [status |-> 200, body |-> "target"]
        /\ call.request.path = "/health" /\ UNCHANGED <<upstream, call>>
    BY <1>1 DEF Health, Respond, vars
  <2> QED BY <2>1 DEF AnswerInv, BufferedAnswerIsTrue, CallIs
<1>2. CASE Handle
  <2>0. stage = "received" /\ call.request.path # "/health" /\ UNCHANGED upstream
        /\ CallIs /\ call.forwarded = <<>>
    BY <1>2 DEF Handle, vars, AnswerInv
  <2>1. CASE ~Authorized
    <3>1. stage' = "answered" /\ answer' = [status |-> 401, body |-> "text"] /\ UNCHANGED call
      BY <1>2, <2>1 DEF Handle, Respond
    <3>2. ~Authorized'
      BY <2>1, <3>1 DEF Authorized
    <3> QED BY <2>0, <3>1, <3>2 DEF AnswerInv, BufferedAnswerIsTrue, CallIs
  <2>2. CASE Authorized /\ call.request.large
    <3>1. stage' = "answered" /\ answer' = [status |-> 413, body |-> "text"] /\ UNCHANGED call
      BY <1>2, <2>2 DEF Handle, Respond
    <3>2. Authorized'
      BY <2>2, <3>1 DEF Authorized
    <3> QED BY <2>0, <3>1, <3>2 DEF AnswerInv, BufferedAnswerIsTrue, CallIs
  <2>3. CASE Authorized /\ ~call.request.large
    <3> DEFINE sent == <<[headers |-> CopyHeaders(call.request.headers), body |-> OutBody]>>
    <3>1. stage' = "forwarding" /\ call' = [call EXCEPT !.forwarded = sent]
      BY <1>2, <2>3 DEF Handle
    <3>2. sent # <<>>
      OBVIOUS
    <3> HIDE DEF sent
    <3>3. call'.forwarded = sent /\ CallIs'
      BY <2>0, <3>1 DEF CallIs
    <3> QED BY <2>0, <3>1, <3>2, <3>3 DEF AnswerInv, BufferedAnswerIsTrue
  <2> QED BY <2>1, <2>2, <2>3
<1>3. CASE ForwardFails
  <2>1. /\ stage = "forwarding" /\ stage' = "answered" /\ answer' = [status |-> 502, body |-> "text"]
        /\ upstream = "broken" /\ UNCHANGED <<upstream, call>>
    BY <1>3 DEF ForwardFails, Respond
  <2> QED BY <2>1 DEF AnswerInv, BufferedAnswerIsTrue, CallIs
<1>4. CASE Collect
  <2>1. stage = "collecting" /\ stage' = "answered" /\ UNCHANGED <<upstream, call>>
    BY <1>4 DEF Collect, Collected, Respond
  <2> QED BY <1>4, <2>1, CollectAnswer DEF AnswerInv, CallIs
<1>5. CASE Unreachable \/ \E how \in {"eof", "broken"} : BodyEnds(how)
  <2>1. stage \in {"forwarding", "collecting"} /\ UNCHANGED handlerVars /\ upstream' \in {"eof", "broken"}
    BY <1>5 DEF Unreachable, BodyEnds
  <2> QED BY <2>1 DEF AnswerInv, BufferedAnswerIsTrue, CallIs, handlerVars
<1>6. CASE BeginStream
  BY <1>6 DEF BeginStream, AnswerInv, BufferedAnswerIsTrue, vars
<1>7. CASE BeginCollect
  BY <1>7 DEF BeginCollect, AnswerInv, BufferedAnswerIsTrue, CallIs, vars
<1>8. ASSUME stage = "streaming", UNCHANGED handlerVars, upstream' \in {"flowing", "eof", "broken"}
      PROVE  AnswerInv'
  BY <1>8 DEF AnswerInv, BufferedAnswerIsTrue, handlerVars
<1>9. CASE Streaming
  <2>1. Stream => UNCHANGED upstream
    BY DEF Stream, Chunk, UpstreamFails, ErrorSurfaces, UpstreamEnds, Done
  <2> QED BY <1>8, <1>9, <2>1 DEF Streaming, AnswerInv
<1>10. CASE /\ stage = "streaming"
            /\ Server \/ \E how \in {"eof", "broken"} : Upstream(how)
            /\ UNCHANGED handlerVars
  <2>1. Server => UNCHANGED upstream
    BY DEF Server, SendStart, SendStop, SendTerminal, SendDelta, SendText, Sends
  <2>2. \A how \in {"eof", "broken"} : Upstream(how) => upstream' = how
    BY DEF Upstream
  <2> QED BY <1>8, <1>10, <2>1, <2>2 DEF AnswerInv
<1>11. CASE UNCHANGED proxyVars
  <2>1. UNCHANGED <<upstream, stage, call, head, whole, answer>>
    BY <1>11 DEF proxyVars, handlerVars, vars
  <2> QED BY <2>1 DEF AnswerInv, BufferedAnswerIsTrue, CallIs, Authorized, IsChat
<1> QED BY <1>1, <1>2, <1>3, <1>4, <1>5, <1>6, <1>7, <1>9, <1>10, <1>11 DEF ProxyNext, Proxying

\* proxy_handler, build_response and strip_think_json_response: a buffered answer
\* is the upstream's, whole, with its status and its texts filtered, or says that
\* there is none.
THEOREM ProxyBufferedAnswerIsTrue == ProxySpec => []BufferedAnswerIsTrue
<1>1. ProxyInit => AnswerInv
  <2> SUFFICES ASSUME ProxyInit PROVE AnswerInv
    OBVIOUS
  <2>1. stage = "received" /\ upstream = "flowing" /\ CallIs /\ call.forwarded = <<>>
    BY DEF ProxyInit, Init, CallIs
  <2> QED BY <2>1 DEF AnswerInv, BufferedAnswerIsTrue
<1>2. AnswerInv => BufferedAnswerIsTrue
  BY DEF AnswerInv
<1> QED BY <1>1, <1>2, AnswerNext, PTL DEF ProxySpec
-----------------------------------------------------------------------------
(* The blocks the client sees. What was delivered stands for what arrived      *)
(* (Carries): a frame shows text of a block only after its start and before    *)
(* its stop, nothing follows the end, and every block that shows was begun by  *)
(* the server. It is kept event by event (TransformKeeps), list by list        *)
(* (PushKeeps, by induction over the number of events), chunk by chunk.        *)

\* LifecycleHolds, of any frames.
WellFormed(frames) ==
  \A n \in DOMAIN frames :
    LET ev == frames[n]
        earlier == SubSeq(frames, 1, n - 1)
    IN  /\ ev.kind = "start" => ~Has(earlier, ev)
        /\ ev.kind = "text" =>
             Has(earlier, BlockStart(ev.index)) /\ ~Has(earlier, BlockStop(ev.index))
        /\ Has(earlier, Terminal) => ev.kind = "partial"

\* The frames d show the given blocks, and no other, as open.
Shown(d, blocks) ==
  /\ WellFormed(d)
  /\ \A i \in blocks : Has(d, BlockStart(i)) /\ ~Has(d, BlockStop(i))
  /\ \A i \in Nat : Has(d, BlockStart(i)) => Has(d, BlockStop(i)) \/ i \in blocks

\* Something of block i came.
Begun(s, i) == \E n \in DOMAIN s : s[n].kind \in {"start", "text"} /\ s[n].index = i

\* What the frames d show of a block or of the end came with the events s.
Backed(d, s) ==
  /\ \A i \in Nat : /\ Has(d, BlockStart(i)) => Begun(s, i)
                    /\ Has(d, BlockStop(i)) => Has(s, BlockStop(i))
  /\ Has(d, Terminal) => Has(s, Terminal)

LEMMA Appended ==
  ASSUME NEW T, NEW d \in Seq(T), NEW e
  PROVE  /\ Append(d, e) \in Seq(T \cup {e})
         /\ \A x : Has(Append(d, e), x) <=> Has(d, x) \/ x = e
         /\ \A i : Begun(Append(d, e), i) <=>
                     Begun(d, i) \/ (e.kind \in {"start", "text"} /\ e.index = i)
<1> DEFINE longer == Append(d, e)
<1>1. d \in Seq(T \cup {e})
  BY SeqMonotonic
<1>2. /\ longer \in Seq(T \cup {e}) /\ Len(longer) = Len(d) + 1 /\ Len(d) \in Nat
      /\ \A n \in 1..Len(d) : longer[n] = d[n]
      /\ longer[Len(d) + 1] = e
      /\ DOMAIN longer = 1..(Len(d) + 1) /\ DOMAIN d = 1..Len(d)
  BY <1>1, AppendProperties, LenProperties
<1> HIDE DEF longer
<1>3. DOMAIN longer = DOMAIN d \cup {Len(d) + 1}
  BY <1>2
<1>4. \A x : Has(longer, x) <=> Has(d, x) \/ x = e
  BY <1>2, <1>3 DEF Has
<1>5. \A i : Begun(longer, i) <=> Begun(d, i) \/ (e.kind \in {"start", "text"} /\ e.index = i)
  BY <1>2, <1>3 DEF Begun
<1> QED BY <1>2, <1>4, <1>5 DEF longer

\* What is before a place does not change with what is appended.
LEMMA BeforeAppended ==
  ASSUME NEW T, NEW d \in Seq(T), NEW e
  PROVE  /\ \A n \in 1..Len(d) : SubSeq(Append(d, e), 1, n - 1) = SubSeq(d, 1, n - 1)
         /\ SubSeq(Append(d, e), 1, Len(d)) = d
<1> DEFINE longer == Append(d, e)
<1>0. d \in Seq(T \cup {e})
  BY SeqMonotonic
<1>1. /\ longer \in Seq(T \cup {e}) /\ Len(longer) = Len(d) + 1 /\ Len(d) \in Nat
      /\ \A n \in 1..Len(d) : longer[n] = d[n]
  BY <1>0, AppendProperties, LenProperties
<1> HIDE DEF longer
<1>2. ASSUME NEW k \in 0..Len(d) PROVE SubSeq(longer, 1, k) = SubSeq(d, 1, k)
  <2>1. \A n \in 1..k : longer[n] \in T \cup {e} /\ d[n] \in T \cup {e}
    BY <1>0, <1>1, ElementOfSeq
  <2>2. k \in Int /\ 1 \in Int /\ k \in Nat
    BY <1>1
  <2>3. /\ SubSeq(longer, 1, k) \in Seq(T \cup {e})
        /\ Len(SubSeq(longer, 1, k)) = IF 1 <= k THEN k - 1 + 1 ELSE 0
        /\ \A i \in 1..(k - 1 + 1) : SubSeq(longer, 1, k)[i] = longer[1 + i - 1]
    BY <2>1, <2>2, SubSeqProperties
  <2>4. /\ SubSeq(d, 1, k) \in Seq(T \cup {e})
        /\ Len(SubSeq(d, 1, k)) = IF 1 <= k THEN k - 1 + 1 ELSE 0
        /\ \A i \in 1..(k - 1 + 1) : SubSeq(d, 1, k)[i] = d[1 + i - 1]
    BY <2>1, <2>2, SubSeqProperties
  <2> DEFINE a == SubSeq(longer, 1, k)
             b == SubSeq(d, 1, k)
  <2>5. /\ a \in Seq(T \cup {e}) /\ b \in Seq(T \cup {e}) /\ Len(a) = k /\ Len(b) = k
        /\ \A i \in 1..k : a[i] = longer[i] /\ b[i] = d[i]
    BY <2>2, <2>3, <2>4
  <2> HIDE DEF a, b
  <2>6. \A i \in 1..Len(a) : a[i] = b[i]
    BY <1>1, <2>2, <2>5
  <2>7. a = b
    BY <2>5, <2>6, SeqEqual
  <2> QED BY <2>7 DEF a, b
<1>3. SubSeq(d, 1, Len(d)) = d
  BY SubSeqFull
<1>4. \A n \in 1..Len(d) : n - 1 \in 0..Len(d)
  BY <1>1
<1> QED BY <1>1, <1>2, <1>3, <1>4 DEF longer

LEMMA OneMoreFrame ==
  ASSUME NEW T, NEW d \in Seq(T), NEW e, WellFormed(d),
         e.kind = "start" => ~Has(d, e),
         e.kind = "text" => Has(d, BlockStart(e.index)) /\ ~Has(d, BlockStop(e.index)),
         Has(d, Terminal) => e.kind = "partial"
  PROVE  WellFormed(Append(d, e))
<1> DEFINE longer == Append(d, e)
<1>0. d \in Seq(T \cup {e})
  BY SeqMonotonic
<1>1. /\ Len(longer) = Len(d) + 1 /\ Len(d) \in Nat
      /\ \A n \in 1..Len(d) : longer[n] = d[n]
      /\ longer[Len(d) + 1] = e
      /\ DOMAIN longer = 1..(Len(d) + 1) /\ DOMAIN d = 1..Len(d)
  BY <1>0, AppendProperties, LenProperties
<1>2. /\ \A n \in 1..Len(d) : SubSeq(longer, 1, n - 1) = SubSeq(d, 1, n - 1)
      /\ SubSeq(longer, 1, (Len(d) + 1) - 1) = d
  BY <1>1, BeforeAppended
<1> HIDE DEF longer
<1> SUFFICES ASSUME NEW n \in DOMAIN longer
             PROVE  LET ev == longer[n]
                        earlier == SubSeq(longer, 1, n - 1)
                    IN  /\ ev.kind = "start" => ~Has(earlier, ev)
                        /\ ev.kind = "text" =>
                             Has(earlier, BlockStart(ev.index)) /\ ~Has(earlier, BlockStop(ev.index))
                        /\ Has(earlier, Terminal) => ev.kind = "partial"
  BY DEF WellFormed, longer
<1>3. CASE n \in 1..Len(d)
  <2>1. longer[n] = d[n] /\ SubSeq(longer, 1, n - 1) = SubSeq(d, 1, n - 1) /\ n \in DOMAIN d
    BY <1>1, <1>2, <1>3
  <2> QED BY <2>1 DEF WellFormed
<1>4. CASE n = Len(d) + 1
  BY <1>1, <1>2, <1>4
<1> QED BY <1>1, <1>3, <1>4

\* The frames that may follow while the end has not been shown.
LEMMA ShowMore ==
  ASSUME NEW T, NEW d \in Seq(T), NEW blocks, blocks \subseteq Nat, Shown(d, blocks), ~Has(d, Terminal)
  PROVE  /\ \A e : e.kind = "delta" => Shown(Append(d, e), blocks)
         /\ \A e : e.kind = "text" /\ e.index \in blocks => Shown(Append(d, e), blocks)
         /\ \A i \in Nat : ~Has(d, BlockStart(i)) /\ ~Has(d, BlockStop(i))
                             => Shown(Append(d, BlockStart(i)), blocks \cup {i})
         /\ \A i \in Nat : Shown(Append(d, BlockStop(i)), blocks \ {i})
         /\ Shown(Append(d, Terminal), blocks)
<1>1. ASSUME NEW e, e.kind \notin {"start", "stop"},
             e.kind = "text" => e.index \in blocks
      PROVE  Shown(Append(d, e), blocks)
  <2>1. WellFormed(Append(d, e))
    BY <1>1, OneMoreFrame DEF Shown
  <2>2. \A i : e # BlockStart(i) /\ e # BlockStop(i)
    BY <1>1 DEF BlockStart, BlockStop
  <2>3. \A x : Has(Append(d, e), x) <=> Has(d, x) \/ x = e
    BY Appended
  <2> QED BY <2>1, <2>2, <2>3 DEF Shown
<1>2. ASSUME NEW i \in Nat, ~Has(d, BlockStart(i)), ~Has(d, BlockStop(i))
      PROVE  Shown(Append(d, BlockStart(i)), blocks \cup {i})
  <2>1. WellFormed(Append(d, BlockStart(i)))
    <3>1. BlockStart(i).kind = "start"
      BY DEF BlockStart
    <3> QED BY <1>2, <3>1, OneMoreFrame DEF Shown
  <2>2. \A j : BlockStart(i) # BlockStop(j) /\ (BlockStart(i) = BlockStart(j) => i = j)
    BY DEF BlockStart, BlockStop
  <2>3. \A x : Has(Append(d, BlockStart(i)), x) <=> Has(d, x) \/ x = BlockStart(i)
    BY Appended
  <2> QED BY <1>2, <2>1, <2>2, <2>3 DEF Shown
<1>3. ASSUME NEW i \in Nat
      PROVE  Shown(Append(d, BlockStop(i)), blocks \ {i})
  <2>1. WellFormed(Append(d, BlockStop(i)))
    <3>1. BlockStop(i).kind = "stop"
      BY DEF BlockStop
    <3> QED BY <3>1, OneMoreFrame DEF Shown
  <2>2. \A j : BlockStart(j) # BlockStop(i) /\ (BlockStop(i) = BlockStop(j) => i = j)
    BY DEF BlockStart, BlockStop
  <2>3. \A x : Has(Append(d, BlockStop(i)), x) <=> Has(d, x) \/ x = BlockStop(i)
    BY Appended
  <2> QED BY <2>1, <2>2, <2>3 DEF Shown
<1>4. Terminal.kind = "end"
  BY DEF Terminal
<1> QED BY <1>1, <1>2, <1>3, <1>4

-----------------------------------------------------------------------------
(* The filter, one event after another.                                      *)

IsFilter(f) ==
  f = [pending |-> f.pending, stripper |-> f.stripper, shape |-> f.shape,
       blocks |-> f.blocks, out |-> f.out]

Events ==
  {OpenAiDelta(text) : text \in Texts} \cup {TextDelta(i, text) : i \in Nat, text \in Texts}
    \cup {BlockStart(i) : i \in Nat} \cup {BlockStop(i) : i \in Nat} \cup {Terminal}

\* What came of the answer so far: deltas of OpenAI, events of blocks, text of block j.
Deltas(s) == \E n \in DOMAIN s : s[n].kind = "delta"
Framed(s) == \E n \in DOMAIN s : s[n].kind \in {"start", "text", "stop"}
Wrote(s, j) == \E n \in DOMAIN s : s[n].kind = "text" /\ s[n].index = j

\* An answer keeps to one dialect, and a block ends before the next one has text.
InOrder(s, ev) ==
  /\ Deltas(s) => ev.kind \in {"delta", "end"}
  /\ Framed(s) => ev.kind # "delta"
  /\ ev.kind \in {"text", "stop"} =>
       \A j \in Nat : Wrote(s, j) => j = ev.index \/ Has(s, BlockStop(j))

\* An event a server may send after the events s: nothing after the end, nothing
\* of a block after its stop, its start before its text, and in order.
Follows(s, ev) ==
  /\ ~Has(s, Terminal)
  /\ ev.kind = "start" => ~Begun(s, ev.index)
  /\ ev.kind \in {"start", "text", "stop"} => ~Has(s, BlockStop(ev.index))
  /\ InOrder(s, ev)

\* The filter f has turned the events s into frames of which the client has read
\* those in b.
Carries(f, b, s) ==
  /\ IsFilter(f)
  /\ \E T : b \in Seq(T) /\ f.out \in Seq(T)
  /\ f.blocks \subseteq Nat
  /\ f.shape \in {NoShape, OpenAi} \cup {Anthropic(i) : i \in f.blocks}
  /\ Shown(b \o f.out, f.blocks)
  /\ Backed(b \o f.out, s)
  /\ Has(b \o f.out, Terminal) => f.stripper = Fresh

LEMMA TransformIs ==
  ASSUME NEW f, NEW ev
  PROVE  TransformEvent(f, ev) = CloseBlock(Rewrite(ReleaseTail(OpenBlock(f, ev), ev), ev), ev)
BY DEF TransformEvent, Through

\* The tail is at most one frame, of the filter's shape.
LEMMA TailIs ==
  ASSUME NEW f
  PROVE  \/ TailFrames(f) = <<>>
         \/ f.shape # NoShape /\ \E tail : TailFrames(f) = <<DataFrame(f.shape, tail)>>
BY DEF TailFrames

LEMMA NoTailOfFresh ==
  ASSUME NEW f, f.stripper = Fresh
  PROVE  TailFrames(f) = <<>>
BY DEF TailFrames, Flush, Fresh

LEMMA RewriteIs ==
  ASSUME NEW f, NEW ev
  PROVE  IF ev.kind \in {"delta", "text"}
           THEN \E st : Rewrite(f, ev) =
                  [f EXCEPT !.shape = IF ev.kind = "delta" THEN OpenAi ELSE Anthropic(ev.index),
                            !.stripper = Handed(st),
                            !.out = Append(@, [ev EXCEPT !.text = st.out])]
           ELSE Rewrite(f, ev) = [f EXCEPT !.out = Append(@, ev)]
BY DEF Rewrite, Through

LEMMA OutGrows ==
  ASSUME NEW T, NEW b \in Seq(T), NEW o \in Seq(T), NEW e
  PROVE  /\ Append(o, e) \in Seq(T \cup {e}) /\ b \in Seq(T \cup {e})
         /\ b \o Append(o, e) = Append(b \o o, e)
         /\ b \o o \in Seq(T)
<1>1. b \in Seq(T \cup {e}) /\ o \in Seq(T \cup {e}) /\ b \o o \in Seq(T) /\ <<e>> \in Seq(T \cup {e})
  BY SeqMonotonic, ConcatProperties
<1>2. Append(o, e) \in Seq(T \cup {e}) /\ Append(o, e) = o \o <<e>>
  BY <1>1, AppendProperties, AppendIsConcat
<1>3. (b \o o) \o <<e>> = b \o (o \o <<e>>)
  BY <1>1, ConcatAssociative
<1>4. b \o o \in Seq(T \cup {e})
  BY <1>1, ConcatProperties
<1>5. Append(b \o o, e) = (b \o o) \o <<e>>
  BY <1>4, AppendIsConcat
<1> QED BY <1>1, <1>2, <1>3, <1>5

\* What a call of the filter returns and keeps when it adds one frame.
LEMMA Adds ==
  ASSUME NEW f, NEW g, NEW b, NEW s, NEW e, Carries(f, b, s),
         IsFilter(g), g.out = Append(f.out, e), g.blocks \subseteq Nat,
         g.shape \in {NoShape, OpenAi} \cup {Anthropic(i) : i \in g.blocks},
         Shown(Append(b \o f.out, e), g.blocks),
         NEW t,
         \A x : Has(s, x) => Has(t, x), \A i \in Nat : Begun(s, i) => Begun(t, i),
         \A i \in Nat : e = BlockStart(i) => Begun(t, i),
         \A i \in Nat : e = BlockStop(i) => Has(t, BlockStop(i)),
         e = Terminal => Has(t, Terminal),
         Has(b \o f.out, Terminal) \/ e = Terminal => g.stripper = Fresh
  PROVE  Carries(g, b, t)
<1>1. PICK T : b \in Seq(T) /\ f.out \in Seq(T)
  BY DEF Carries
<1>2. /\ b \o g.out = Append(b \o f.out, e) /\ b \o f.out \in Seq(T)
      /\ \E U : b \in Seq(U) /\ g.out \in Seq(U)
  <2>1. PICK o \in Seq(T) : o = f.out
    BY <1>1
  <2>2. /\ Append(o, e) \in Seq(T \cup {e}) /\ b \in Seq(T \cup {e})
        /\ b \o Append(o, e) = Append(b \o o, e) /\ b \o o \in Seq(T)
    BY <1>1, OutGrows
  <2> QED BY <2>1, <2>2, Zenon
<1>3. \A x : Has(b \o g.out, x) <=> Has(b \o f.out, x) \/ x = e
  <2>1. PICK d \in Seq(T) : d = b \o f.out
    BY <1>2
  <2>2. \A x : Has(Append(d, e), x) <=> Has(d, x) \/ x = e
    BY Appended
  <2> QED BY <1>2, <2>1, <2>2, Zenon
<1>4. Backed(b \o g.out, t)
  BY <1>3 DEF Carries, Backed
<1> QED BY <1>2, <1>3, <1>4 DEF Carries

\* The events of OpenAI, and a text whose block is open.
LEMMA TextKeeps ==
  ASSUME NEW f, NEW b, NEW s, NEW ev, Carries(f, b, s),
         ~Has(b \o f.out, Terminal),
         ev.kind \in {"delta", "text"}, ev = [kind |-> ev.kind, index |-> ev.index, text |-> ev.text],
         ev.kind = "text" => ev.index \in f.blocks,
         NEW t, \A x : Has(s, x) => Has(t, x), \A i \in Nat : Begun(s, i) => Begun(t, i)
  PROVE  Carries(Rewrite(f, ev), b, t)
<1>1. PICK T : b \in Seq(T) /\ f.out \in Seq(T)
  BY DEF Carries
<1>2. PICK st : Rewrite(f, ev) =
          [f EXCEPT !.shape = IF ev.kind = "delta" THEN OpenAi ELSE Anthropic(ev.index),
                    !.stripper = Handed(st),
                    !.out = Append(@, [ev EXCEPT !.text = st.out])]
  BY RewriteIs
<1> DEFINE g == Rewrite(f, ev)
<1>3. PICK e : e = [ev EXCEPT !.text = st.out]
  OBVIOUS
<1>4. e.kind = ev.kind /\ e.index = ev.index
  BY <1>3
<1>5. /\ IsFilter(g) /\ g.out = Append(f.out, e) /\ g.blocks = f.blocks
      /\ g.shape = IF ev.kind = "delta" THEN OpenAi ELSE Anthropic(ev.index)
  BY <1>2, <1>3 DEF Carries, IsFilter
<1> HIDE DEF g
<1>6. b \o f.out \in Seq(T)
  BY <1>1, ConcatProperties
<1>7. Shown(Append(b \o f.out, e), g.blocks)
  <2>1. f.blocks \subseteq Nat /\ Shown(b \o f.out, f.blocks)
    BY DEF Carries
  <2> QED BY <1>4, <1>5, <1>6, <2>1, ShowMore
<1>8. e # Terminal /\ \A i : e # BlockStart(i) /\ e # BlockStop(i)
  BY <1>4 DEF BlockStart, BlockStop, Terminal
<1>9. g.shape \in {NoShape, OpenAi} \cup {Anthropic(i) : i \in g.blocks} /\ g.blocks \subseteq Nat
  BY <1>5 DEF Carries
<1>10. Carries(g, b, t)
  BY <1>5, <1>7, <1>8, <1>9, Adds
<1> QED BY <1>10 DEF g

\* The released tail is a text of an open block, or of no block.
LEMMA TailKeeps ==
  ASSUME NEW f, NEW b, NEW s, NEW ev, Carries(f, b, s), ~Has(b \o f.out, Terminal),
         ev.kind \in {"end", "stop"}
  PROVE  /\ Carries(ReleaseTail(f, ev), b, s)
         /\ ~Has(b \o ReleaseTail(f, ev).out, Terminal)
         /\ ReleaseTail(f, ev).stripper = Fresh
<1> DEFINE g == ReleaseTail(f, ev)
<1>1. PICK T : b \in Seq(T) /\ f.out \in Seq(T)
  BY DEF Carries
<1>2. /\ IsFilter(g) /\ g.out = f.out \o TailFrames(f) /\ g.stripper = Fresh
      /\ g.blocks = f.blocks /\ g.shape = f.shape
  BY DEF ReleaseTail, Carries, IsFilter
<1> HIDE DEF g
<1>3. CASE TailFrames(f) = <<>>
  <2>1. g.out = f.out
    <3>1. f.out \o <<>> = f.out
      BY <1>1, ConcatEmptySeq
    <3> QED BY <1>2, <1>3, <3>1, Zenon
  <2> QED BY <1>2, <2>1 DEF Carries, g
<1>4. CASE f.shape # NoShape /\ \E tail : TailFrames(f) = <<DataFrame(f.shape, tail)>>
  <2>1. PICK tail : TailFrames(f) = <<DataFrame(f.shape, tail)>>
    BY <1>4
  <2>2. PICK e : e = DataFrame(f.shape, tail)
    OBVIOUS
  <2>3. /\ e.kind \in {"delta", "text"} /\ (e.kind = "text" => e.index \in f.blocks)
    BY <1>4, <2>2 DEF Carries, DataFrame, NoShape, OpenAi, Anthropic, OpenAiDelta, TextDelta
  <2>4. g.out = Append(f.out, e)
    <3>1. f.out \in Seq(T \cup {e})
      BY <1>1, SeqMonotonic
    <3>2. Append(f.out, e) = f.out \o <<e>>
      BY <3>1, AppendIsConcat
    <3> QED BY <1>2, <2>1, <2>2, <3>2, Zenon
  <2>5. PICK d \in Seq(T) : d = b \o f.out
    BY <1>1, ConcatProperties
  <2>6. Shown(Append(d, e), f.blocks)
    <3>1. f.blocks \subseteq Nat /\ Shown(d, f.blocks) /\ ~Has(d, Terminal)
      BY <2>5 DEF Carries
    <3> QED BY <2>3, <3>1, ShowMore
  <2>7. e # Terminal /\ \A i : e # BlockStart(i) /\ e # BlockStop(i)
    BY <2>3 DEF BlockStart, BlockStop, Terminal
  <2>8. /\ g.shape \in {NoShape, OpenAi} \cup {Anthropic(i) : i \in g.blocks} /\ g.blocks \subseteq Nat
        /\ Shown(Append(b \o f.out, e), g.blocks)
    BY <1>2, <2>5, <2>6 DEF Carries
  <2>9. Carries(g, b, s)
    BY <1>2, <2>4, <2>7, <2>8, Adds
  <2>10. ~Has(b \o g.out, Terminal)
    <3>1. b \o g.out = Append(d, e)
      <4>1. PICK o \in Seq(T) : o = f.out
        BY <1>1
      <4>2. b \o Append(o, e) = Append(b \o o, e)
        BY <1>1, OutGrows
      <4> QED BY <2>4, <2>5, <4>1, <4>2, Zenon
    <3>2. Has(Append(d, e), Terminal) <=> Has(d, Terminal) \/ Terminal = e
      BY Appended
    <3> QED BY <2>5, <2>7, <3>1, <3>2, Zenon
  <2> QED BY <1>2, <2>9, <2>10 DEF g
<1> QED BY <1>3, <1>4, TailIs

\* An event that follows those before it is turned into frames that follow theirs.
LEMMA TransformKeeps ==
  ASSUME NEW f, NEW b, NEW S, NEW s \in Seq(S), NEW ev \in Events, Carries(f, b, s), Follows(s, ev)
  PROVE  Carries(TransformEvent(f, ev), b, Append(s, ev))
<1> DEFINE t == Append(s, ev)
<1>1. /\ \A x : Has(t, x) <=> Has(s, x) \/ x = ev
      /\ \A i : Begun(t, i) <=> Begun(s, i) \/ (ev.kind \in {"start", "text"} /\ ev.index = i)
  BY Appended
<1> HIDE DEF t
<1>2. PICK T : b \in Seq(T) /\ f.out \in Seq(T)
  BY DEF Carries
<1>3. PICK d \in Seq(T) : d = b \o f.out
  BY <1>2, ConcatProperties
<1>4. /\ Shown(d, f.blocks) /\ Backed(d, s) /\ f.blocks \subseteq Nat /\ ~Has(d, Terminal)
  BY <1>3 DEF Carries, Follows, Backed
<1>5. ev = [kind |-> ev.kind, index |-> ev.index, text |-> ev.text]
  BY DEF Events, OpenAiDelta, TextDelta, BlockStart, BlockStop, Terminal
<1>6. CASE ev.kind = "delta" \/ (ev.kind = "text" /\ ev.index \in f.blocks)
  <2>1. TransformEvent(f, ev) = Rewrite(f, ev)
    BY <1>6, TransformIs DEF OpenBlock, ReleaseTail, CloseBlock
  <2> QED BY <1>1, <1>3, <1>4, <1>5, <1>6, <2>1, TextKeeps DEF t
<1>7. CASE ev.kind = "text" /\ ev.index \notin f.blocks
  <2> DEFINE g == OpenBlock(f, ev)
             i == ev.index
  <2>1. TransformEvent(f, ev) = Rewrite(g, ev)
    BY <1>7, TransformIs DEF OpenBlock, ReleaseTail, CloseBlock
  <2>2. /\ IsFilter(g) /\ g.out = Append(f.out, BlockStart(i)) /\ g.blocks = f.blocks \cup {i}
        /\ g.shape = f.shape /\ g.stripper = f.stripper
    BY <1>7 DEF OpenBlock, Carries, IsFilter
  <2> HIDE DEF g
  <2>3. i \in Nat
    BY <1>7 DEF Events, OpenAiDelta, TextDelta, BlockStart, BlockStop, Terminal
  <2>4. ~Has(d, BlockStop(i)) /\ ~Has(d, BlockStart(i))
    <3>1. ~Has(s, BlockStop(i))
      BY <1>7 DEF Follows
    <3> QED BY <1>4, <1>7, <2>3, <3>1 DEF Backed, Shown
  <2>5. Shown(Append(d, BlockStart(i)), f.blocks \cup {i})
    BY <1>4, <2>3, <2>4, ShowMore
  <2>6. Shown(Append(b \o f.out, BlockStart(i)), g.blocks)
    BY <1>3, <2>2, <2>5, Zenon
  <2>7. /\ BlockStart(i) # Terminal
        /\ \A j : BlockStart(i) # BlockStop(j) /\ (BlockStart(i) = BlockStart(j) => i = j)
    BY DEF BlockStart, BlockStop, Terminal
  <2>8. /\ g.shape \in {NoShape, OpenAi} \cup {Anthropic(j) : j \in g.blocks} /\ g.blocks \subseteq Nat
    BY <1>4, <2>2, <2>3 DEF Carries
  <2>9. Carries(g, b, t)
    <3>1. Begun(t, i)
      BY <1>1, <1>7
    <3>2. ~Has(b \o f.out, Terminal)
      BY <1>3, <1>4
    <3> HIDE DEF i
    <3> QED BY <1>1, <2>2, <2>6, <2>7, <2>8, <3>1, <3>2, Adds
  <2>10. ~Has(b \o g.out, Terminal)
    <3>1. b \o g.out = Append(d, BlockStart(i))
      <4>1. PICK o \in Seq(T) : o = f.out
        BY <1>2
      <4>2. PICK e : e = BlockStart(i)
        OBVIOUS
      <4>3. b \o Append(o, e) = Append(b \o o, e)
        BY <1>2, OutGrows
      <4> QED BY <1>3, <2>2, <4>1, <4>2, <4>3, Zenon
    <3>2. Has(Append(d, BlockStart(i)), Terminal) <=> Has(d, Terminal) \/ Terminal = BlockStart(i)
      BY Appended
    <3> QED BY <1>4, <2>7, <3>1, <3>2, Zenon
  <2>11. Carries(Rewrite(g, ev), b, t)
    <3>1. ev.index \in g.blocks
      BY <2>2
    <3> QED BY <1>5, <1>7, <2>9, <2>10, <3>1, TextKeeps
  <2> QED BY <2>1, <2>11 DEF t
<1>8. CASE ev.kind = "start"
  <2> DEFINE g == TransformEvent(f, ev)
             i == ev.index
  <2>1. g = [f EXCEPT !.blocks = @ \cup {i}, !.out = Append(@, ev)]
    BY <1>8, TransformIs DEF OpenBlock, ReleaseTail, CloseBlock, Rewrite, Carries, IsFilter
  <2>2. /\ IsFilter(g) /\ g.out = Append(f.out, ev) /\ g.blocks = f.blocks \cup {i}
        /\ g.shape = f.shape /\ g.stripper = f.stripper
    BY <2>1 DEF Carries, IsFilter
  <2> HIDE DEF g
  <2>3. i \in Nat /\ ev = BlockStart(i)
    BY <1>8 DEF Events, OpenAiDelta, TextDelta, BlockStart, BlockStop, Terminal
  <2>4. ~Has(d, BlockStop(i)) /\ ~Has(d, BlockStart(i))
    <3>1. ~Has(s, BlockStop(i)) /\ ~Begun(s, i)
      BY <1>8 DEF Follows
    <3> QED BY <1>4, <2>3, <3>1 DEF Backed
  <2>5. Shown(Append(d, BlockStart(i)), f.blocks \cup {i})
    BY <1>4, <2>3, <2>4, ShowMore
  <2>6. Shown(Append(b \o f.out, ev), g.blocks)
    BY <1>3, <2>2, <2>3, <2>5, Zenon
  <2>7. /\ BlockStart(i) # Terminal
        /\ \A j : BlockStart(i) # BlockStop(j) /\ (BlockStart(i) = BlockStart(j) => i = j)
    BY DEF BlockStart, BlockStop, Terminal
  <2>8. /\ g.shape \in {NoShape, OpenAi} \cup {Anthropic(j) : j \in g.blocks} /\ g.blocks \subseteq Nat
    BY <1>4, <2>2, <2>3 DEF Carries
  <2>9. Begun(t, i) /\ ~Has(b \o f.out, Terminal)
    BY <1>1, <1>3, <1>4, <1>8
  <2> HIDE DEF i
  <2>10. Carries(g, b, t)
    BY <1>1, <2>2, <2>3, <2>6, <2>7, <2>8, <2>9, Adds
  <2> QED BY <2>10 DEF g, t
<1>9. CASE ev.kind \in {"stop", "end"}
  <2> DEFINE r == ReleaseTail(f, ev)
             g == TransformEvent(f, ev)
             left == IF ev.kind = "stop" THEN r.blocks \ {ev.index} ELSE r.blocks
  <2>1. Carries(r, b, s) /\ ~Has(b \o r.out, Terminal) /\ r.stripper = Fresh
    BY <1>3, <1>4, <1>9, TailKeeps
  <2>2. g = CloseBlock([r EXCEPT !.out = Append(@, ev)], ev)
    BY <1>9, TransformIs DEF OpenBlock, Rewrite
  <2> HIDE DEF r
  <2>3. /\ IsFilter(g) /\ g.out = Append(r.out, ev) /\ g.stripper = Fresh /\ g.blocks = left
        /\ g.shape = IF ev.kind = "stop" /\ r.shape = Anthropic(ev.index) THEN NoShape ELSE r.shape
    BY <1>9, <2>1, <2>2 DEF Carries, IsFilter, CloseBlock
  <2> HIDE DEF g
  <2>4. PICK U : b \in Seq(U) /\ r.out \in Seq(U)
    BY <2>1 DEF Carries
  <2>5. PICK c \in Seq(U) : c = b \o r.out
    BY <2>4, ConcatProperties
  <2>6. Shown(c, r.blocks) /\ r.blocks \subseteq Nat /\ ~Has(c, Terminal)
    BY <2>1, <2>5 DEF Carries
  <2>7. Shown(Append(c, ev), left)
    <3>1. CASE ev.kind = "stop"
      <4>1. ev.index \in Nat /\ ev = BlockStop(ev.index)
        BY <3>1 DEF Events, OpenAiDelta, TextDelta, BlockStart, BlockStop, Terminal
      <4>2. Shown(Append(c, BlockStop(ev.index)), r.blocks \ {ev.index})
        BY <2>6, <4>1, ShowMore
      <4> QED BY <3>1, <4>1, <4>2, Zenon
    <3>2. CASE ev.kind = "end"
      <4>1. ev = Terminal
        BY <3>2 DEF Events, OpenAiDelta, TextDelta, BlockStart, BlockStop, Terminal
      <4>2. Shown(Append(c, Terminal), r.blocks)
        BY <2>6, ShowMore
      <4> QED BY <3>2, <4>1, <4>2
    <3> QED BY <1>9, <3>1, <3>2
  <2>8. Shown(Append(b \o r.out, ev), g.blocks)
    BY <2>3, <2>5, <2>7, Zenon
  <2>9. g.shape \in {NoShape, OpenAi} \cup {Anthropic(j) : j \in g.blocks} /\ g.blocks \subseteq Nat
    <3>1. \A j : Anthropic(j) = Anthropic(ev.index) <=> j = ev.index
      BY DEF Anthropic
    <3>2. r.shape \in {NoShape, OpenAi} \cup {Anthropic(j) : j \in r.blocks}
      BY <2>1 DEF Carries
    <3> QED BY <2>3, <2>6, <3>1, <3>2
  <2>10. /\ \A j \in Nat : ev # BlockStart(j)
         /\ Has(t, ev)
    BY <1>1, <1>9 DEF BlockStart
  <2>11. Carries(g, b, t)
    <3>1. \A j \in Nat : ev = BlockStop(j) => Has(t, BlockStop(j))
      BY <2>10
    <3>2. ev = Terminal => Has(t, Terminal)
      BY <2>10
    <3>3. \A x : Has(s, x) => Has(t, x)
      BY <1>1
    <3>4. \A j \in Nat : Begun(s, j) => Begun(t, j)
      BY <1>1
    <3>5. IsFilter(g) /\ g.out = Append(r.out, ev) /\ g.stripper = Fresh
      BY <2>3
    <3>6. \A j \in Nat : ev = BlockStart(j) => Begun(t, j)
      BY <2>10
    <3>7. Carries(r, b, s)
      BY <2>1
    <3> HIDE DEF left
    <3> QED BY <2>8, <2>9, <3>1, <3>2, <3>3, <3>4, <3>5, <3>6, <3>7, Adds
  <2> QED BY <2>11 DEF g, t
<1>10. ev.kind \in {"delta", "text", "start", "stop", "end"}
  BY DEF Events, OpenAiDelta, TextDelta, BlockStart, BlockStop, Terminal
<1>11. CASE ev.kind \in {"delta", "text"}
  BY <1>6, <1>7, <1>11
<1> QED BY <1>8, <1>9, <1>10, <1>11

-----------------------------------------------------------------------------
(* The text of the blocks. The filter holds, of the block whose text came      *)
(* last, what the frames do not show yet: what strip_think leaves of the text  *)
(* of the block, if it went on with z, is what they show and what the stripper *)
(* would show of what it holds and z (Continues). So it is until the block or  *)
(* the answer ends, when all that is held is shown.                            *)

\* A set of sequences that has the empty one and every one that is one element
\* longer than one of its own has them all.
LEMMA AllSequences ==
  ASSUME NEW T, NEW S, <<>> \in S, \A s \in Seq(T), e \in T : s \in S => Append(s, e) \in S
  PROVE  Seq(T) \subseteq S
<1> DEFINE N == {n \in Nat : \A s \in Seq(T) : Len(s) = n => s \in S}
<1>1. 0 \in N
  BY EmptySeq
<1>2. ASSUME NEW n \in Nat, n \in N
      PROVE  n + 1 \in N
  <2>1. SUFFICES ASSUME NEW s \in Seq(T), Len(s) = n + 1
                 PROVE  s \in S
    OBVIOUS
  <2> DEFINE u == [i \in 1..n |-> s[i]]
  <2>2. u \in Seq(T) /\ Len(u) = n
    BY <2>1
  <2>3. s[n + 1] \in T /\ s = Append(u, s[n + 1])
    BY <2>1, <2>2
  <2>4. u \in S
    BY <1>2, <2>2
  <2> QED BY <2>2, <2>3, <2>4
<1> HIDE DEF N
<1>3. Nat \subseteq N
  BY <1>1, <1>2, AllNumbers
<1> QED BY <1>3 DEF N

LEMMA BytesOne ==
  ASSUME NEW text \in Text, NEW c \in Chars
  PROVE  Bytes(Append(text, c)) = Bytes(text) + (IF c \in Wide THEN 2 ELSE 1)
<1> DEFINE longer == Append(text, c)
           W == {i \in DOMAIN text : text[i] \in Wide}
           V == {i \in DOMAIN longer : longer[i] \in Wide}
<1>1. /\ Len(text) \in Nat /\ Len(longer) = Len(text) + 1
      /\ DOMAIN text = 1..Len(text) /\ DOMAIN longer = 1..(Len(text) + 1)
      /\ longer[Len(text) + 1] = c /\ \A i \in 1..Len(text) : longer[i] = text[i]
  BY AppendProperties, LenProperties DEF Text
<1>2. IsFiniteSet(W)
  <2>1. IsFiniteSet(1..Len(text)) /\ W \subseteq 1..Len(text)
    BY <1>1, FS_Interval
  <2> QED BY <2>1, FS_Subset
<1>3. /\ Bytes(text) = Len(text) + Cardinality(W)
      /\ Bytes(longer) = Len(longer) + Cardinality(V)
  BY DEF Bytes
<1> HIDE DEF longer
<1>4. V = IF c \in Wide THEN W \cup {Len(text) + 1} ELSE W
  BY <1>1
<1>5. Len(text) + 1 \notin W
  BY <1>1
<1>6. Cardinality(W) \in Nat /\ Cardinality(W \cup {Len(text) + 1}) = Cardinality(W) + 1
  BY <1>2, <1>5, FS_AddElement, FS_CardinalityType
<1> HIDE DEF W, V
<1>7. Bytes(longer) = Bytes(text) + (IF c \in Wide THEN 2 ELSE 1)
  BY <1>1, <1>3, <1>4, <1>6
<1> QED BY <1>7 DEF longer

LEMMA BytesJoined ==
  ASSUME NEW text \in Text, NEW more \in Text
  PROVE  Bytes(text \o more) = Bytes(text) + Bytes(more)
<1> DEFINE S == {x \in Text : Bytes(text \o x) = Bytes(text) + Bytes(x)}
<1>1. <<>> \in S
  BY Nothing, NoBytes, BytesIsNat DEF Text
<1>2. ASSUME NEW x \in Text, NEW c \in Chars, x \in S PROVE Append(x, c) \in S
  <2>1. Append(x, c) \in Text /\ text \o x \in Text
    BY Joined, AppendProperties DEF Text
  <2>2. text \o Append(x, c) = Append(text \o x, c)
    BY OutGrows DEF Text
  <2>3. PICK w \in Text : w = text \o x
    BY <2>1
  <2>4. /\ Bytes(Append(w, c)) = Bytes(w) + (IF c \in Wide THEN 2 ELSE 1)
        /\ Bytes(Append(x, c)) = Bytes(x) + (IF c \in Wide THEN 2 ELSE 1)
    BY BytesOne
  <2>5. Bytes(w) = Bytes(text) + Bytes(x)
    BY <1>2, <2>3
  <2>6. Bytes(text) \in Nat /\ Bytes(x) \in Nat
    BY BytesIsNat DEF Text
  <2>7. Bytes(text \o Append(x, c)) = Bytes(text) + Bytes(Append(x, c))
    BY <2>2, <2>3, <2>4, <2>5, <2>6
  <2> QED BY <2>1, <2>7
<1>3. Seq(Chars) \subseteq S
  <2> HIDE DEF S
  <2> QED BY <1>1, <1>2, AllSequences DEF Text
<1> QED BY <1>3 DEF Text

Settled(st) == IF st.in_think THEN ~Occurs(CLOSE, st.buf) ELSE ~Occurs(OPEN, st.buf)

LEMMA BytesOfEnd ==
  ASSUME NEW text \in Text, NEW n \in 0..Len(text)
  PROVE  Bytes(SubSeq(text, n + 1, Len(text))) <= Bytes(text)
<1>1. PICK a, b : a = SubSeq(text, 1, n) /\ b = SubSeq(text, n + 1, Len(text))
  OBVIOUS
<1>2. a \in Text /\ b \in Text /\ text = a \o b
  BY <1>1, CutAndJoined
<1>3. Bytes(text) = Bytes(a) + Bytes(b) /\ Bytes(a) \in Nat /\ Bytes(b) \in Nat
  BY <1>2, BytesJoined, BytesIsNat DEF Text
<1> QED BY <1>1, <1>3

LEMMA BytesBehind ==
  ASSUME NEW text \in Text, NEW tag \in Tag, Occurs(tag, text)
  PROVE  Bytes(After(tag, text)) <= Bytes(text)
<1>1. PICK n \in Nat : n = First(tag, text) + Len(tag) - 1 /\ n <= Len(text)
  <2>1. /\ First(tag, text) \in 1..Len(text) /\ At(tag, text, First(tag, text))
        /\ Len(text) \in Nat /\ Len(tag) \in Nat
    BY FirstIsFirst, LenProperties DEF Text, Tag
  <2> QED BY <2>1 DEF At
<1>2. n \in 0..Len(text) /\ n + 1 = First(tag, text) + Len(tag)
  <2>1. Len(text) \in Nat /\ Len(tag) \in Nat /\ First(tag, text) \in 1..Len(text)
    BY FirstIsFirst, LenProperties DEF Text, Tag
  <2> QED BY <1>1, <2>1
<1>3. After(tag, text) = SubSeq(text, n + 1, Len(text))
  BY <1>2 DEF After
<1> QED BY <1>2, <1>3, BytesOfEnd

\* A turn: it leaves less to look at, or the loop ends with nothing to act on.
LEMMA ScanShrinks ==
  ASSUME NEW st \in Strippers, st.going
  PROVE  /\ Scan(st) \in Strippers
         /\ Scan(st).going => Len(Scan(st).buf) < Len(st.buf)
         /\ ~Scan(st).going => Settled(Scan(st))
         /\ Bytes(Scan(st).buf) <= Bytes(st.buf)
<1>1. st \in [buf : Seq(Chars), in_think : BOOLEAN, out : Seq(Chars), going : BOOLEAN]
  BY DEF Strippers, Text
<1>2. /\ Scan(st) \in Strippers
      /\ ~Scan(st).going => Settled(Scan(st))
  BY <1>1, ScanOK DEF Strippers, Text, Settled
<1>3. PICK buf \in Text : buf = st.buf
  BY DEF Strippers
<1>4. Bytes(buf) \in Nat /\ Len(buf) \in Nat
  BY BytesIsNat, LenProperties DEF Text
<1>5. CASE st.in_think /\ Occurs(CLOSE, buf)
  <2>1. Scan(st).buf = After(CLOSE, buf)
    BY <1>3, <1>5 DEF Strippers, Scan, CloseSpan, GivesUp
  <2> QED BY <1>2, <1>3, <1>5, <2>1, AfterIsShorter, BytesBehind, TagsAreTags
<1>6. CASE GivesUp(st)
  <2>1. Scan(st).buf = <<>>
    BY <1>3, <1>6 DEF Strippers, Scan, GivesUp, GiveUpSpan
  <2>2. Bytes(buf) > 0
    <3>1. THINK_BAILOUT \in Nat
      BY ThinkAssumption
    <3> QED BY <1>3, <1>4, <1>6, <3>1 DEF GivesUp
  <2>3. Len(buf) > 0
    <3>1. Len(buf) = 0 => buf = <<>>
      BY EmptySeq DEF Text
    <3> QED BY <1>4, <2>2, <3>1, NoBytes
  <2>4. Len(<<>>) = 0
    OBVIOUS
  <2> QED BY <1>2, <1>3, <1>4, <2>1, <2>3, <2>4, NoBytes
<1>7. CASE st.in_think /\ ~Occurs(CLOSE, buf) /\ ~GivesUp(st)
  <2>1. Scan(st).buf = buf /\ ~Scan(st).going
    BY <1>3, <1>7 DEF Strippers, Scan, GivesUp
  <2> QED BY <1>2, <1>3, <1>4, <2>1
<1>8. CASE ~st.in_think /\ Occurs(OPEN, buf)
  <2>1. Scan(st).buf = After(OPEN, buf)
    BY <1>3, <1>8 DEF Strippers, Scan, GivesUp, OpenSpan
  <2> QED BY <1>2, <1>3, <1>8, <2>1, AfterIsShorter, BytesBehind, TagsAreTags
<1>9. CASE ~st.in_think /\ ~Occurs(OPEN, buf)
  <2>1. /\ Scan(st).buf = SubSeq(buf, HoldbackStart(buf) + 1, Len(buf)) /\ ~Scan(st).going
    BY <1>3, <1>9 DEF Strippers, Scan, GivesUp, EmitSafePrefix
  <2>2. HoldbackStart(buf) \in 0..Len(buf)
    BY HoldbackIsSmall DEF Text
  <2> QED BY <1>2, <1>3, <2>1, <2>2, BytesOfEnd
<1> QED BY <1>3, <1>5, <1>6, <1>7, <1>8, <1>9

\* push: the turns of its loop.
AreTurns(turn, st, chunk, N) ==
  /\ turn[0] = Take(st, chunk)
  /\ \A n \in 1..N : turn[n] = Turn(turn[n - 1])
  /\ StripperPush(st, chunk) = turn[N]

LEMMA PushTurns ==
  ASSUME NEW st, NEW chunk, NEW N \in Nat, N = Len(st.buf) + Len(chunk) + 2
  PROVE  \E turn : AreTurns(turn, st, chunk, N)
<1> DEFINE R(g, n) == IF n = 0 THEN Take(st, chunk) ELSE Through(Turn, g[n - 1])
<1>1. PICK turn :
          /\ turn = CHOOSE g : g = [n \in 0..N |-> R(g, n)]
          /\ StripperPush(st, chunk) = turn[N]
  BY Zenon DEF StripperPush
<1>2. \A g, h, n : g[n - 1] = h[n - 1] => R(g, n) = R(h, n)
  OBVIOUS
<1>3. \A g : R(g, 0) = Take(st, chunk)
  OBVIOUS
<1>4. \A g : \A n \in Nat \ {0} : R(g, n) = Turn(g[n - 1])
  BY DEF Through
<1> DEFINE E == {k \in Nat : \E g : g = [n \in 0..k |-> R(g, n)]}
<1> HIDE DEF R
<1>5. 0 \in E
  <2> DEFINE g == [n \in 0..0 |-> R(<<>>, 0)]
  <2>1. \A n \in 0..0 : R(g, n) = R(<<>>, 0)
    BY <1>3
  <2> QED BY <2>1
<1>6. ASSUME NEW k \in Nat, k \in E PROVE k + 1 \in E
  <2>1. PICK g : g = [n \in 0..k |-> R(g, n)]
    BY <1>6
  <2> DEFINE h == [n \in 0..(k + 1) |-> R(g, n)]
  <2>2. \A n \in 0..k : h[n] = g[n]
    BY <2>1
  <2>3. \A n \in 0..(k + 1) : R(h, n) = R(g, n)
    <3> SUFFICES ASSUME NEW n \in 0..(k + 1) PROVE R(h, n) = R(g, n)
      OBVIOUS
    <3>1. CASE n = 0
      BY <1>3, <3>1
    <3>2. CASE n # 0
      <4>1. n - 1 \in 0..k
        BY <3>2
      <4>2. h[n - 1] = g[n - 1]
        BY <2>2, <4>1
      <4> HIDE DEF h
      <4> QED BY <1>2, <4>2
    <3> QED BY <3>1, <3>2
  <2>4. h = [n \in 0..(k + 1) |-> R(h, n)]
    BY <2>3
  <2>5. \E longer : longer = [n \in 0..(k + 1) |-> R(longer, n)]
    <3> HIDE DEF h
    <3> QED BY <2>4
  <2> QED BY <2>5
<1>7. N \in E
  <2> HIDE DEF E
  <2> QED BY <1>5, <1>6, AllNumbers
<1>8. turn = [n \in 0..N |-> R(turn, n)]
  BY <1>1, <1>7
<1>9. turn[0] = Take(st, chunk)
  BY <1>3, <1>8
<1>10. ASSUME NEW n \in 1..N
       PROVE  turn[n] = Turn(turn[n - 1])
  <2>1. n \in 0..N /\ n \in Nat \ {0}
    OBVIOUS
  <2>2. turn[n] = R(turn, n)
    BY <1>8, <2>1
  <2> QED BY <1>4, <2>1, <2>2
<1> QED BY <1>1, <1>9, <1>10 DEF AreTurns

\* After n turns of a push of chunk to st: the loop is over, or there is that much
\* less to look at; and unless a span may have been given up, what is seen has not
\* changed.
AfterTurns(t, n, st, chunk) ==
  /\ t \in Strippers
  /\ t.going => Len(t.buf) + n <= Len(st.buf) + Len(chunk)
  /\ ~t.going => Settled(t)
  /\ Bytes(t.buf) <= Bytes(st.buf \o chunk)
  /\ Bytes(st.buf \o chunk) <= THINK_BAILOUT =>
       \A z \in Text : Sees(t, z) = Sees(st, chunk \o z)

LEMMA FirstTurn ==
  ASSUME NEW st \in Strippers, NEW chunk \in Text
  PROVE  AfterTurns(Take(st, chunk), 0, st, chunk)
<1>1. PICK buf \in Text : buf = st.buf
  BY DEF Strippers
<1>2. Take(st, chunk).buf = buf \o chunk /\ Take(st, chunk).going
  BY <1>1 DEF Take, Strippers
<1>3. buf \o chunk \in Text /\ Len(buf \o chunk) = Len(buf) + Len(chunk) /\ Len(buf) + Len(chunk) \in Nat
  BY WholeIs
<1>4. Bytes(buf \o chunk) \in Nat
  BY <1>3, BytesIsNat DEF Text
<1>5. Take(st, chunk) \in Strippers
  <2>1. PICK longer \in Text : longer = st.buf \o chunk
    BY <1>1, <1>3
  <2>2. [st EXCEPT !.buf = longer, !.going = TRUE] \in Strippers
    BY DEF Strippers
  <2> QED BY <2>1, <2>2 DEF Take
<1>6. \A z \in Text : Sees(Take(st, chunk), z) = Sees(st, chunk \o z)
  BY TakeSees
<1>7. Len(buf \o chunk) + 0 <= Len(buf) + Len(chunk)
  BY <1>3
<1>8. Bytes(buf \o chunk) <= Bytes(buf \o chunk)
  BY <1>4
<1> QED BY <1>1, <1>2, <1>5, <1>6, <1>7, <1>8, Zenon DEF AfterTurns

LEMMA NextTurn ==
  ASSUME NEW st \in Strippers, NEW chunk \in Text, NEW t, NEW n \in Nat, AfterTurns(t, n, st, chunk)
  PROVE  AfterTurns(Turn(t), n + 1, st, chunk)
<1>1. t \in Strippers
  BY DEF AfterTurns
<1>2. CASE ~t.going
  BY <1>2 DEF Turn, AfterTurns
<1>3. CASE t.going
  <2>1. Turn(t) = Scan(t)
    BY <1>3 DEF Turn
  <2>2. /\ Scan(t) \in Strippers
        /\ Scan(t).going => Len(Scan(t).buf) < Len(t.buf)
        /\ ~Scan(t).going => Settled(Scan(t))
        /\ Bytes(Scan(t).buf) <= Bytes(t.buf)
    BY <1>1, <1>3, ScanShrinks
  <2>3. PICK a \in Text, b \in Text, c \in Text : a = Scan(t).buf /\ b = t.buf /\ c = st.buf
    BY <1>1, <2>2 DEF Strippers
  <2>4. /\ Len(a) \in Nat /\ Len(b) \in Nat /\ Len(c) \in Nat /\ Len(chunk) \in Nat
        /\ Bytes(a) \in Nat /\ Bytes(b) \in Nat
    BY BytesIsNat, LenProperties DEF Text
  <2>5. c \o chunk \in Text /\ Bytes(c \o chunk) \in Nat
    BY Joined, BytesIsNat DEF Text
  <2>6. ASSUME Bytes(c \o chunk) <= THINK_BAILOUT, NEW z \in Text
        PROVE  Sees(Scan(t), z) = Sees(st, chunk \o z)
    <3>1. Bytes(b) <= Bytes(c \o chunk)
      BY <2>3 DEF AfterTurns
    <3>2. ~GivesUp(t)
      <4>1. THINK_BAILOUT \in Nat
        BY ThinkAssumption
      <4> QED BY <2>3, <2>4, <2>5, <2>6, <3>1, <4>1 DEF GivesUp
    <3>3. Sees(Scan(t), z) = Sees(t, z)
      BY <1>1, <1>3, <3>2, ScanSees
    <3>4. Sees(t, z) = Sees(st, chunk \o z)
      BY <2>3, <2>6 DEF AfterTurns
    <3> QED BY <3>3, <3>4
  <2>7. Bytes(a) <= Bytes(c \o chunk)
    <3>1. Bytes(b) <= Bytes(c \o chunk)
      BY <2>3 DEF AfterTurns
    <3> QED BY <2>2, <2>3, <2>4, <2>5, <3>1
  <2>8. Scan(t).going => Len(a) + (n + 1) <= Len(c) + Len(chunk)
    <3>1. Len(b) + n <= Len(c) + Len(chunk)
      BY <1>3, <2>3 DEF AfterTurns
    <3>2. Scan(t).going => Len(a) < Len(b)
      BY <2>2, <2>3
    <3>3. Len(a) < Len(b) => Len(a) + (n + 1) <= Len(c) + Len(chunk)
      BY <2>4, <3>1
    <3> QED BY <3>2, <3>3
  <2> QED BY <2>1, <2>2, <2>3, <2>6, <2>7, <2>8 DEF AfterTurns
<1> QED BY <1>2, <1>3

\* One push.
LEMMA PushSees ==
  ASSUME NEW st \in Strippers, NEW chunk \in Text
  PROVE  /\ StripperPush(st, chunk) \in Strippers
         /\ ~StripperPush(st, chunk).going
         /\ Settled(StripperPush(st, chunk))
         /\ Bytes(StripperPush(st, chunk).buf) <= Bytes(st.buf \o chunk)
         /\ Bytes(st.buf \o chunk) <= THINK_BAILOUT =>
              \A z \in Text : Sees(StripperPush(st, chunk), z) = Sees(st, chunk \o z)
<1>1. PICK buf \in Text : buf = st.buf
  BY DEF Strippers
<1>2. Len(buf) \in Nat /\ Len(chunk) \in Nat
  BY LenProperties DEF Text
<1>3. PICK N \in Nat : N = Len(st.buf) + Len(chunk) + 2
  BY <1>1, <1>2
<1>0. PICK turn : AreTurns(turn, st, chunk, N)
  BY <1>3, PushTurns
<1>4. /\ turn[0] = Take(st, chunk)
      /\ \A n \in 1..N : turn[n] = Turn(turn[n - 1])
      /\ StripperPush(st, chunk) = turn[N]
  BY <1>0 DEF AreTurns
<1> DEFINE E == {n \in Nat : n <= N => AfterTurns(turn[n], n, st, chunk)}
<1>5. 0 \in E
  BY <1>4, FirstTurn
<1>6. ASSUME NEW n \in Nat, n \in E PROVE n + 1 \in E
  <2>1. CASE n + 1 <= N
    <3>1. AfterTurns(turn[n], n, st, chunk)
      BY <1>6, <2>1
    <3>2. turn[n + 1] = Turn(turn[n])
      <4>1. n + 1 \in 1..N /\ (n + 1) - 1 = n
        BY <2>1
      <4> QED BY <1>4, <4>1
    <3>3. AfterTurns(Turn(turn[n]), n + 1, st, chunk)
      BY <3>1, NextTurn
    <3> QED BY <3>2, <3>3
  <2>2. CASE ~(n + 1 <= N)
    BY <2>2
  <2> QED BY <2>1, <2>2
<1>7. N \in E
  <2> HIDE DEF E
  <2> QED BY <1>5, <1>6, AllNumbers
<1>8. AfterTurns(StripperPush(st, chunk), N, st, chunk)
  BY <1>4, <1>7
<1>9. ~StripperPush(st, chunk).going
  <2>1. PICK p : p = StripperPush(st, chunk) /\ p \in Strippers
    BY <1>8 DEF AfterTurns
  <2>2. PICK held \in Text : held = p.buf
    BY <2>1 DEF Strippers
  <2>3. Len(held) \in Nat
    BY LenProperties DEF Text
  <2>4. p.going => Len(held) + N <= Len(buf) + Len(chunk)
    BY <1>1, <1>8, <2>1, <2>2 DEF AfterTurns
  <2> QED BY <1>1, <1>2, <1>3, <2>1, <2>3, <2>4
<1> QED BY <1>8, <1>9 DEF AfterTurns

-----------------------------------------------------------------------------
\* The filter holds st of a block of which A came and D was shown.
Continues(st, A, D) ==
  /\ Bytes(st.buf) <= Bytes(A)
  /\ \A z \in Text : StripThink(A \o z) = D \o Sees(st, z)

LEMMA ContinuesFresh == Continues(Fresh, <<>>, <<>>)
<1>1. Fresh.buf = <<>> /\ Fresh.out = <<>> /\ ~Fresh.in_think /\ Bytes(<<>>) <= Bytes(<<>>)
  BY NoBytes DEF Fresh
<1>2. \A z \in Text : StripThink(z) \in Text
  BY StripIs
<1> QED BY <1>1, <1>2, Nothing DEF Continues, Sees, Rest

LEMMA ContinuesPush ==
  ASSUME NEW st \in Strippers, NEW A \in Text, NEW D \in Text, NEW text \in Text,
         Continues(st, A, D), Bytes(A \o text) <= THINK_BAILOUT,
         NEW p, p = StripperPush(st, text)
  PROVE  Continues(Handed(p), A \o text, D \o p.out)
<1>1. PICK buf \in Text : buf = st.buf
  BY DEF Strippers
<1>2. /\ Bytes(A) \in Nat /\ Bytes(text) \in Nat /\ Bytes(buf) \in Nat
      /\ Bytes(A \o text) = Bytes(A) + Bytes(text)
      /\ Bytes(buf \o text) = Bytes(buf) + Bytes(text)
  BY BytesIsNat, BytesJoined DEF Text
<1>3. Bytes(buf \o text) <= Bytes(A \o text)
  BY <1>1, <1>2 DEF Continues
<1>4. Bytes(buf \o text) <= THINK_BAILOUT
  <2>1. THINK_BAILOUT \in Nat
    BY ThinkAssumption
  <2> QED BY <1>2, <1>3, <2>1
<1>5. /\ p \in Strippers /\ Bytes(p.buf) <= Bytes(buf \o text)
      /\ \A z \in Text : Sees(p, z) = Sees(st, text \o z)
  BY <1>1, <1>4, PushSees
<1>6. PICK held \in Text, shown \in Text : held = p.buf /\ shown = p.out
  BY <1>5 DEF Strippers
<1>7. Handed(p).buf = held /\ Handed(p).in_think = p.in_think /\ Handed(p).out = <<>>
  BY <1>5, <1>6 DEF Handed, Strippers
<1>8. Bytes(held) <= Bytes(A \o text)
  <2>1. Bytes(held) \in Nat
    BY BytesIsNat DEF Text
  <2> QED BY <1>2, <1>3, <1>5, <1>6, <2>1
<1>9. ASSUME NEW z \in Text
      PROVE  StripThink((A \o text) \o z) = (D \o shown) \o Sees(Handed(p), z)
  <2>1. text \o z \in Text /\ (A \o text) \o z = A \o (text \o z)
    <3>1. text \o z \in Text
      BY Joined
    <3>2. FromLeft(A, text, z) = FromRight(A, text, z)
      BY JoinedThrice
    <3> QED BY <3>1, <3>2, Zenon DEF FromLeft, FromRight
  <2>2. StripThink(A \o (text \o z)) = D \o Sees(st, text \o z)
    BY <2>1 DEF Continues
  <2>3. PICK rest \in Text : rest = Rest(p.in_think, held \o z)
    BY Joined, RestIsText
  <2>4. Sees(p, z) = shown \o rest
    BY <1>6, <2>3, Zenon DEF Sees
  <2>5. Sees(Handed(p), z) = rest
    BY <1>7, <2>3, Nothing DEF Sees
  <2>6. (D \o shown) \o rest = D \o (shown \o rest)
    <3>1. FromLeft(D, shown, rest) = FromRight(D, shown, rest)
      BY JoinedThrice
    <3> QED BY <3>1, Zenon DEF FromLeft, FromRight
  <2>7. Sees(p, z) = Sees(st, text \o z)
    BY <1>5
  <2> QED BY <2>1, <2>2, <2>4, <2>5, <2>6, <2>7, Zenon
<1> QED BY <1>6, <1>7, <1>8, <1>9 DEF Continues

\* A block that ends shows what is held of it.
LEMMA ContinuesEnds ==
  ASSUME NEW st \in Strippers, NEW A \in Text, NEW D \in Text,
         Continues(st, A, D), Settled(st), st.out = <<>>
  PROVE  StripThink(A) = D \o st.buf
<1>1. A \o <<>> = A /\ StripThink(A \o <<>>) = D \o Sees(st, <<>>)
  BY Nothing DEF Continues
<1>2. Sees(st, <<>>) = st.out \o st.buf
  BY HeldIsSeen DEF Settled
<1>3. st.buf \in Text /\ <<>> \o st.buf = st.buf
  BY Nothing DEF Strippers
<1> QED BY <1>1, <1>2, <1>3

-----------------------------------------------------------------------------
\* The text of block i with that of one more event.
Longer(text, ev, i) ==
  IF ev.kind \in {"delta", "text"} /\ ev.index = i THEN text \o ev.text ELSE text

LEMMA TextOfIs ==
  ASSUME NEW s, NEW i, NEW N \in Nat, N = Len(s)
  PROVE  \E text :
          /\ text[0] = <<>>
          /\ \A n \in 1..N : text[n] = Longer(text[n - 1], s[n], i)
          /\ TextOf(s, i) = text[N]
<1> DEFINE R(g, n) == IF n = 0 THEN <<>>
                      ELSE IF s[n].kind \in {"delta", "text"} /\ s[n].index = i
                             THEN g[n - 1] \o s[n].text ELSE g[n - 1]
<1>1. PICK text :
          /\ text = CHOOSE g : g = [n \in 0..N |-> R(g, n)]
          /\ TextOf(s, i) = text[N]
  BY Zenon DEF TextOf
<1>2. \A g, h, n : g[n - 1] = h[n - 1] => R(g, n) = R(h, n)
  OBVIOUS
<1>3. \A g : R(g, 0) = <<>>
  OBVIOUS
<1>4. \A g : \A n \in Nat \ {0} : R(g, n) = Longer(g[n - 1], s[n], i)
  BY DEF Longer
<1> DEFINE E == {k \in Nat : \E g : g = [n \in 0..k |-> R(g, n)]}
<1> HIDE DEF R
<1>5. 0 \in E
  <2> DEFINE g == [n \in 0..0 |-> R(<<>>, 0)]
  <2>1. \A n \in 0..0 : R(g, n) = R(<<>>, 0)
    BY <1>3
  <2> QED BY <2>1
<1>6. ASSUME NEW k \in Nat, k \in E PROVE k + 1 \in E
  <2>1. PICK g : g = [n \in 0..k |-> R(g, n)]
    BY <1>6
  <2> DEFINE h == [n \in 0..(k + 1) |-> R(g, n)]
  <2>2. \A n \in 0..k : h[n] = g[n]
    BY <2>1
  <2>3. \A n \in 0..(k + 1) : R(h, n) = R(g, n)
    <3> SUFFICES ASSUME NEW n \in 0..(k + 1) PROVE R(h, n) = R(g, n)
      OBVIOUS
    <3>1. CASE n = 0
      BY <1>3, <3>1
    <3>2. CASE n # 0
      <4>1. n - 1 \in 0..k
        BY <3>2
      <4>2. h[n - 1] = g[n - 1]
        BY <2>2, <4>1
      <4> HIDE DEF h
      <4> QED BY <1>2, <4>2
    <3> QED BY <3>1, <3>2
  <2>4. h = [n \in 0..(k + 1) |-> R(h, n)]
    BY <2>3
  <2>5. \E longer : longer = [n \in 0..(k + 1) |-> R(longer, n)]
    <3> HIDE DEF h
    <3> QED BY <2>4
  <2> QED BY <2>5
<1>7. N \in E
  <2> HIDE DEF E
  <2> QED BY <1>5, <1>6, AllNumbers
<1>8. text = [n \in 0..N |-> R(text, n)]
  BY <1>1, <1>7
<1>9. text[0] = <<>>
  BY <1>3, <1>8
<1>10. ASSUME NEW n \in 1..N
       PROVE  text[n] = Longer(text[n - 1], s[n], i)
  <2>1. n \in 0..N /\ n \in Nat \ {0}
    OBVIOUS
  <2>2. text[n] = R(text, n)
    BY <1>8, <2>1
  <2> QED BY <1>4, <2>1, <2>2
<1> QED BY <1>1, <1>9, <1>10

LEMMA TextOfNone == \A i : TextOf(<<>>, i) = <<>>
<1> TAKE i
<1>1. PICK N \in Nat : N = Len(<<>>) /\ N = 0
  OBVIOUS
<1>2. PICK text : text[0] = <<>> /\ TextOf(<<>>, i) = text[N]
  BY <1>1, TextOfIs
<1> QED BY <1>1, <1>2

LEMMA TextOfMore ==
  ASSUME NEW T, NEW s \in Seq(T), NEW e, NEW i
  PROVE  TextOf(Append(s, e), i) = Longer(TextOf(s, i), e, i)
<1>1. PICK N \in Nat : N = Len(s)
  BY LenProperties
<1>2. PICK t : t = Append(s, e)
  OBVIOUS
<1>3. /\ Len(t) = N + 1 /\ t[N + 1] = e
      /\ \A n \in 1..N : t[n] = s[n]
  <2>1. s \in Seq(T \cup {e})
    BY SeqMonotonic
  <2> QED BY <1>1, <1>2, <2>1, AppendProperties
<1>4. PICK f : /\ f[0] = <<>>
               /\ \A n \in 1..N : f[n] = Longer(f[n - 1], s[n], i)
               /\ TextOf(s, i) = f[N]
  BY <1>1, TextOfIs
<1>5. PICK M \in Nat : M = N + 1
  OBVIOUS
<1>6. PICK g : /\ g[0] = <<>>
               /\ \A n \in 1..M : g[n] = Longer(g[n - 1], t[n], i)
               /\ TextOf(t, i) = g[M]
  BY <1>3, <1>5, TextOfIs
<1> DEFINE E == {n \in Nat : n <= N => f[n] = g[n]}
<1>7. 0 \in E
  BY <1>4, <1>6
<1>8. ASSUME NEW n \in Nat, n \in E PROVE n + 1 \in E
  <2>1. CASE n + 1 <= N
    <3>1. n + 1 \in 1..N /\ n + 1 \in 1..M /\ (n + 1) - 1 = n /\ f[n] = g[n]
      BY <1>5, <1>8, <2>1
    <3>2. f[n + 1] = Longer(f[(n + 1) - 1], s[n + 1], i) /\ g[n + 1] = Longer(g[(n + 1) - 1], t[n + 1], i)
      BY <1>4, <1>6, <3>1
    <3>3. s[n + 1] = t[n + 1]
      BY <1>3, <3>1
    <3> QED BY <3>1, <3>2, <3>3
  <2>2. CASE ~(n + 1 <= N)
    BY <2>2
  <2> QED BY <2>1, <2>2
<1>9. N \in E
  <2> HIDE DEF E
  <2> QED BY <1>7, <1>8, AllNumbers
<1>10. f[N] = g[N]
  BY <1>9
<1>11. g[M] = Longer(g[M - 1], t[M], i) /\ M - 1 = N
  BY <1>5, <1>6
<1> QED BY <1>2, <1>3, <1>4, <1>5, <1>6, <1>10, <1>11

LEMMA CameToo ==
  ASSUME NEW T, NEW s \in Seq(T), NEW e
  PROVE  /\ Deltas(Append(s, e)) <=> Deltas(s) \/ e.kind = "delta"
         /\ Framed(Append(s, e)) <=> Framed(s) \/ e.kind \in {"start", "text", "stop"}
         /\ \A j : Wrote(Append(s, e), j) <=> Wrote(s, j) \/ (e.kind = "text" /\ e.index = j)
<1> DEFINE longer == Append(s, e)
<1>1. /\ DOMAIN longer = 1..(Len(s) + 1) /\ DOMAIN s = 1..Len(s) /\ Len(s) \in Nat
      /\ longer[Len(s) + 1] = e /\ \A n \in 1..Len(s) : longer[n] = s[n]
  <2>1. s \in Seq(T \cup {e})
    BY SeqMonotonic
  <2> QED BY <2>1, AppendProperties, LenProperties
<1> HIDE DEF longer
<1>2. DOMAIN longer = DOMAIN s \cup {Len(s) + 1} /\ \A n \in DOMAIN s : longer[n] = s[n]
  BY <1>1
<1>3. Deltas(longer) <=> Deltas(s) \/ e.kind = "delta"
  BY <1>1, <1>2 DEF Deltas
<1>4. Framed(longer) <=> Framed(s) \/ e.kind \in {"start", "text", "stop"}
  BY <1>1, <1>2 DEF Framed
<1>5. \A j : Wrote(longer, j) <=> Wrote(s, j) \/ (e.kind = "text" /\ e.index = j)
  BY <1>1, <1>2 DEF Wrote
<1> QED BY <1>3, <1>4, <1>5 DEF longer

LEMMA ShapesDiffer ==
  /\ OpenAi # NoShape /\ OpenAi.index = 0
  /\ \A i : Anthropic(i) # NoShape /\ Anthropic(i) # OpenAi /\ Anthropic(i).index = i
  /\ \A i, j : Anthropic(i) = Anthropic(j) => i = j
BY DEF OpenAi, NoShape, Anthropic

\* The block, or the answer, whose text the stripper holds.
Current(f, i) == f.shape # NoShape /\ f.shape.index = i

\* The filter f after the events s: it holds nothing of a block it does not know
\* or of an answer that ended, and it knows the block whose text came last while
\* it goes on.
Filtered(f, s) ==
  /\ f.stripper \in Strippers /\ ~f.stripper.going /\ f.stripper.out = <<>> /\ Settled(f.stripper)
  /\ f.shape \in {NoShape, OpenAi} \cup {Anthropic(j) : j \in Nat}
  /\ f.shape = NoShape \/ Has(s, Terminal) => f.stripper = Fresh
  /\ f.shape = OpenAi => Deltas(s) /\ ~Framed(s)
  /\ Deltas(s) => f.shape = OpenAi
  /\ \A j \in Nat : f.shape = Anthropic(j) => Wrote(s, j) /\ ~Has(s, BlockStop(j))
  /\ \A j \in Nat : Wrote(s, j) => f.shape = Anthropic(j) \/ Has(s, BlockStop(j))

\* What the frames d show of block i and what came of it in s.
BlockShown(f, d, s, i) ==
  /\ TextOf(s, i) \in Text /\ TextOf(d, i) \in Text
  /\ TextOf(s, i) # <<>> => Current(f, i) \/ Has(s, BlockStop(i))
  /\ Bytes(TextOf(s, i)) <= THINK_BAILOUT =>
       IF Current(f, i) /\ ~Has(s, Terminal)
         THEN Continues(f.stripper, TextOf(s, i), TextOf(d, i))
         ELSE TextOf(d, i) = StripThink(TextOf(s, i))

LEMMA FreshIs == Fresh \in Strippers /\ ~Fresh.going /\ Fresh.out = <<>> /\ Fresh.buf = <<>> /\ Settled(Fresh)
  BY NothingHeld, Nothing DEF Fresh, Strippers, Settled

LEMMA NothingStripped == StripThink(<<>>) = <<>>
  BY Nothing, NothingHeld, StripIs

LEMMA KindsDiffer ==
  ASSUME NEW ev
  PROVE  /\ ev.kind # "end" => ev # Terminal
         /\ ev.kind # "stop" => \A i : ev # BlockStop(i)
         /\ \A i : BlockStop(i).kind = "stop" /\ BlockStop(i).index = i
         /\ \A i, j : BlockStop(i) = BlockStop(j) => i = j
BY DEF Terminal, BlockStop

\* A text goes through the stripper.
ShapeOf(ev) == IF ev.kind = "delta" THEN OpenAi ELSE Anthropic(ev.index)

AllBlocks(f, d, s) == \A i : BlockShown(f, d, s, i)

\* The frames c show the text more of block j, else what the frames d show.
Gains(c, d, j, more) == \A i : TextOf(c, i) = IF j = i THEN TextOf(d, i) \o more ELSE TextOf(d, i)

LEMMA TextShows ==
  ASSUME NEW T, NEW s \in Seq(T), NEW f, NEW d, NEW ev,
         Filtered(f, s), AllBlocks(f, d, s),
         ev.kind \in {"delta", "text"}, ev.text \in Text, ev.index \in Nat,
         ev.kind = "delta" => ev.index = 0,
         ~Has(s, Terminal), ev.kind = "text" => ~Has(s, BlockStop(ev.index)), InOrder(s, ev),
         NEW p, p = StripperPush(f.stripper, ev.text),
         NEW g, g.stripper = Handed(p),
         g.shape = ShapeOf(ev), NEW c, Gains(c, d, ev.index, p.out)
  PROVE  Filtered(g, Append(s, ev)) /\ AllBlocks(g, c, Append(s, ev))
<1> USE DEF AllBlocks, Gains, ShapeOf
<1> DEFINE t == Append(s, ev)
           j == ev.index
<1>1. /\ Deltas(t) <=> Deltas(s) \/ ev.kind = "delta"
      /\ Framed(t) <=> Framed(s) \/ ev.kind = "text"
      /\ \A i : Wrote(t, i) <=> Wrote(s, i) \/ (ev.kind = "text" /\ j = i)
  BY CameToo
<1>2. /\ ~Has(t, Terminal)
      /\ \A i : Has(t, BlockStop(i)) <=> Has(s, BlockStop(i))
  <2>1. \A x : Has(t, x) <=> Has(s, x) \/ x = ev
    BY Appended
  <2> QED BY <2>1, KindsDiffer
<1>3. \A i : TextOf(t, i) = IF j = i THEN TextOf(s, i) \o ev.text ELSE TextOf(s, i)
  <2>1. \A i : TextOf(t, i) = Longer(TextOf(s, i), ev, i)
    BY TextOfMore
  <2> QED BY <2>1 DEF Longer
<1> HIDE DEF t
<1>4. f.stripper \in Strippers /\ f.stripper.out = <<>>
  BY DEF Filtered
<1>5. /\ p \in Strippers /\ ~p.going /\ Settled(p)
  BY <1>4, PushSees
<1>6. /\ g.stripper \in Strippers /\ ~g.stripper.going /\ g.stripper.out = <<>> /\ Settled(g.stripper)
  BY <1>5, Nothing DEF Handed, Strippers, Settled
\* The text is of the block that is held, or nothing is held.
<1>7. f.shape = g.shape \/ f.shape = NoShape
  <2>1. CASE f.shape = OpenAi
    BY <2>1 DEF Filtered, InOrder
  <2>2. ASSUME NEW k \in Nat, f.shape = Anthropic(k) PROVE g.shape = f.shape
    <3>1. Wrote(s, k) /\ ~Has(s, BlockStop(k))
      BY <2>2 DEF Filtered
    <3>2. Framed(s)
      BY <3>1 DEF Wrote, Framed
    <3> QED BY <2>2, <3>1, <3>2 DEF InOrder
  <2> QED BY <2>1, <2>2 DEF Filtered
<1>8. Filtered(g, t)
  <2>1. CASE ev.kind = "delta"
    <3>1. ~Framed(s)
      BY <2>1 DEF InOrder
    <3>2. \A k : ~Wrote(s, k)
      BY <3>1 DEF Wrote, Framed
    <3> QED BY <1>1, <1>2, <1>6, <2>1, <3>1, <3>2, ShapesDiffer DEF Filtered
  <2>2. CASE ev.kind = "text"
    <3>1. ~Deltas(s)
      BY <2>2 DEF InOrder
    <3>2. \A k \in Nat : Wrote(s, k) => k = j \/ Has(s, BlockStop(k))
      BY <2>2 DEF InOrder
    <3> QED BY <1>1, <1>2, <1>6, <2>2, <3>1, <3>2, ShapesDiffer DEF Filtered
  <2> QED BY <2>1, <2>2
<1>9. g.shape # NoShape /\ g.shape.index = j
  BY ShapesDiffer
<1>10. ASSUME NEW i, i # j PROVE BlockShown(g, c, t, i)
  <2>1. BlockShown(f, d, s, i) /\ TextOf(t, i) = TextOf(s, i) /\ TextOf(c, i) = TextOf(d, i)
    BY <1>3, <1>10
  <2>2. ~Current(f, i) /\ ~Current(g, i)
    BY <1>7, <1>9, <1>10 DEF Current
  <2> QED BY <1>2, <2>1, <2>2 DEF BlockShown
<1>11. BlockShown(g, c, t, j)
  <2>1. BlockShown(f, d, s, j)
    OBVIOUS
  <2>2. PICK A \in Text, D \in Text, text \in Text, o \in Text :
          A = TextOf(s, j) /\ D = TextOf(d, j) /\ text = ev.text /\ o = p.out
    BY <1>5, <2>1 DEF BlockShown, Strippers
  <2>3. TextOf(t, j) = A \o text /\ TextOf(c, j) = D \o o
    BY <1>3, <2>2
  <2>4. A \o text \in Text /\ D \o o \in Text
    BY Joined
  <2>5. Bytes(A) <= THINK_BAILOUT => Continues(f.stripper, A, D)
    <3>1. CASE f.shape = g.shape
      <4>1. Current(f, j)
        BY <1>9, <3>1 DEF Current
      <4> QED BY <2>1, <2>2, <4>1 DEF BlockShown
    <3>2. CASE f.shape = NoShape
      <4>1. ~Current(f, j) /\ f.stripper = Fresh
        BY <3>2 DEF Current, Filtered
      <4>2. ~Has(s, BlockStop(j))
        <5>1. CASE ev.kind = "delta"
          <6>1. Has(s, BlockStop(j)) => Framed(s)
            BY KindsDiffer DEF Has, Framed
          <6> QED BY <5>1, <6>1 DEF InOrder
        <5> QED BY <5>1
      <4>3. A = <<>>
        BY <2>1, <2>2, <4>1, <4>2 DEF BlockShown
      <4>4. Bytes(A) <= THINK_BAILOUT => D = <<>>
        BY <2>1, <2>2, <4>1, <4>3, NothingStripped DEF BlockShown
      <4> QED BY <4>1, <4>3, <4>4, ContinuesFresh
    <3> QED BY <1>7, <3>1, <3>2
  <2>6. Bytes(A \o text) <= THINK_BAILOUT => Continues(Handed(p), A \o text, D \o o)
    <3>1. SUFFICES ASSUME Bytes(A \o text) <= THINK_BAILOUT
                   PROVE  Continues(Handed(p), A \o text, D \o o)
      OBVIOUS
    <3>2. Bytes(A) <= THINK_BAILOUT
      <4>1. Bytes(A \o text) = Bytes(A) + Bytes(text)
        BY BytesJoined
      <4>2. Bytes(A) \in Nat /\ Bytes(text) \in Nat /\ THINK_BAILOUT \in Nat
        BY BytesIsNat, ThinkAssumption DEF Text
      <4> QED BY <3>1, <4>1, <4>2
    <3>3. Continues(f.stripper, A, D)
      BY <2>5, <3>2
    <3>4. Continues(Handed(p), A \o text, D \o p.out)
      BY <1>4, <2>2, <3>1, <3>3, ContinuesPush
    <3> QED BY <2>2, <3>4
  <2>7. Current(g, j)
    BY <1>9 DEF Current
  <2> QED BY <1>2, <2>3, <2>4, <2>6, <2>7 DEF BlockShown
<1>12. \A i : BlockShown(g, c, t, i)
  <2> HIDE DEF j
  <2> QED BY <1>10, <1>11
<1> QED BY <1>8, <1>12 DEF t

\* The end of a block or of the answer releases what is held.
LEMMA EndShows ==
  ASSUME NEW T, NEW s \in Seq(T), NEW f, NEW d, NEW ev,
         Filtered(f, s), \A i : BlockShown(f, d, s, i),
         \/ ev = Terminal
         \/ \E i \in Nat : ev = BlockStop(i),
         ~Has(s, Terminal), InOrder(s, ev),
         NEW g, g.stripper = Fresh,
         g.shape = IF ev.kind = "stop" /\ f.shape = Anthropic(ev.index) THEN NoShape ELSE f.shape,
         NEW c, \A i : TextOf(c, i) = IF Current(f, i) THEN TextOf(d, i) \o f.stripper.buf ELSE TextOf(d, i)
  PROVE  /\ Filtered(g, Append(s, ev))
         /\ \A i : BlockShown(g, c, Append(s, ev), i)
<1> DEFINE t == Append(s, ev)
           j == ev.index
<1>0. /\ ev.kind \in {"stop", "end"}
      /\ ev.kind = "stop" => ev = BlockStop(j) /\ j \in Nat
      /\ ev.kind = "end" => ev = Terminal
  BY DEF Terminal, BlockStop
<1>1. /\ Deltas(t) <=> Deltas(s)
      /\ Framed(t) <=> Framed(s) \/ ev.kind = "stop"
      /\ \A i : Wrote(t, i) <=> Wrote(s, i)
  BY <1>0, CameToo
<1>2. /\ Has(t, Terminal) <=> ev.kind = "end"
      /\ \A i : Has(t, BlockStop(i)) <=> Has(s, BlockStop(i)) \/ (ev.kind = "stop" /\ i = j)
  <2>1. \A x : Has(t, x) <=> Has(s, x) \/ x = ev
    BY Appended
  <2> QED BY <1>0, <2>1, KindsDiffer
<1>3. \A i : TextOf(t, i) = TextOf(s, i)
  <2>1. \A i : TextOf(t, i) = Longer(TextOf(s, i), ev, i)
    BY TextOfMore
  <2> QED BY <1>0, <2>1 DEF Longer
<1> HIDE DEF t
\* A block that ends is the one that is held, if one is.
<1>4. ev.kind = "stop" => f.shape \in {NoShape, Anthropic(j)}
  <2>1. SUFFICES ASSUME ev.kind = "stop" PROVE f.shape \in {NoShape, Anthropic(j)}
    OBVIOUS
  <2>2. f.shape # OpenAi
    BY <2>1 DEF Filtered, InOrder
  <2>3. ASSUME NEW k \in Nat, f.shape = Anthropic(k) PROVE k = j
    BY <2>1, <2>3 DEF Filtered, InOrder
  <2> QED BY <2>2, <2>3 DEF Filtered
<1>5. Filtered(g, t)
  <2>1. CASE ev.kind = "stop"
    <3>1. g.shape = NoShape
      BY <1>4, <2>1
    <3>2. ~Deltas(s)
      BY <2>1 DEF InOrder
    <3> QED BY <1>1, <1>2, <1>4, <2>1, <3>1, <3>2, FreshIs, ShapesDiffer DEF Filtered
  <2>2. CASE ev.kind = "end"
    <3>1. g.shape = f.shape
      BY <2>2
    <3> QED BY <1>1, <1>2, <2>2, <3>1, FreshIs DEF Filtered
  <2> QED BY <1>0, <2>1, <2>2
<1>6. ASSUME NEW i PROVE BlockShown(g, c, t, i)
  <2>1. BlockShown(f, d, s, i)
    OBVIOUS
  <2>2. PICK A \in Text, D \in Text : A = TextOf(s, i) /\ D = TextOf(d, i)
    BY <2>1 DEF BlockShown
  <2>3. PICK held \in Text : held = f.stripper.buf
    BY DEF Filtered, Strippers
  <2>4. TextOf(t, i) = A /\ TextOf(c, i) = IF Current(f, i) THEN D \o held ELSE D
    BY <1>3, <2>2, <2>3
  <2>5. TextOf(c, i) \in Text
    BY <2>4, Joined
  <2>6. A # <<>> => Current(g, i) \/ Has(t, BlockStop(i))
    <3>1. SUFFICES ASSUME Current(f, i) PROVE Current(g, i) \/ Has(t, BlockStop(i))
      BY <1>2, <2>1, <2>2 DEF BlockShown
    <3>2. CASE g.shape = f.shape
      BY <3>1, <3>2 DEF Current
    <3>3. CASE ev.kind = "stop" /\ f.shape = Anthropic(j)
      BY <1>2, <3>1, <3>3, ShapesDiffer DEF Current
    <3> QED BY <3>2, <3>3
  <2>7. Bytes(A) <= THINK_BAILOUT => TextOf(c, i) = StripThink(A)
    <3>1. SUFFICES ASSUME Bytes(A) <= THINK_BAILOUT PROVE TextOf(c, i) = StripThink(A)
      OBVIOUS
    <3>2. CASE Current(f, i)
      <4>1. Continues(f.stripper, A, D)
        BY <2>1, <2>2, <3>1, <3>2 DEF BlockShown
      <4>2. StripThink(A) = D \o f.stripper.buf
        BY <4>1, ContinuesEnds DEF Filtered
      <4> QED BY <2>3, <2>4, <3>2, <4>2
    <3>3. CASE ~Current(f, i)
      BY <2>1, <2>2, <2>4, <3>1, <3>3 DEF BlockShown
    <3> QED BY <3>2, <3>3
  <2>8. ~(Current(g, i) /\ ~Has(t, Terminal))
    <3>1. ev.kind = "stop" => g.shape = NoShape
      BY <1>4
    <3> QED BY <1>0, <1>2, <3>1 DEF Current
  <2> QED BY <2>2, <2>4, <2>5, <2>6, <2>7, <2>8 DEF BlockShown
<1> QED BY <1>5, <1>6 DEF t

\* The start of a block.
LEMMA StartShows ==
  ASSUME NEW T, NEW s \in Seq(T), NEW f, NEW d, NEW ev,
         Filtered(f, s), \A i : BlockShown(f, d, s, i),
         ev.kind = "start", InOrder(s, ev),
         NEW g, g.stripper = f.stripper, g.shape = f.shape,
         NEW c, \A i : TextOf(c, i) = TextOf(d, i)
  PROVE  /\ Filtered(g, Append(s, ev))
         /\ \A i : BlockShown(g, c, Append(s, ev), i)
<1> DEFINE t == Append(s, ev)
<1>1. /\ Deltas(t) <=> Deltas(s)
      /\ Framed(t)
      /\ \A i : Wrote(t, i) <=> Wrote(s, i)
  BY CameToo
<1>2. /\ Has(t, Terminal) <=> Has(s, Terminal)
      /\ \A i : Has(t, BlockStop(i)) <=> Has(s, BlockStop(i))
  <2>1. \A x : Has(t, x) <=> Has(s, x) \/ x = ev
    BY Appended
  <2> QED BY <2>1, KindsDiffer
<1>3. \A i : TextOf(t, i) = TextOf(s, i)
  <2>1. \A i : TextOf(t, i) = Longer(TextOf(s, i), ev, i)
    BY TextOfMore
  <2> QED BY <2>1 DEF Longer
<1> HIDE DEF t
<1>4. Filtered(g, t)
  <2>1. ~Deltas(s)
    BY DEF InOrder
  <2> QED BY <1>1, <1>2, <2>1 DEF Filtered
<1>5. \A i : BlockShown(g, c, t, i)
  <2>1. \A i : Current(g, i) <=> Current(f, i)
    BY DEF Current
  <2> QED BY <1>2, <1>3, <2>1 DEF BlockShown
<1> QED BY <1>4, <1>5 DEF t

\* The filter f has turned the events s into frames, b those that were read, that
\* show the text of every block.
Renders(f, b, s) == Filtered(f, s) /\ \A i : BlockShown(f, b \o f.out, s, i)

LEMMA FrameShows ==
  ASSUME NEW T, NEW b \in Seq(T), NEW o \in Seq(T), NEW e
  PROVE  \A i : TextOf(b \o Append(o, e), i) = Longer(TextOf(b \o o, i), e, i)
<1> TAKE i
<1>1. b \o o \in Seq(T) /\ b \o Append(o, e) = Append(b \o o, e)
  BY OutGrows
<1>3. PICK d \in Seq(T) : d = b \o o
  BY <1>1
<1>2. TextOf(Append(d, e), i) = Longer(TextOf(d, i), e, i)
  BY TextOfMore
<1> QED BY <1>1, <1>2, <1>3, Zenon

\* A frame without text.
LEMMA FrameIsSilent ==
  ASSUME NEW T, NEW b \in Seq(T), NEW o \in Seq(T), NEW e, e.kind \notin {"delta", "text"}
  PROVE  \A i : TextOf(b \o Append(o, e), i) = TextOf(b \o o, i)
BY FrameShows DEF Longer

\* The tail is what the stripper holds, shown with the block it is of.
Releases(f, b, o) ==
  /\ \E U : b \in Seq(U) /\ o \o TailFrames(f) \in Seq(U)
  /\ \A i : TextOf(b \o (o \o TailFrames(f)), i) =
              IF Current(f, i) THEN TextOf(b \o o, i) \o f.stripper.buf ELSE TextOf(b \o o, i)

LEMMA TailShows ==
  ASSUME NEW f, NEW s, Filtered(f, s), NEW T, NEW b \in Seq(T), NEW o \in Seq(T),
         \A i : TextOf(b \o o, i) \in Text
  PROVE  Releases(f, b, o)
<1> USE DEF Releases
<1>1. PICK held \in Text : held = f.stripper.buf
  BY DEF Filtered, Strippers
<1>2. Flush(f.stripper).out = held
  <2>1. f.stripper.out = <<>> /\ <<>> \o held = held
    BY Nothing DEF Filtered
  <2> QED BY <1>1, <2>1 DEF Flush, Fresh
<1>3. CASE held = <<>>
  <2>1. TailFrames(f) = <<>>
    BY <1>2, <1>3 DEF TailFrames
  <2>2. o \o <<>> = o
    BY ConcatEmptySeq
  <2>3. \A i : TextOf(b \o o, i) \o <<>> = TextOf(b \o o, i)
    BY Nothing
  <2> QED BY <1>1, <1>3, <2>1, <2>2, <2>3, Zenon
<1>4. CASE held # <<>>
  <2>1. f.shape # NoShape
    BY <1>1, <1>4 DEF Filtered, Fresh
  <2>2. PICK e : e = DataFrame(f.shape, held) /\ TailFrames(f) = <<e>>
    BY <1>2, <1>4, <2>1 DEF TailFrames
  <2>3. e.kind \in {"delta", "text"} /\ e.index = f.shape.index /\ e.text = held
    BY <2>1, <2>2 DEF Filtered, DataFrame, OpenAi, Anthropic, OpenAiDelta, TextDelta
  <2>4. o \o <<e>> = Append(o, e) /\ Append(o, e) \in Seq(T \cup {e}) /\ b \in Seq(T \cup {e})
    <3>1. o \in Seq(T \cup {e}) /\ b \in Seq(T \cup {e})
      BY SeqMonotonic
    <3> QED BY <3>1, AppendIsConcat, AppendProperties
  <2>5. \A i : TextOf(b \o Append(o, e), i) = Longer(TextOf(b \o o, i), e, i)
    BY FrameShows
  <2>6. \A i : Longer(TextOf(b \o o, i), e, i) =
                 IF Current(f, i) THEN TextOf(b \o o, i) \o held ELSE TextOf(b \o o, i)
    BY <2>1, <2>3 DEF Longer, Current
  <2>7. TailFrames(f) = <<e>>
    BY <2>2
  <2> QED BY <1>1, <2>4, <2>5, <2>6, <2>7, Zenon
<1> QED BY <1>3, <1>4

WithText(ev, text) == [ev EXCEPT !.text = text]

LEMMA RewritePushes ==
  ASSUME NEW f, IsFilter(f), NEW ev, ev.kind \in {"delta", "text"}
  PROVE  /\ Rewrite(f, ev).stripper = Handed(StripperPush(f.stripper, ev.text))
         /\ Rewrite(f, ev).out = Append(f.out, WithText(ev, StripperPush(f.stripper, ev.text).out))
         /\ Rewrite(f, ev).shape = ShapeOf(ev)
<1>1. PICK p : p = StripperPush(f.stripper, ev.text)
  OBVIOUS
<1>2. Rewrite(f, ev) = [f EXCEPT !.shape = ShapeOf(ev), !.stripper = Handed(p),
                                 !.out = Append(@, WithText(ev, p.out))]
  BY <1>1 DEF Rewrite, Through, ShapeOf, WithText
<1>3. PICK o : o = Append(f.out, WithText(ev, p.out))
  OBVIOUS
<1>4. Rewrite(f, ev) = [f EXCEPT !.shape = ShapeOf(ev), !.stripper = Handed(p), !.out = o]
  BY <1>2, <1>3
<1> QED BY <1>1, <1>3, <1>4 DEF IsFilter

LEMMA EventIs ==
  ASSUME NEW ev \in Events
  PROVE  /\ ev = [kind |-> ev.kind, index |-> ev.index, text |-> ev.text]
         /\ ev.text \in Text /\ ev.index \in Nat
         /\ ev.kind = "delta" => ev.index = 0
         /\ ev.kind = "start" => ev = BlockStart(ev.index)
         /\ ev.kind = "stop" => ev = BlockStop(ev.index)
         /\ ev.kind = "end" => ev = Terminal
         /\ ev.kind \in {"delta", "text", "start", "stop", "end"}
<1>1. ASSUME NEW text \in Texts, ev = OpenAiDelta(text)
      PROVE  /\ ev = [kind |-> "delta", index |-> 0, text |-> text]
             /\ ev.kind = "delta" /\ ev.index = 0 /\ ev.text = text /\ text \in Text
  BY <1>1, StreamAssumption DEF OpenAiDelta, Text
<1>2. ASSUME NEW i \in Nat, NEW text \in Texts, ev = TextDelta(i, text)
      PROVE  /\ ev = [kind |-> "text", index |-> i, text |-> text]
             /\ ev.kind = "text" /\ ev.index = i /\ ev.text = text /\ text \in Text
  BY <1>2, StreamAssumption DEF TextDelta, Text
<1>3. ASSUME NEW i \in Nat, ev = BlockStart(i)
      PROVE  /\ ev = [kind |-> "start", index |-> i, text |-> <<>>]
             /\ ev.kind = "start" /\ ev.index = i /\ ev.text = <<>> /\ ev.text \in Text
  BY <1>3, Nothing DEF BlockStart
<1>4. ASSUME NEW i \in Nat, ev = BlockStop(i)
      PROVE  /\ ev = [kind |-> "stop", index |-> i, text |-> <<>>]
             /\ ev.kind = "stop" /\ ev.index = i /\ ev.text = <<>> /\ ev.text \in Text
  BY <1>4, Nothing DEF BlockStop
<1>5. ASSUME ev = Terminal
      PROVE  /\ ev = [kind |-> "end", index |-> 0, text |-> <<>>]
             /\ ev.kind = "end" /\ ev.index = 0 /\ ev.text = <<>> /\ ev.text \in Text
  BY <1>5, Nothing DEF Terminal
<1> QED BY <1>1, <1>2, <1>3, <1>4, <1>5 DEF Events

\* transform_event shows of each event the text that is its own.
LEMMA TransformShows ==
  ASSUME NEW f, NEW b, NEW S, NEW s \in Seq(S), NEW ev \in Events, Carries(f, b, s), Renders(f, b, s),
         Follows(s, ev)
  PROVE  Renders(TransformEvent(f, ev), b, Append(s, ev))
<1>1. PICK T : b \in Seq(T) /\ f.out \in Seq(T)
  BY DEF Carries
<1>2. PICK o \in Seq(T), d \in Seq(T) : o = f.out /\ d = b \o o
  BY <1>1, ConcatProperties
<1>3. /\ Filtered(f, s) /\ \A i : BlockShown(f, d, s, i)
      /\ ~Has(s, Terminal) /\ InOrder(s, ev) /\ IsFilter(f)
      /\ ev.kind = "text" => ~Has(s, BlockStop(ev.index))
  BY <1>2 DEF Renders, Follows, Carries
<1>4. /\ ev = [kind |-> ev.kind, index |-> ev.index, text |-> ev.text]
      /\ ev.text \in Text /\ ev.index \in Nat
      /\ ev.kind = "delta" => ev.index = 0
      /\ ev.kind = "start" => ev = BlockStart(ev.index)
      /\ ev.kind = "stop" => ev = BlockStop(ev.index)
      /\ ev.kind = "end" => ev = Terminal
      /\ ev.kind \in {"delta", "text", "start", "stop", "end"}
  BY EventIs
<1> DEFINE g == TransformEvent(f, ev)
<1>5. CASE ev.kind \in {"delta", "text"}
  <2> DEFINE h == OpenBlock(f, ev)
  <2>1. g = Rewrite(h, ev)
    BY <1>5, TransformIs DEF ReleaseTail, CloseBlock
  <2>2. /\ IsFilter(h) /\ h.stripper = f.stripper
        /\ h.out = o \/ h.out = Append(o, BlockStart(ev.index))
    BY <1>2, <1>3, <1>5 DEF OpenBlock, IsFilter
  <2>3. PICK p : p = StripperPush(f.stripper, ev.text)
    OBVIOUS
  <2>4. PICK e : e = [ev EXCEPT !.text = p.out]
    OBVIOUS
  <2>5. e.kind = ev.kind /\ e.index = ev.index /\ e.text = p.out
    BY <1>4, <2>4
  <2> HIDE DEF h
  <2>7. g.stripper = Handed(p) /\ g.out = Append(h.out, e) /\ g.shape = ShapeOf(ev)
    <3>1. PICK k : k = h
      OBVIOUS
    <3>2. /\ Rewrite(k, ev).stripper = Handed(StripperPush(k.stripper, ev.text))
          /\ Rewrite(k, ev).out = Append(k.out, WithText(ev, StripperPush(k.stripper, ev.text).out))
          /\ Rewrite(k, ev).shape = ShapeOf(ev)
      <4>1. IsFilter(k) /\ ev.kind \in {"delta", "text"}
        BY <1>5, <2>2, <3>1
      <4> QED BY <4>1, RewritePushes
    <3> QED BY <2>1, <2>2, <2>3, <2>4, <3>1, <3>2 DEF WithText
  <2> HIDE DEF g
  <2>8. PICK U : /\ b \in Seq(U) /\ h.out \in Seq(U)
                 /\ \A i : TextOf(b \o h.out, i) = TextOf(d, i)
    <3>1. CASE h.out = o
      BY <1>1, <1>2, <3>1
    <3>2. CASE h.out = Append(o, BlockStart(ev.index))
      <4>0. BlockStart(ev.index).kind \notin {"delta", "text"}
        BY DEF BlockStart
      <4>1. PICK x : x = BlockStart(ev.index) /\ x.kind \notin {"delta", "text"}
        BY <4>0
      <4>2. b \in Seq(T \cup {x}) /\ Append(o, x) \in Seq(T \cup {x})
        BY <1>1, OutGrows
      <4>3. \A i : TextOf(b \o Append(o, x), i) = TextOf(b \o o, i)
        BY <1>1, <4>1, FrameIsSilent
      <4> QED BY <1>2, <3>2, <4>1, <4>2, <4>3, Zenon
    <3> QED BY <2>2, <3>1, <3>2
  <2>9. PICK q \in Seq(U) : q = h.out
    BY <2>8
  <2>10. PICK c : c = b \o g.out
    OBVIOUS
  <2>11. \A i : TextOf(c, i) = IF ev.index = i THEN TextOf(d, i) \o p.out ELSE TextOf(d, i)
    <3>1. \A i : TextOf(b \o Append(q, e), i) = Longer(TextOf(b \o q, i), e, i)
      BY <2>8, FrameShows
    <3>2. \A i : Longer(TextOf(d, i), e, i) = IF ev.index = i THEN TextOf(d, i) \o p.out ELSE TextOf(d, i)
      BY <1>5, <2>5 DEF Longer
    <3>3. c = b \o Append(q, e)
      BY <2>7, <2>9, <2>10, Zenon
    <3> QED BY <2>8, <2>9, <3>1, <3>2, <3>3, Zenon
  <2>12. Filtered(g, Append(s, ev)) /\ \A i : BlockShown(g, c, Append(s, ev), i)
    <3>1. PICK k : k = g
      OBVIOUS
    <3>2. k.stripper = Handed(p) /\ k.shape = ShapeOf(ev)
      BY <2>7, <3>1
    <3>3. AllBlocks(f, d, s) /\ Gains(c, d, ev.index, p.out)
      BY <1>3, <2>11 DEF AllBlocks, Gains
    <3>4. Filtered(k, Append(s, ev)) /\ AllBlocks(k, c, Append(s, ev))
      BY <1>3, <1>4, <1>5, <2>3, <3>2, <3>3, TextShows
    <3> QED BY <3>1, <3>4 DEF AllBlocks
  <2> QED BY <2>10, <2>12 DEF Renders, g
<1>6. CASE ev.kind = "start"
  <2>1. g = [f EXCEPT !.blocks = @ \cup {ev.index}, !.out = Append(@, ev)]
    BY <1>3, <1>6, TransformIs DEF OpenBlock, ReleaseTail, CloseBlock, Rewrite, IsFilter
  <2>2. g.stripper = f.stripper /\ g.shape = f.shape /\ g.out = Append(o, ev)
    BY <1>2, <1>3, <2>1 DEF IsFilter
  <2> HIDE DEF g
  <2>3. PICK c : c = b \o g.out
    OBVIOUS
  <2>4. \A i : TextOf(c, i) = TextOf(d, i)
    <3>0. ev.kind \notin {"delta", "text"}
      BY <1>6
    <3>1. \A i : TextOf(b \o Append(o, ev), i) = TextOf(b \o o, i)
      BY <1>1, <3>0, FrameIsSilent
    <3> QED BY <1>2, <2>2, <2>3, <3>1, Zenon
  <2>5. Filtered(g, Append(s, ev)) /\ \A i : BlockShown(g, c, Append(s, ev), i)
    BY <1>3, <1>6, <2>2, <2>4, StartShows
  <2> QED BY <2>3, <2>5 DEF Renders, g
<1>7. CASE ev.kind \in {"stop", "end"}
  <2> DEFINE r == ReleaseTail(f, ev)
  <2>1. g = CloseBlock([r EXCEPT !.out = Append(@, ev)], ev)
    BY <1>7, TransformIs DEF OpenBlock, Rewrite
  <2>2. /\ IsFilter(r) /\ r.stripper = Fresh /\ r.shape = f.shape /\ r.out = o \o TailFrames(f)
    BY <1>2, <1>3, <1>7 DEF ReleaseTail, IsFilter
  <2> HIDE DEF r
  <2>3. /\ g.out = Append(r.out, ev) /\ g.stripper = Fresh
        /\ g.shape = IF ev.kind = "stop" /\ f.shape = Anthropic(ev.index) THEN NoShape ELSE f.shape
    BY <1>7, <2>1, <2>2 DEF IsFilter, CloseBlock
  <2> HIDE DEF g
  <2>4. \A i : TextOf(b \o o, i) \in Text
    BY <1>2, <1>3 DEF BlockShown
  <2>12. Releases(f, b, o)
    BY <1>1, <1>3, <2>4, TailShows
  <2>5. /\ \E U : b \in Seq(U) /\ o \o TailFrames(f) \in Seq(U)
        /\ \A i : TextOf(b \o (o \o TailFrames(f)), i) =
                    IF Current(f, i) THEN TextOf(b \o o, i) \o f.stripper.buf ELSE TextOf(b \o o, i)
    BY <2>12 DEF Releases
  <2>6. PICK U : b \in Seq(U) /\ o \o TailFrames(f) \in Seq(U)
    BY <2>5
  <2>7. PICK q \in Seq(U) : q = o \o TailFrames(f)
    BY <2>6
  <2>8. PICK c : c = b \o g.out
    OBVIOUS
  <2>9. \A i : TextOf(c, i) = IF Current(f, i) THEN TextOf(d, i) \o f.stripper.buf ELSE TextOf(d, i)
    <3>0. ev.kind \notin {"delta", "text"}
      BY <1>7
    <3>1. \A i : TextOf(b \o Append(q, ev), i) = TextOf(b \o q, i)
      BY <2>6, <3>0, FrameIsSilent
    <3>2. c = b \o Append(q, ev)
      BY <2>2, <2>3, <2>7, <2>8, Zenon
    <3> QED BY <1>2, <2>5, <2>7, <3>1, <3>2, Zenon
  <2>10. ev = Terminal \/ \E i \in Nat : ev = BlockStop(i)
    BY <1>4, <1>7
  <2>11. Filtered(g, Append(s, ev)) /\ \A i : BlockShown(g, c, Append(s, ev), i)
    BY <1>3, <2>3, <2>9, <2>10, EndShows
  <2> QED BY <2>8, <2>11 DEF Renders, g
<1> QED BY <1>4, <1>5, <1>6, <1>7

\* push: the filter after each of the events that are complete.
LEMMA PushIs ==
  ASSUME NEW f, NEW complete, NEW partial, Len(complete) \in Nat
  PROVE  \E after :
          /\ after[0] = [f EXCEPT !.out = <<>>]
          /\ \A n \in 1..Len(complete) : after[n] = TransformEvent(after[n - 1], complete[n])
          /\ FilterPush(f, complete, partial) = [after[Len(complete)] EXCEPT !.pending = partial]
<1> DEFINE R(g, n) == IF n = 0 THEN [f EXCEPT !.out = <<>>]
                      ELSE Through(LAMBDA h : TransformEvent(h, complete[n]), g[n - 1])
<1>1. PICK after :
          /\ after = CHOOSE g : g = [n \in 0..Len(complete) |-> R(g, n)]
          /\ FilterPush(f, complete, partial) = [after[Len(complete)] EXCEPT !.pending = partial]
  BY Zenon DEF FilterPush
<1>2. \A g, h, n : g[n - 1] = h[n - 1] => R(g, n) = R(h, n)
  OBVIOUS
<1>3. \A g, h : R(g, 0) = R(h, 0) /\ R(g, 0) = [f EXCEPT !.out = <<>>]
  OBVIOUS
<1>4. \A g : \A n \in Nat \ {0} : R(g, n) = TransformEvent(g[n - 1], complete[n])
  BY DEF Through
<1> DEFINE E == {k \in Nat : \E g : g = [n \in 0..k |-> R(g, n)]}
<1> HIDE DEF R
<1>5. 0 \in E
  <2> DEFINE g == [n \in 0..0 |-> R(<<>>, 0)]
  <2>1. \A n \in 0..0 : R(g, n) = R(<<>>, 0)
    BY <1>3
  <2> QED BY <2>1
<1>6. ASSUME NEW k \in Nat, k \in E PROVE k + 1 \in E
  <2>1. PICK g : g = [n \in 0..k |-> R(g, n)]
    BY <1>6
  <2> DEFINE h == [n \in 0..(k + 1) |-> R(g, n)]
  <2>2. \A n \in 0..k : h[n] = g[n]
    BY <2>1
  <2>3. \A n \in 0..(k + 1) : R(h, n) = R(g, n)
    <3> SUFFICES ASSUME NEW n \in 0..(k + 1) PROVE R(h, n) = R(g, n)
      OBVIOUS
    <3>1. CASE n = 0
      BY <1>3, <3>1
    <3>2. CASE n # 0
      <4>1. n - 1 \in 0..k
        BY <3>2
      <4>2. h[n - 1] = g[n - 1]
        BY <2>2, <4>1
      <4> HIDE DEF h
      <4> QED BY <1>2, <4>2
    <3> QED BY <3>1, <3>2
  <2>4. h = [n \in 0..(k + 1) |-> R(h, n)]
    BY <2>3
  <2>5. \E longer : longer = [n \in 0..(k + 1) |-> R(longer, n)]
    <3> HIDE DEF h
    <3> QED BY <2>4
  <2> QED BY <2>5
<1>7. Len(complete) \in E
  <2> HIDE DEF E
  <2> QED BY <1>5, <1>6, AllNumbers
<1>8. after = [n \in 0..Len(complete) |-> R(after, n)]
  BY <1>1, <1>7
<1>9. after[0] = [f EXCEPT !.out = <<>>]
  BY <1>3, <1>8
<1>10. ASSUME NEW n \in 1..Len(complete)
       PROVE  after[n] = TransformEvent(after[n - 1], complete[n])
  <2>1. n \in 0..Len(complete) /\ n \in Nat \ {0}
    OBVIOUS
  <2>2. after[n] = R(after, n)
    BY <1>8, <2>1
  <2> QED BY <1>4, <2>1, <2>2
<1> QED BY <1>1, <1>9, <1>10

\* Each event may follow those before it.
Proper(s) == \A n \in 1..Len(s) : Follows(SubSeq(s, 1, n - 1), s[n])

Conveys(f, b, s) == Carries(f, b, s) /\ Renders(f, b, s)

\* The pending event does not matter.
LEMMA PendingMayChange ==
  ASSUME NEW f, NEW b, NEW s, Conveys(f, b, s), NEW partial
  PROVE  Conveys([f EXCEPT !.pending = partial], b, s)
<1> DEFINE g == [f EXCEPT !.pending = partial]
<1>1. /\ IsFilter(g) /\ g.out = f.out /\ g.blocks = f.blocks /\ g.shape = f.shape /\ g.stripper = f.stripper
  BY DEF Conveys, Carries, IsFilter
<1> HIDE DEF g
<1>2. Carries(g, b, s)
  BY <1>1 DEF Conveys, Carries
<1>3. Renders(g, b, s)
  BY <1>1 DEF Conveys, Renders, Filtered, BlockShown, Current
<1> QED BY <1>2, <1>3 DEF g, Conveys

\* What a call returned has been read.
LEMMA HandedOver ==
  ASSUME NEW f, NEW b, NEW s, Conveys(f, b, s)
  PROVE  Conveys([f EXCEPT !.out = <<>>], b \o f.out, s)
<1>0. Carries(f, b, s) /\ Renders(f, b, s)
  BY DEF Conveys
<1>1. PICK T : b \in Seq(T) /\ f.out \in Seq(T)
  BY <1>0 DEF Carries
<1>2. b \o f.out \in Seq(T) /\ <<>> \in Seq(T) /\ (b \o f.out) \o <<>> = b \o f.out
  BY <1>1, ConcatProperties, ConcatEmptySeq
<1> DEFINE g == [f EXCEPT !.out = <<>>]
<1>3. /\ IsFilter(g) /\ g.out = <<>> /\ g.blocks = f.blocks /\ g.shape = f.shape /\ g.stripper = f.stripper
  BY <1>0 DEF Carries, IsFilter
<1> HIDE DEF g
<1>4. PICK d \in Seq(T) : d = b \o f.out
  BY <1>2
<1>5. d \o g.out = d
  BY <1>2, <1>3, <1>4, Zenon
<1>6. Carries(g, d, s)
  <2>1. \E U : d \in Seq(U) /\ g.out \in Seq(U)
    BY <1>2, <1>3, <1>4
  <2> QED BY <1>0, <1>3, <1>4, <1>5, <2>1 DEF Carries
<1>7. Renders(g, d, s)
  BY <1>0, <1>3, <1>4, <1>5 DEF Renders, Filtered, BlockShown, Current
<1> QED BY <1>4, <1>6, <1>7 DEF g, Conveys

LEMMA PushKeeps ==
  ASSUME NEW f, NEW b, NEW s \in Seq(Events), NEW complete \in Seq(Events), NEW partial,
         Conveys([f EXCEPT !.out = <<>>], b, s), Proper(s \o complete)
  PROVE  /\ Conveys(FilterPush(f, complete, partial), b, s \o complete)
         /\ FilterPush(f, complete, partial).pending = partial
<1> DEFINE all == s \o complete
           k == Len(s)
           SoFar(n) == SubSeq(all, 1, k + n)
<1>1. /\ all \in Seq(Events) /\ Len(all) = k + Len(complete) /\ k \in Nat /\ Len(complete) \in Nat
      /\ \A n \in 1..Len(complete) : all[k + n] = complete[n]
  BY ConcatProperties, LenProperties
<1>2. PICK after :
        /\ after[0] = [f EXCEPT !.out = <<>>]
        /\ \A n \in 1..Len(complete) : after[n] = TransformEvent(after[n - 1], complete[n])
        /\ FilterPush(f, complete, partial) = [after[Len(complete)] EXCEPT !.pending = partial]
  BY <1>1, PushIs, SMTT(30)
<1>3. SoFar(0) = s
  <2>1. \A i \in 1..k : all[i] = s[i] /\ all[i] \in Events
    BY ConcatProperties, ElementOfSeq, <1>1
  <2>2. 1 \in Int /\ k \in Int
    BY <1>1
  <2>3. /\ SubSeq(all, 1, k) \in Seq(Events) /\ Len(SubSeq(all, 1, k)) = IF 1 <= k THEN k - 1 + 1 ELSE 0
        /\ \A i \in 1..(k - 1 + 1) : SubSeq(all, 1, k)[i] = all[1 + i - 1]
    BY <2>1, <2>2, SubSeqProperties
  <2> DEFINE a == SubSeq(all, 1, k)
  <2>4. a \in Seq(Events) /\ Len(a) = k /\ \A i \in 1..k : a[i] = all[i]
    BY <1>1, <2>3
  <2> HIDE DEF a, all, k
  <2>5. \A i \in 1..Len(a) : a[i] = s[i]
    BY <2>1, <2>4
  <2>6. a = s
    BY <2>4, <2>5, SeqEqual DEF k
  <2>7. k + 0 = k
    BY <1>1
  <2> QED BY <2>6, <2>7 DEF a
<1>4. ASSUME NEW n \in Nat, n < Len(complete)
      PROVE  /\ SoFar(n) \in Seq(Events) /\ complete[n + 1] \in Events
             /\ SoFar(n + 1) = Append(SoFar(n), complete[n + 1]) /\ Follows(SoFar(n), complete[n + 1])
  <2> DEFINE m == k + n + 1
  <2>1. m \in 1..Len(all) /\ m - 1 = k + n /\ 1 \in 1..Len(all) /\ m = k + (n + 1) /\ n + 1 \in 1..Len(complete)
    BY <1>1, <1>4
  <2>2. all[m] = complete[n + 1] /\ complete[n + 1] \in Events
    BY <1>1, <2>1, ElementOfSeq
  <2> HIDE DEF all, m
  <2>3. Follows(SubSeq(all, 1, m - 1), all[m])
    BY <2>1 DEF Proper, all
  <2>4. SubSeq(all, 1, m) = SubSeq(all, 1, m - 1) \o <<all[m]>>
    BY <1>1, <2>1, SubSeqRecursiveSecond
  <2>5. SubSeq(all, 1, m - 1) \in Seq(Events)
    <3>1. \A i \in 1..(m - 1) : all[i] \in Events
      BY <1>1, <2>1, ElementOfSeq
    <3>2. 1 \in Int /\ m - 1 \in Int
      BY <2>1
    <3> QED BY <3>1, <3>2, SubSeqProperties
  <2>6. SubSeq(all, 1, m - 1) \o <<all[m]>> = Append(SubSeq(all, 1, m - 1), all[m])
    BY <2>2, <2>5, AppendIsConcat
  <2> QED BY <2>1, <2>2, <2>3, <2>4, <2>5, <2>6
<1> DEFINE E == {n \in Nat : n <= Len(complete) => Conveys(after[n], b, SoFar(n))}
<1> HIDE DEF SoFar
<1>5. 0 \in E
  BY <1>2, <1>3
<1>6. ASSUME NEW n \in Nat, n \in E PROVE n + 1 \in E
  <2>1. CASE n < Len(complete)
    <3>1. Conveys(after[n], b, SoFar(n))
      BY <1>1, <1>6, <2>1
    <3>2. after[n + 1] = TransformEvent(after[n], complete[n + 1])
      <4>1. n + 1 \in 1..Len(complete) /\ (n + 1) - 1 = n
        BY <1>1, <2>1
      <4>2. after[n + 1] = TransformEvent(after[(n + 1) - 1], complete[n + 1])
        BY <1>2, <4>1
      <4> QED BY <4>1, <4>2
    <3>3. Conveys(TransformEvent(after[n], complete[n + 1]), b, Append(SoFar(n), complete[n + 1]))
      BY <1>4, <2>1, <3>1, TransformKeeps, TransformShows DEF Conveys
    <3>4. Conveys(after[n + 1], b, SoFar(n + 1))
      BY <1>4, <2>1, <3>2, <3>3
    <3> QED BY <3>4
  <2>2. CASE ~(n < Len(complete))
    BY <1>1, <2>2
  <2> QED BY <2>1, <2>2
<1>7. Len(complete) \in E
  <2> HIDE DEF E
  <2> QED BY <1>1, <1>5, <1>6, AllNumbers
<1>8. Conveys(after[Len(complete)], b, SoFar(Len(complete)))
  BY <1>1, <1>7
<1>9. SoFar(Len(complete)) = all
  BY <1>1, SubSeqFull DEF SoFar
<1>10. Conveys([after[Len(complete)] EXCEPT !.pending = partial], b, all)
  BY <1>8, <1>9, PendingMayChange
<1>11. [after[Len(complete)] EXCEPT !.pending = partial].pending = partial
  BY <1>8 DEF Conveys, Carries, IsFilter
<1> QED BY <1>2, <1>10, <1>11

LEMMA CutIs ==
  ASSUME NEW pending \in Seq(Events), Len(pending) <= 1
  PROVE  LET cut == [n \in DOMAIN pending |-> [kind |-> "partial", index |-> 0, text |-> <<>>]]
         IN  cut = <<>> \/ \E e : e.kind = "partial" /\ cut = <<e>>
<1> DEFINE cut == [n \in DOMAIN pending |-> [kind |-> "partial", index |-> 0, text |-> <<>>]]
<1>1. Len(pending) \in Nat /\ DOMAIN pending = 1..Len(pending)
  BY LenProperties
<1>2. CASE Len(pending) = 0
  <2>1. DOMAIN pending = {}
    BY <1>1, <1>2
  <2> QED BY <2>1
<1>3. CASE Len(pending) = 1
  <2> DEFINE e == [kind |-> "partial", index |-> 0, text |-> <<>>]
  <2>1. DOMAIN pending = 1..1
    BY <1>1, <1>3
  <2>2. cut = <<e>> /\ e.kind = "partial"
    BY <2>1
  <2> HIDE DEF cut, e
  <2> QED BY <2>2 DEF cut
<1> QED BY <1>1, <1>2, <1>3, SMTT(30)

\* finish: the tail, and the event that was cut.
LEMMA FinishKeeps ==
  ASSUME NEW f, NEW b, NEW s, Carries([f EXCEPT !.out = <<>>], b, s),
         f = [pending |-> f.pending, stripper |-> f.stripper, shape |-> f.shape,
              blocks |-> f.blocks, out |-> f.out],
         f.pending \in Seq(Events), Len(f.pending) <= 1
  PROVE  WellFormed(b \o FilterFinish(f).out)
<1> DEFINE g == [f EXCEPT !.out = <<>>]
           cut == [n \in DOMAIN f.pending |-> [kind |-> "partial", index |-> 0, text |-> <<>>]]
<1>1. g.out = <<>> /\ g.stripper = f.stripper /\ g.shape = f.shape /\ g.blocks = f.blocks
  OBVIOUS
<1> HIDE DEF g
<1>2. PICK T : b \in Seq(T) /\ b \o g.out = b
  <2>1. PICK T : b \in Seq(T)
    BY DEF Carries, g
  <2>2. b \o <<>> = b
    BY <2>1, ConcatEmptySeq
  <2> QED BY <1>1, <2>1, <2>2, Zenon
<1>3. /\ Shown(b, g.blocks) /\ (Has(b, Terminal) => g.stripper = Fresh) /\ g.blocks \subseteq Nat
      /\ g.shape \in {NoShape, OpenAi} \cup {Anthropic(i) : i \in g.blocks}
  BY <1>2 DEF Carries, g
<1>4. FilterFinish(f).out = TailFrames(g) \o cut
  <2>1. TailFrames(f) = TailFrames(g)
    BY <1>1 DEF TailFrames
  <2>2. FilterFinish(f).out = TailFrames(f) \o cut
    BY DEF FilterFinish
  <2> QED BY <2>1, <2>2
<1>5. \/ cut = <<>>
      \/ \E e : e.kind = "partial" /\ cut = <<e>>
  BY CutIs
<1> HIDE DEF cut
<1>6. \E U : TailFrames(g) \in Seq(U) /\ b \in Seq(U) /\ WellFormed(b \o TailFrames(g))
  <2>1. CASE TailFrames(g) = <<>>
    <3>1. b \o <<>> = b /\ <<>> \in Seq(T)
      BY <1>2, ConcatEmptySeq
    <3>2. WellFormed(b \o <<>>)
      BY <1>3, <3>1, Zenon DEF Shown
    <3> QED BY <1>2, <2>1, <3>1, <3>2, Zenon
  <2>2. CASE TailFrames(g) # <<>>
    <3>1. g.shape # NoShape /\ ~Has(b, Terminal)
      BY <1>3, <2>2, TailIs, NoTailOfFresh
    <3>2. PICK tail : TailFrames(g) = <<DataFrame(g.shape, tail)>>
      BY <2>2, TailIs
    <3>3. PICK e : e = DataFrame(g.shape, tail)
      OBVIOUS
    <3>4. e.kind \in {"delta", "text"} /\ (e.kind = "text" => e.index \in g.blocks)
      BY <1>3, <3>1, <3>3 DEF DataFrame, NoShape, OpenAi, Anthropic, OpenAiDelta, TextDelta
    <3>5. Shown(Append(b, e), g.blocks)
      BY <1>2, <1>3, <3>1, <3>4, ShowMore
    <3>6. b \in Seq(T \cup {e}) /\ <<e>> \in Seq(T \cup {e}) /\ Append(b, e) = b \o <<e>>
      <4>1. b \in Seq(T \cup {e})
        BY <1>2, SeqMonotonic
      <4> QED BY <4>1, AppendIsConcat
    <3>7. WellFormed(b \o <<e>>)
      BY <3>5, <3>6, Zenon DEF Shown
    <3> QED BY <3>2, <3>3, <3>6, <3>7, Zenon
  <2> QED BY <2>1, <2>2
<1>7. PICK U : TailFrames(g) \in Seq(U) /\ b \in Seq(U) /\ WellFormed(b \o TailFrames(g))
  BY <1>6
<1>8. PICK o \in Seq(U) : o = TailFrames(g)
  BY <1>7
<1>9. WellFormed(b \o o)
  BY <1>7, <1>8, Zenon
<1>10. CASE cut = <<>>
  <2>1. o \o <<>> = o
    BY ConcatEmptySeq
  <2> QED BY <1>4, <1>8, <1>9, <1>10, <2>1, Zenon
<1>11. CASE \E e : e.kind = "partial" /\ cut = <<e>>
  <2>1. PICK e : e.kind = "partial" /\ cut = <<e>>
    BY <1>11
  <2>2. PICK d \in Seq(U) : d = b \o o
    BY <1>7, ConcatProperties
  <2>3. WellFormed(Append(d, e))
    BY <1>9, <2>1, <2>2, OneMoreFrame
  <2>4. b \o Append(o, e) = Append(b \o o, e)
    BY <1>7, OutGrows
  <2>5. Append(o, e) = o \o <<e>>
    <3>1. o \in Seq(U \cup {e})
      BY SeqMonotonic
    <3> QED BY <3>1, AppendIsConcat
  <2> QED BY <1>4, <1>8, <2>1, <2>2, <2>3, <2>4, <2>5, Zenon
<1> QED BY <1>5, <1>10, <1>11

\* Every block shows what strip_think leaves of its text.
AllShown(d, s) ==
  \A i : Bytes(TextOf(s, i)) <= THINK_BAILOUT => TextOf(d, i) = StripThink(TextOf(s, i))

LEMMA ShownInTheEnd ==
  ASSUME NEW f, NEW d, NEW s, Filtered(f, s), \A i : BlockShown(f, d, s, i),
         NEW c, \A i : TextOf(c, i) = IF Current(f, i) THEN TextOf(d, i) \o f.stripper.buf ELSE TextOf(d, i)
  PROVE  AllShown(c, s)
<1> SUFFICES ASSUME NEW i, Bytes(TextOf(s, i)) <= THINK_BAILOUT
             PROVE  TextOf(c, i) = StripThink(TextOf(s, i))
  BY DEF AllShown
<1>1. PICK A \in Text, D \in Text : A = TextOf(s, i) /\ D = TextOf(d, i)
  BY DEF BlockShown
<1>2. CASE ~Current(f, i)
  BY <1>2 DEF BlockShown
<1>3. CASE Current(f, i) /\ ~Has(s, Terminal)
  <2>1. Continues(f.stripper, A, D)
    BY <1>1, <1>3 DEF BlockShown
  <2>2. StripThink(A) = D \o f.stripper.buf
    BY <2>1, ContinuesEnds DEF Filtered
  <2> QED BY <1>1, <1>3, <2>2
<1>4. CASE Current(f, i) /\ Has(s, Terminal)
  <2>1. D = StripThink(A) /\ f.stripper.buf = <<>>
    BY <1>1, <1>4 DEF BlockShown, Filtered, Fresh
  <2>2. D \o <<>> = D
    BY Nothing
  <2> QED BY <1>1, <1>4, <2>1, <2>2, Zenon
<1> QED BY <1>2, <1>3, <1>4

LEMMA FinishShows ==
  ASSUME NEW f, NEW b, NEW s, Conveys([f EXCEPT !.out = <<>>], b, s), IsFilter(f),
         f.pending \in Seq(Events), Len(f.pending) <= 1
  PROVE  AllShown(b \o FilterFinish(f).out, s)
<1> DEFINE g == [f EXCEPT !.out = <<>>]
           cut == [n \in DOMAIN f.pending |-> [kind |-> "partial", index |-> 0, text |-> <<>>]]
<1>1. /\ g.out = <<>> /\ g.stripper = f.stripper /\ g.shape = f.shape
      /\ Carries(g, b, s) /\ Renders(g, b, s)
  BY DEF IsFilter, Conveys
<1> HIDE DEF g
<1>2. PICK T : b \in Seq(T)
  BY <1>1 DEF Carries
<1>3. b \o <<>> = b /\ <<>> \in Seq(T)
  BY <1>2, ConcatEmptySeq
<1>4. Filtered(g, s) /\ \A i : BlockShown(g, b, s, i)
  <2>1. b \o g.out = b
    BY <1>1, <1>3
  <2> QED BY <1>1, <2>1 DEF Renders
<1>5. \A i : TextOf(b \o <<>>, i) \in Text
  BY <1>3, <1>4 DEF BlockShown
<1>6. /\ \E U : b \in Seq(U) /\ <<>> \o TailFrames(g) \in Seq(U)
      /\ \A i : TextOf(b \o (<<>> \o TailFrames(g)), i) =
                  IF Current(g, i) THEN TextOf(b \o <<>>, i) \o g.stripper.buf ELSE TextOf(b \o <<>>, i)
  <2>0. PICK k : k = g
    OBVIOUS
  <2>1. PICK none \in Seq(T) : none = <<>>
    BY <1>3
  <2>2. Filtered(k, s) /\ \A i : TextOf(b \o none, i) \in Text
    BY <1>4, <1>5, <2>0, <2>1
  <2>3. Releases(k, b, none)
    BY <1>2, <2>1, <2>2, TailShows
  <2> QED BY <2>0, <2>1, <2>3, Zenon DEF Releases
<1>7. PICK U : b \in Seq(U) /\ <<>> \o TailFrames(g) \in Seq(U)
  BY <1>6
<1>8. PICK q \in Seq(U) : q = TailFrames(g) /\ <<>> \o TailFrames(g) = q
  <2>1. TailFrames(g) = <<>> \/ \E e : TailFrames(g) = <<e>>
    BY TailIs
  <2>2. \A e : <<>> \o <<e>> = <<e>>
    <3> TAKE e
    <3>1. <<e>> \in Seq({e})
      OBVIOUS
    <3> QED BY <3>1, ConcatEmptySeq
  <2>3. <<>> \o <<>> = <<>>
    OBVIOUS
  <2>4. <<>> \o TailFrames(g) = TailFrames(g)
    BY <2>1, <2>2, <2>3, Zenon
  <2> QED BY <1>7, <2>4
<1>9. \A i : TextOf(b \o q, i) = IF Current(g, i) THEN TextOf(b, i) \o g.stripper.buf ELSE TextOf(b, i)
  BY <1>3, <1>6, <1>8, Zenon
<1>10. FilterFinish(f).out = q \o cut
  <2>1. TailFrames(f) = TailFrames(g)
    BY <1>1 DEF TailFrames
  <2>2. FilterFinish(f).out = TailFrames(f) \o cut
    BY DEF FilterFinish
  <2> QED BY <1>8, <2>1, <2>2
<1>11. cut = <<>> \/ \E e : e.kind = "partial" /\ cut = <<e>>
  BY CutIs
<1> HIDE DEF cut
<1>12. \A i : TextOf(b \o (q \o cut), i) = TextOf(b \o q, i)
  <2>1. CASE cut = <<>>
    <3>1. q \o <<>> = q
      BY ConcatEmptySeq
    <3> QED BY <2>1, <3>1, Zenon
  <2>2. ASSUME NEW e, e.kind = "partial", cut = <<e>>
        PROVE  \A i : TextOf(b \o (q \o cut), i) = TextOf(b \o q, i)
    <3>1. Append(q, e) = q \o <<e>>
      <4>1. q \in Seq(U \cup {e})
        BY SeqMonotonic
      <4> QED BY <4>1, AppendIsConcat
    <3>2. \A i : TextOf(b \o Append(q, e), i) = TextOf(b \o q, i)
      BY <1>7, <2>2, FrameIsSilent
    <3> QED BY <2>2, <3>1, <3>2, Zenon
  <2> QED BY <1>11, <2>1, <2>2
<1>13. PICK c : c = b \o FilterFinish(f).out
  OBVIOUS
<1>14. \A i : TextOf(c, i) = IF Current(g, i) THEN TextOf(b, i) \o g.stripper.buf ELSE TextOf(b, i)
  BY <1>9, <1>10, <1>12, <1>13, Zenon
<1>15. AllShown(c, s)
  BY <1>4, <1>14, ShownInTheEnd
<1> QED BY <1>13, <1>15

LEMMA ProperMore ==
  ASSUME NEW s \in Seq(Events), NEW ev, Proper(s), Follows(s, ev)
  PROVE  Proper(Append(s, ev))
<1> DEFINE t == Append(s, ev)
<1>1. /\ Len(t) = Len(s) + 1 /\ Len(s) \in Nat /\ t[Len(s) + 1] = ev
      /\ \A n \in 1..Len(s) : t[n] = s[n]
  <2>1. s \in Seq(Events \cup {ev})
    BY SeqMonotonic
  <2> QED BY <2>1, AppendProperties, LenProperties
<1>2. /\ \A n \in 1..Len(s) : SubSeq(t, 1, n - 1) = SubSeq(s, 1, n - 1)
      /\ SubSeq(t, 1, (Len(s) + 1) - 1) = s
  BY <1>1, BeforeAppended
<1> HIDE DEF t
<1>3. ASSUME NEW n \in 1..Len(t) PROVE Follows(SubSeq(t, 1, n - 1), t[n])
  <2>1. CASE n \in 1..Len(s)
    BY <1>1, <1>2, <2>1 DEF Proper
  <2>2. CASE n = Len(s) + 1
    BY <1>1, <1>2, <2>2
  <2> QED BY <1>1, <2>1, <2>2
<1> QED BY <1>3 DEF Proper, t

LEMMA ProperLess ==
  ASSUME NEW s \in Seq(Events), NEW t \in Seq(Events), Proper(s \o t)
  PROVE  Proper(s)
<1> SUFFICES ASSUME NEW n \in 1..Len(s) PROVE Follows(SubSeq(s, 1, n - 1), s[n])
  BY DEF Proper
<1>1. /\ Len(s) \in Nat /\ Len(t) \in Nat /\ Len(s \o t) = Len(s) + Len(t) /\ (s \o t)[n] = s[n]
  BY ConcatProperties, LenProperties
<1>2. Follows(SubSeq(s \o t, 1, n - 1), (s \o t)[n])
  BY <1>1 DEF Proper
<1>3. SubSeq(s \o t, 1, n - 1) = SubSeq(s, 1, n - 1)
  <2>1. CASE n = 1
    BY <2>1, SubSeqEmpty
  <2>2. CASE n > 1
    <3>1. n - 1 \in 1..Len(s) /\ 1 \in 1..Len(s)
      BY <1>1, <2>2
    <3> QED BY <3>1, SubSeqOfConcat1
  <2> QED BY <1>1, <2>1, <2>2
<1> QED BY <1>1, <1>2, <1>3

EventLists == Seq(Events)

LEMMA EventsJoin == \A u, v \in EventLists : u \o v \in EventLists
BY ConcatProperties DEF EventLists

LEMMA EventsRegroup == \A u, v, t \in EventLists : (u \o v) \o t = u \o (v \o t)
BY ConcatAssociative DEF EventLists

InPairs(a, p, x, v) == (a \o p) \o (x \o v)
LastApart(a, p, x, v) == (a \o (p \o x)) \o v

LEMMA Regrouped ==
  ASSUME NEW a \in EventLists, NEW p \in EventLists, NEW x \in EventLists, NEW v \in EventLists
  PROVE  InPairs(a, p, x, v) = LastApart(a, p, x, v)
<1>1. a \o p \in EventLists /\ (a \o p) \o x = a \o (p \o x)
  BY EventsJoin, EventsRegroup
<1>2. PICK ap : ap = a \o p
  OBVIOUS
<1>3. (ap \o x) \o v = ap \o (x \o v)
  BY <1>1, <1>2, EventsRegroup
<1> QED BY <1>1, <1>2, <1>3, Zenon DEF InPairs, LastApart

Together(a, p, x, y, z) == (a \o p) \o (x \o (y \o z))
InTurn(a, p, x, y, z) == ((a \o (p \o x)) \o y) \o z

LEMMA Rejoined ==
  ASSUME NEW a \in EventLists, NEW p \in EventLists, NEW x \in EventLists, NEW y \in EventLists,
         NEW z \in EventLists
  PROVE  Together(a, p, x, y, z) = InTurn(a, p, x, y, z)
<1>1. PICK v : v = y \o z /\ v \in EventLists
  BY EventsJoin
<1>2. (a \o p) \o (x \o v) = (a \o (p \o x)) \o v
  <2>1. InPairs(a, p, x, v) = LastApart(a, p, x, v)
    BY <1>1, Regrouped
  <2> QED BY <2>1, Zenon DEF InPairs, LastApart
<1>3. PICK c : c = a \o (p \o x) /\ c \in EventLists
  <2>1. p \o x \in EventLists
    BY EventsJoin
  <2> QED BY <2>1, EventsJoin
<1>4. (c \o y) \o z = c \o (y \o z)
  BY <1>3, EventsRegroup
<1> QED BY <1>1, <1>2, <1>3, <1>4, Zenon DEF Together, InTurn

\* The wire w cut after n and after m events, behind what arrived and what pends.
Parted(a, p, w, n, m) ==
  /\ SubSeq(w, 1, n) \in Seq(Events) /\ SubSeq(w, n + 1, m) \in Seq(Events)
  /\ SubSeq(w, m + 1, Len(w)) \in Seq(Events)
  /\ Len(SubSeq(w, n + 1, m)) = m - n
  /\ (a \o p) \o w = ((a \o (p \o SubSeq(w, 1, n))) \o SubSeq(w, n + 1, m)) \o SubSeq(w, m + 1, Len(w))

\* However the events on the wire are cut, together they are the same.
LEMMA Recut ==
  ASSUME NEW a \in Seq(Events), NEW p \in Seq(Events), NEW w \in Seq(Events),
         NEW n \in Nat, NEW m \in Nat, n <= m, m <= Len(w)
  PROVE  Parted(a, p, w, n, m)
<1> DEFINE x == SubSeq(w, 1, n)
           y == SubSeq(w, n + 1, m)
           z == SubSeq(w, m + 1, Len(w))
<1>1. Len(w) \in Nat /\ n \in 0..Len(w) /\ m \in n..Len(w) /\ 1 \in 1..(Len(w) + 1) /\ n + 1 \in 1..(Len(w) + 1)
      /\ 1 \in Int /\ n \in Int /\ n + 1 \in Int /\ m \in Int /\ m + 1 \in Int /\ Len(w) \in Int
  BY LenProperties
<1>2. \A i \in 1..Len(w) : w[i] \in Events
  BY ElementOfSeq
<1>3. x \in Seq(Events)
  <2>1. \A i \in 1..n : w[i] \in Events
    BY <1>1, <1>2
  <2> QED BY <1>1, <2>1, SubSeqProperties
<1>4. y \in Seq(Events) /\ Len(y) = m - n
  <2>1. \A i \in (n + 1)..m : w[i] \in Events
    BY <1>1, <1>2
  <2>2. y \in Seq(Events) /\ Len(y) = IF n + 1 <= m THEN m - (n + 1) + 1 ELSE 0
    BY <1>1, <2>1, SubSeqProperties
  <2> HIDE DEF y
  <2> QED BY <1>1, <2>2
<1>5. z \in Seq(Events)
  <2>1. \A i \in (m + 1)..Len(w) : w[i] \in Events
    BY <1>1, <1>2
  <2> QED BY <1>1, <2>1, SubSeqProperties
<1>6. y \o z = SubSeq(w, n + 1, Len(w))
  <2>1. m \in ((n + 1) - 1)..Len(w) /\ Len(w) \in m..Len(w)
    BY <1>1
  <2> QED BY <1>1, <2>1, ConcatAdjacentSubSeq
<1>7. x \o (y \o z) = w
  <2>1. n \in (1 - 1)..Len(w) /\ Len(w) \in n..Len(w)
    BY <1>1
  <2>2. x \o SubSeq(w, n + 1, Len(w)) = SubSeq(w, 1, Len(w))
    BY <1>1, <2>1, ConcatAdjacentSubSeq
  <2> QED BY <1>6, <2>2, SubSeqFull
<1> HIDE DEF x, y, z
<1>8. (a \o p) \o (x \o (y \o z)) = ((a \o (p \o x)) \o y) \o z
  <2>1. a \in EventLists /\ p \in EventLists /\ x \in EventLists /\ y \in EventLists /\ z \in EventLists
    BY <1>3, <1>4, <1>5 DEF EventLists
  <2>2. Together(a, p, x, y, z) = InTurn(a, p, x, y, z)
    BY <2>1, Rejoined
  <2> QED BY <2>2, Zenon DEF Together, InTurn
<1>9. (a \o p) \o w = ((a \o (p \o x)) \o y) \o z
  BY <1>7, <1>8
<1> QED BY <1>3, <1>4, <1>5, <1>9, Zenon DEF x, y, z, Parted

\* The server's block is the last one of what it sent.
BlockIsLast(sent) ==
  /\ block.index \in Nat /\ block = [index |-> block.index, open |-> block.open]
  /\ \A n \in DOMAIN sent :
       /\ sent[n].kind \in {"start", "text"} =>
            sent[n].index \in Nat /\ (sent[n].index < block.index \/ (sent[n].index = block.index /\ block.open))
       /\ sent[n].kind = "stop" => sent[n].index \in Nat /\ sent[n].index < block.index

\* What it sent keeps to its dialect, and a block with text is its current one or
\* has ended.
SentInOrder(sent) ==
  /\ dialect = "openai" => ~Framed(sent)
  /\ dialect = "anthropic" => ~Deltas(sent)
  /\ dialect \in {"openai", "anthropic"}
  /\ \A j \in Nat : Wrote(sent, j) => j = block.index \/ Has(sent, BlockStop(j))

\* What the client has read stands for what arrived, block by block and text by
\* text; and what the server sends next may follow.
DeliveryInv ==
  /\ WellFormed(delivered)
  /\ phase = "streaming" =>
       /\ arrived \in Seq(Events) /\ wire \in Seq(Events)
       /\ filter.pending \in Seq(Events) /\ Len(filter.pending) <= 1
       /\ IsFilter(filter)
       /\ Conveys([filter EXCEPT !.out = <<>>], delivered, arrived)
       /\ Proper(Sent)
       /\ upstream = "flowing" => BlockIsLast(Sent) /\ SentInOrder(Sent)
  /\ phase # "streaming" => AllShown(delivered, arrived)

LEMMA NothingYet == \A x, i : ~Has(<<>>, x) /\ ~Begun(<<>>, i)
BY DEF Has, Begun

LEMMA InitDelivery == Init => DeliveryInv
<1> SUFFICES ASSUME Init PROVE DeliveryInv
  OBVIOUS
<1>1. /\ arrived = <<>> /\ wire = <<>> /\ delivered = <<>> /\ filter = NewFilter
      /\ block = [index |-> 0, open |-> FALSE] /\ dialect \in {"openai", "anthropic"} /\ phase = "streaming"
  BY DEF Init
<1>2. <<>> \in Seq(Events) /\ Len(<<>>) = 0 /\ <<>> \o <<>> = <<>> /\ \A n \in DOMAIN <<>> : FALSE
  OBVIOUS
<1>3. Sent = <<>>
  BY <1>1, <1>2 DEF Sent, NewFilter
<1>4. Proper(Sent) /\ BlockIsLast(Sent) /\ SentInOrder(Sent) /\ WellFormed(delivered)
  BY <1>1, <1>3 DEF Proper, BlockIsLast, SentInOrder, Framed, Deltas, Wrote, WellFormed
<1>5. IsFilter(filter) /\ filter.pending = <<>>
  BY <1>1 DEF IsFilter, NewFilter
<1>6. Conveys([filter EXCEPT !.out = <<>>], delivered, arrived)
  <2> DEFINE g == [filter EXCEPT !.out = <<>>]
  <2>0. \A f : IsFilter(f) /\ f.out = <<>> => [f EXCEPT !.out = <<>>] = f
    BY DEF IsFilter
  <2>1. g = [pending |-> <<>>, stripper |-> Fresh, shape |-> NoShape, blocks |-> {}, out |-> <<>>]
    <3>1. NewFilter = [pending |-> <<>>, stripper |-> Fresh, shape |-> NoShape, blocks |-> {}, out |-> <<>>]
      BY DEF NewFilter
    <3>2. NewFilter.out = <<>> /\ IsFilter(NewFilter)
      BY <3>1 DEF IsFilter
    <3> QED BY <1>1, <2>0, <3>1, <3>2
  <2> HIDE DEF g
  <2>2. delivered \o g.out = <<>>
    BY <1>1, <1>2, <2>1
  <2>3. IsFilter(g) /\ (\E T : delivered \in Seq(T) /\ g.out \in Seq(T))
    BY <1>1, <1>2, <2>1 DEF IsFilter
  <2>4. WellFormed(<<>>)
    BY DEF WellFormed
  <2>5. Carries(g, delivered, arrived)
    BY <1>1, <2>1, <2>2, <2>3, <2>4, NothingYet DEF Carries, Shown, Backed
  <2>6. Renders(g, delivered, arrived)
    <3>1. g.stripper = Fresh /\ g.shape = NoShape
      BY <2>1
    <3>2. ~Deltas(<<>>) /\ ~Framed(<<>>) /\ \A j : ~Wrote(<<>>, j)
      BY DEF Deltas, Framed, Wrote
    <3>3. Filtered(g, <<>>)
      BY <3>1, <3>2, FreshIs, ShapesDiffer DEF Filtered
    <3>4. \A i : BlockShown(g, <<>>, <<>>, i)
      BY <3>1, TextOfNone, NothingStripped, Nothing DEF BlockShown, Current
    <3> QED BY <1>1, <2>2, <3>3, <3>4 DEF Renders
  <2> QED BY <2>5, <2>6 DEF Conveys, g
<1> QED BY <1>1, <1>2, <1>4, <1>5, <1>6 DEF DeliveryInv

\* What the server sends is appended to what it sent.
LEMMA SendAppends ==
  ASSUME DeliveryInv, phase = "streaming", NEW ev \in Events, Sends(ev)
  PROVE  /\ Sent \in Seq(Events) /\ Sent' = Append(Sent, ev)
         /\ wire' \in Seq(Events) /\ ~Has(Sent, Terminal) /\ upstream = "flowing"
         /\ UNCHANGED <<arrived, upstream, filter, phase, delivered, client>>
<1>1. /\ arrived \in Seq(Events) /\ wire \in Seq(Events) /\ filter.pending \in Seq(Events)
      /\ wire' = Append(wire, ev) /\ ~Has(Sent, Terminal) /\ upstream = "flowing"
      /\ UNCHANGED <<arrived, upstream, filter, phase, delivered, client>>
  BY DEF DeliveryInv, Sends
<1>2. PICK q \in Seq(Events) : q = arrived \o filter.pending
  BY <1>1, ConcatProperties
<1>3. /\ q \o wire \in Seq(Events) /\ Append(wire, ev) \in Seq(Events)
      /\ q \o Append(wire, ev) = Append(q \o wire, ev)
  <2>1. PICK w \in Seq(Events) : w = wire
    BY <1>1
  <2>2. q \o w \in Seq(Events) /\ Append(w, ev) \in Seq(Events)
    BY ConcatProperties, AppendProperties
  <2>3. q \o Append(w, ev) = Append(q \o w, ev)
    BY OutGrows
  <2> QED BY <2>1, <2>2, <2>3, Zenon
<1>4. Sent = q \o wire
  BY <1>2, Zenon DEF Sent
<1>5. Sent' = q \o wire'
  BY <1>1, <1>2, Zenon DEF Sent
<1> QED BY <1>1, <1>3, <1>4, <1>5, Zenon

LEMMA ServerKeeps ==
  ASSUME DeliveryInv, Server
  PROVE  DeliveryInv'
<1>1. /\ UNCHANGED <<arrived, upstream, filter, phase, delivered>>
      /\ upstream = "flowing"
  BY DEF Server, SendStart, SendStop, SendTerminal, SendDelta, SendText, Sends
<1>2. CASE phase # "streaming"
  BY <1>1, <1>2 DEF DeliveryInv
<1>3. ASSUME phase = "streaming", NEW ev \in Events, Sends(ev)
      PROVE  /\ Sent \in Seq(Events) /\ Sent' = Append(Sent, ev)
             /\ ~Has(Sent, Terminal) /\ Proper(Sent)
             /\ block.index \in Nat /\ BlockIsLast(Sent) /\ SentInOrder(Sent)
             /\ \A n \in DOMAIN Sent' : Sent'[n] = ev \/ \E m \in DOMAIN Sent : Sent'[n] = Sent[m]
  <2>1. /\ Sent \in Seq(Events) /\ Sent' = Append(Sent, ev) /\ ~Has(Sent, Terminal)
    BY <1>3, SendAppends
  <2>2. PICK s \in Seq(Events) : s = Sent
    BY <2>1
  <2>3. \A n \in DOMAIN Append(s, ev) : Append(s, ev)[n] = ev \/ \E m \in DOMAIN s : Append(s, ev)[n] = s[m]
    <3> DEFINE t == Append(s, ev)
    <3>1. /\ t \in Seq(Events) /\ Len(t) = Len(s) + 1 /\ Len(s) \in Nat
          /\ \A n \in 1..Len(s) : t[n] = s[n]
          /\ t[Len(s) + 1] = ev
      BY AppendProperties, LenProperties
    <3>2. DOMAIN t = 1..Len(t) /\ DOMAIN s = 1..Len(s)
      BY <3>1, LenProperties
    <3> HIDE DEF t
    <3>3. \A n \in DOMAIN t : t[n] = ev \/ \E m \in DOMAIN s : t[n] = s[m]
      BY <3>1, <3>2
    <3> QED BY <3>3 DEF t
  <2>4. Proper(Sent) /\ BlockIsLast(Sent) /\ SentInOrder(Sent) /\ block.index \in Nat
    BY <1>1, <1>3 DEF DeliveryInv, BlockIsLast
  <2> QED BY <2>1, <2>2, <2>3, <2>4, Zenon
\* What was sent keeps in order with an event of the dialect.
<1>13. ASSUME phase = "streaming", NEW ev \in Events, Sends(ev),
              dialect = "openai" => ev.kind \in {"delta", "end"}, dialect = "anthropic" => ev.kind # "delta",
              ev.kind \in {"text", "stop"} => ev.index = block.index,
              block'.index = block.index \/ (block'.index \in Nat /\ ev = BlockStop(block.index))
       PROVE  InOrder(Sent, ev) /\ SentInOrder(Sent)'
  <2>1. /\ Sent \in Seq(Events) /\ Sent' = Append(Sent, ev) /\ SentInOrder(Sent)
    BY <1>3, <1>13
  <2>2. PICK s \in Seq(Events) : s = Sent
    BY <2>1
  <2>3. /\ dialect = "openai" => ~Framed(s)
        /\ dialect = "anthropic" => ~Deltas(s)
        /\ dialect \in {"openai", "anthropic"} /\ dialect' = dialect
        /\ \A j \in Nat : Wrote(s, j) => j = block.index \/ Has(s, BlockStop(j))
    BY <1>13, <2>1, <2>2 DEF SentInOrder, Sends
  <2>4. InOrder(s, ev)
    BY <1>13, <2>3 DEF InOrder
  <2>5. /\ Deltas(Append(s, ev)) <=> Deltas(s) \/ ev.kind = "delta"
        /\ Framed(Append(s, ev)) <=> Framed(s) \/ ev.kind \in {"start", "text", "stop"}
        /\ \A j : Wrote(Append(s, ev), j) <=> Wrote(s, j) \/ (ev.kind = "text" /\ ev.index = j)
    BY CameToo
  <2>6. \A x : Has(Append(s, ev), x) <=> Has(s, x) \/ x = ev
    BY Appended
  <2>7. PICK t : t = Append(s, ev) /\ t = Sent'
    BY <2>1, <2>2
  <2>8. /\ dialect' = "openai" => ~Framed(t)
        /\ dialect' = "anthropic" => ~Deltas(t)
        /\ \A j \in Nat : Wrote(t, j) => j = block'.index \/ Has(t, BlockStop(j))
    BY <1>13, <2>3, <2>5, <2>6, <2>7
  <2>9. SentInOrder(Sent)'
    BY <2>3, <2>7, <2>8 DEF SentInOrder
  <2> QED BY <2>2, <2>4, <2>9
<1>4. ASSUME phase = "streaming", NEW ev \in Events, Sends(ev), Follows(Sent, ev), BlockIsLast(Sent)',
             SentInOrder(Sent)'
      PROVE  DeliveryInv'
  <2>1. /\ Sent \in Seq(Events) /\ Sent' = Append(Sent, ev) /\ Proper(Sent)
    BY <1>3, <1>4
  <2>2. PICK s \in Seq(Events) : s = Sent
    BY <2>1
  <2>3. Proper(Append(s, ev))
    BY <1>4, <2>1, <2>2, ProperMore
  <2>4. Proper(Sent')
    BY <2>1, <2>2, <2>3, Zenon
  <2>5. Proper(Sent)'
    BY <2>4 DEF Proper, Follows
  <2>6. wire' \in Seq(Events)
    BY <1>4, SendAppends
  <2> QED BY <1>1, <1>4, <2>5, <2>6 DEF DeliveryInv
\* Nothing of block i, or nothing after what was sent of it.
<1>5. ASSUME phase = "streaming", BlockIsLast(Sent)
      PROVE  /\ ~Has(Sent, BlockStop(block.index))
             /\ ~block.open => ~Begun(Sent, block.index)
  BY <1>5 DEF BlockIsLast, Has, Begun, BlockStop
<1>6. phase = "streaming" =>
        /\ BlockIsLast(Sent) /\ block.index \in Nat
        /\ block = [index |-> block.index, open |-> block.open]
  BY <1>1 DEF DeliveryInv, BlockIsLast
<1>7. CASE phase = "streaming" /\ SendStart
  <2>1. PICK ev : ev = BlockStart(block.index)
    OBVIOUS
  <2>2. /\ ~block.open /\ Sends(ev) /\ ev.kind = "start" /\ ev.index = block.index
        /\ block' = [block EXCEPT !.open = TRUE] /\ ev \in Events
    BY <1>6, <1>7, <2>1 DEF SendStart, BlockStart, Events
  <2>3. block'.index = block.index /\ block'.open /\ block' = [index |-> block'.index, open |-> block'.open]
    BY <1>6, <1>7, <2>2
  <2>6. InOrder(Sent, ev) /\ SentInOrder(Sent)'
    BY <1>7, <1>13, <2>2, <2>3 DEF SendStart
  <2>4. Follows(Sent, ev)
    BY <1>3, <1>5, <1>6, <1>7, <2>2, <2>6 DEF Follows
  <2>5. BlockIsLast(Sent)'
    BY <1>3, <1>6, <1>7, <2>2, <2>3 DEF BlockIsLast
  <2> QED BY <1>4, <1>7, <2>2, <2>4, <2>5, <2>6
<1>8. ASSUME phase = "streaming", NEW text \in Texts, SendText(text)
      PROVE  DeliveryInv'
  <2>1. PICK ev : ev = TextDelta(block.index, text)
    OBVIOUS
  <2>2. /\ Sends(ev) /\ ev.kind = "text" /\ ev.index = block.index
        /\ block' = [block EXCEPT !.open = TRUE] /\ ev \in Events
    BY <1>6, <1>8, <2>1 DEF SendText, TextDelta, Events
  <2>3. block'.index = block.index /\ block'.open /\ block' = [index |-> block'.index, open |-> block'.open]
    BY <1>6, <1>8, <2>2
  <2>6. InOrder(Sent, ev) /\ SentInOrder(Sent)'
    BY <1>8, <1>13, <2>2, <2>3 DEF SendText
  <2>4. Follows(Sent, ev)
    BY <1>3, <1>5, <1>6, <1>8, <2>2, <2>6 DEF Follows
  <2>5. BlockIsLast(Sent)'
    BY <1>3, <1>6, <1>8, <2>2, <2>3 DEF BlockIsLast
  <2> QED BY <1>4, <1>8, <2>2, <2>4, <2>5, <2>6
<1>9. CASE phase = "streaming" /\ SendStop
  <2>1. PICK ev : ev = BlockStop(block.index)
    OBVIOUS
  <2>2. /\ Sends(ev) /\ ev.kind = "stop" /\ ev.index = block.index
        /\ block' = [index |-> block.index + 1, open |-> FALSE] /\ ev \in Events
    BY <1>6, <1>9, <2>1 DEF SendStop, BlockStop, Events
  <2>5. InOrder(Sent, ev) /\ SentInOrder(Sent)'
    BY <1>6, <1>9, <1>13, <2>1, <2>2 DEF SendStop
  <2>3. Follows(Sent, ev)
    BY <1>3, <1>5, <1>6, <1>9, <2>2, <2>5 DEF Follows
  <2>6. /\ block'.index = block.index + 1 /\ block' = [index |-> block'.index, open |-> block'.open]
        /\ BlockIsLast(Sent) /\ block.index \in Nat
        /\ \A n \in DOMAIN Sent' : Sent'[n] = ev \/ \E m \in DOMAIN Sent : Sent'[n] = Sent[m]
    BY <1>3, <1>6, <1>9, <2>2
  <2>4. BlockIsLast(Sent)'
    BY <2>2, <2>6 DEF BlockIsLast
  <2> QED BY <1>4, <1>9, <2>2, <2>3, <2>4, <2>5
<1>10. ASSUME phase = "streaming", NEW ev \in Events, ev.kind \in {"delta", "end"}, Sends(ev), UNCHANGED block,
              ev.kind = "delta" => dialect = "openai"
       PROVE  DeliveryInv'
  <2>3. InOrder(Sent, ev) /\ SentInOrder(Sent)'
    BY <1>10, <1>13
  <2>1. Follows(Sent, ev)
    BY <1>3, <1>10, <2>3 DEF Follows
  <2>2. BlockIsLast(Sent)'
    BY <1>3, <1>6, <1>10 DEF BlockIsLast
  <2> QED BY <1>4, <1>10, <2>1, <2>2, <2>3
<1>11. CASE phase = "streaming" /\ SendTerminal
  BY <1>10, <1>11 DEF SendTerminal, Events, Terminal
<1>12. ASSUME phase = "streaming", NEW text \in Texts, SendDelta(text)
       PROVE  DeliveryInv'
  BY <1>10, <1>12 DEF SendDelta, Events, OpenAiDelta
<1> QED BY <1>2, <1>7, <1>8, <1>9, <1>11, <1>12 DEF Server

LEMMA UpstreamKeeps ==
  ASSUME DeliveryInv, NEW how \in {"eof", "broken"}, Upstream(how)
  PROVE  DeliveryInv'
<1>1. /\ UNCHANGED <<arrived, filter, phase, delivered>> /\ wire' = <<>> /\ upstream' # "flowing"
  BY DEF Upstream, serverVars
<1>2. CASE phase # "streaming"
  BY <1>1, <1>2 DEF DeliveryInv
<1>3. CASE phase = "streaming"
  <2>1. /\ arrived \in Seq(Events) /\ wire \in Seq(Events) /\ filter.pending \in Seq(Events)
        /\ Proper(Sent)
    BY <1>3 DEF DeliveryInv
  <2>2. PICK q \in Seq(Events) : q = arrived \o filter.pending
    BY <2>1, ConcatProperties
  <2>3. Proper(q)
    <3>1. PICK w \in Seq(Events) : w = wire
      BY <2>1
    <3>2. Proper(q \o w)
      BY <2>1, <2>2, <3>1, Zenon DEF Sent
    <3> QED BY <3>2, ProperLess
  <2>4. q \o <<>> = q /\ <<>> \in Seq(Events)
    BY ConcatEmptySeq
  <2>5. Sent' = q
    BY <1>1, <2>2, <2>4, Zenon DEF Sent
  <2>6. Proper(Sent)'
    BY <2>3, <2>5 DEF Proper, Follows
  <2> QED BY <1>1, <1>3, <2>4, <2>6 DEF DeliveryInv
<1> QED BY <1>2, <1>3

LEMMA ChunkKeeps ==
  ASSUME DeliveryInv, NEW n \in 0..MaxWire, NEW cut \in BOOLEAN, Chunk(n, cut)
  PROVE  DeliveryInv'
<1>1. PICK m \in Nat : m = n + (IF cut THEN 1 ELSE 0)
  BY DEF Chunk
<1> DEFINE first == SubSeq(wire, 1, n)
           begun == SubSeq(wire, n + 1, m)
           left == SubSeq(wire, m + 1, Len(wire))
<1>2. PICK complete : complete = filter.pending \o first
  OBVIOUS
<1>3. /\ phase = "streaming" /\ m <= Len(wire) /\ n \in Nat /\ n <= m /\ m - n <= 1
      /\ filter' = FilterPush(filter, complete, begun)
      /\ delivered' = delivered \o filter'.out
      /\ arrived' = arrived \o complete
      /\ wire' = left
      /\ UNCHANGED <<dialect, block, upstream, phase>>
  BY <1>1, <1>2 DEF Chunk, Yield, serverVars
<1>4. /\ arrived \in Seq(Events) /\ wire \in Seq(Events) /\ filter.pending \in Seq(Events)
      /\ Conveys([filter EXCEPT !.out = <<>>], delivered, arrived) /\ Proper(Sent)
      /\ upstream = "flowing" => BlockIsLast(Sent) /\ SentInOrder(Sent)
  BY <1>3 DEF DeliveryInv
<1>5. /\ first \in Seq(Events) /\ begun \in Seq(Events) /\ left \in Seq(Events) /\ Len(begun) = m - n
      /\ (arrived \o filter.pending) \o wire = ((arrived \o (filter.pending \o first)) \o begun) \o left
  <2>1. Parted(arrived, filter.pending, wire, n, m)
    <3>1. PICK a \in Seq(Events), p \in Seq(Events), w \in Seq(Events) :
            a = arrived /\ p = filter.pending /\ w = wire
      BY <1>4, Zenon
    <3>2. n <= m /\ m <= Len(w) /\ n \in Nat /\ m \in Nat
      BY <1>1, <1>3, <3>1, Zenon
    <3>3. Parted(a, p, w, n, m)
      BY <3>2, Recut, Zenon
    <3> QED BY <3>1, <3>3, Zenon
  <2> QED BY <2>1, Zenon DEF Parted
<1> HIDE DEF first, begun, left
<1>6. complete \in Seq(Events)
  <2>1. PICK p \in Seq(Events) : p = filter.pending
    BY <1>4
  <2>2. p \o first \in Seq(Events)
    BY <1>5, ConcatProperties
  <2> QED BY <1>2, <2>1, <2>2, Zenon
<1>7. PICK a \in Seq(Events) : a = arrived
  BY <1>4
<1>8. PICK all \in Seq(Events) : all = a \o complete
  BY <1>6, ConcatProperties
<1>9. Sent = (all \o begun) \o left
  BY <1>2, <1>5, <1>7, <1>8, Zenon DEF Sent
<1>10. Proper(all)
  <2>1. PICK more \in Seq(Events) : more = all \o begun
    BY <1>5, ConcatProperties
  <2>2. Proper(more \o left)
    BY <1>4, <1>9, <2>1, Zenon
  <2>3. Proper(more)
    BY <1>5, <2>2, ProperLess
  <2>4. Proper(all \o begun)
    BY <2>1, <2>3, Zenon
  <2> QED BY <1>5, <2>4, ProperLess
<1>11. /\ Conveys(filter', delivered, all) /\ filter'.pending = begun
  <2>1. Conveys([filter EXCEPT !.out = <<>>], delivered, a) /\ Proper(a \o complete)
    BY <1>4, <1>7, <1>8, <1>10
  <2>2. /\ Conveys(FilterPush(filter, complete, begun), delivered, a \o complete)
        /\ FilterPush(filter, complete, begun).pending = begun
    BY <1>6, <2>1, PushKeeps
  <2> QED BY <1>3, <1>8, <2>2
<1>12. arrived' = all
  BY <1>3, <1>7, <1>8, Zenon
<1>13. Sent' = Sent
  <2>1. Sent' = (all \o begun) \o left
    BY <1>3, <1>11, <1>12, Zenon DEF Sent
  <2> QED BY <1>9, <2>1
<1>14. Conveys([filter' EXCEPT !.out = <<>>], delivered', all)
  BY <1>3, <1>11, HandedOver
<1>15. WellFormed(delivered')
  BY <1>3, <1>11 DEF Conveys, Carries, Shown
<1>16. Conveys([filter EXCEPT !.out = <<>>], delivered, arrived)'
  <2>1. Conveys([filter' EXCEPT !.out = <<>>], delivered', arrived')
    BY <1>12, <1>14
  <2> QED BY <2>1
<1>17. WellFormed(delivered)' /\ IsFilter(filter)'
  BY <1>11, <1>15 DEF WellFormed, Has, IsFilter, Conveys, Carries
<1>18. Proper(Sent)' /\ (upstream = "flowing" => BlockIsLast(Sent) /\ SentInOrder(Sent))'
  <2>1. Proper(Sent)'
    BY <1>4, <1>13 DEF Proper, Follows
  <2>2. upstream' = upstream /\ block' = block /\ dialect' = dialect
    BY <1>3
  <2>3. (upstream = "flowing" => BlockIsLast(Sent))'
    BY <1>4, <1>13, <2>2 DEF BlockIsLast, Begun, Has
  <2>4. (upstream = "flowing" => SentInOrder(Sent))'
    BY <1>4, <1>13, <2>2 DEF SentInOrder
  <2> QED BY <2>1, <2>3, <2>4
<1> QED BY <1>3, <1>5, <1>11, <1>12, <1>16, <1>17, <1>18 DEF DeliveryInv

LEMMA StreamKeeps ==
  ASSUME DeliveryInv, Stream
  PROVE  DeliveryInv'
<1>1. CASE \E n \in 0..MaxWire, cut \in BOOLEAN : Chunk(n, cut)
  BY <1>1, ChunkKeeps
<1>2. CASE UpstreamFails \/ UpstreamEnds
  <2>1. /\ phase = "streaming" /\ phase' # "streaming"
        /\ filter' = FilterFinish(filter) /\ delivered' = delivered \o FilterFinish(filter).out
    BY <1>2 DEF UpstreamFails, UpstreamEnds, Yield
  <2>0. arrived' = arrived
    BY <1>2 DEF UpstreamFails, UpstreamEnds
  <2>2. /\ Conveys([filter EXCEPT !.out = <<>>], delivered, arrived) /\ IsFilter(filter)
        /\ filter.pending \in Seq(Events) /\ Len(filter.pending) <= 1
    BY <2>1 DEF DeliveryInv
  <2>3. WellFormed(delivered \o FilterFinish(filter).out)
    BY <2>2, FinishKeeps DEF IsFilter, Conveys
  <2>4. AllShown(delivered \o FilterFinish(filter).out, arrived)
    BY <2>2, FinishShows
  <2> QED BY <2>0, <2>1, <2>3, <2>4 DEF DeliveryInv
<1>3. CASE ErrorSurfaces \/ Done
  BY <1>3 DEF ErrorSurfaces, Done, DeliveryInv
<1> QED BY <1>1, <1>2, <1>3 DEF Stream

LEMMA DeliveryNext == DeliveryInv /\ [Next]_vars => DeliveryInv'
<1> SUFFICES ASSUME DeliveryInv, [Next]_vars PROVE DeliveryInv'
  OBVIOUS
<1>1. CASE UNCHANGED vars
  BY <1>1 DEF vars, serverVars, DeliveryInv, Sent, BlockIsLast, SentInOrder
<1> QED BY <1>1, ServerKeeps, UpstreamKeeps, StreamKeeps DEF Next

\* The handler leaves the stream alone until it is there.
LEMMA ProxyDeliveryNext == DeliveryInv /\ [ProxyNext]_proxyVars => DeliveryInv'
<1> SUFFICES ASSUME DeliveryInv, [ProxyNext]_proxyVars PROVE DeliveryInv'
  OBVIOUS
<1>1. CASE \/ Health \/ Handle \/ ForwardFails \/ Collect \/ BeginStream \/ BeginCollect
           \/ UNCHANGED proxyVars
  <2>1. UNCHANGED <<dialect, block, wire, arrived, upstream, filter, phase, delivered>>
    BY <1>1 DEF Health, Handle, ForwardFails, Collect, BeginStream, BeginCollect, proxyVars, vars, serverVars
  <2> QED BY <2>1 DEF DeliveryInv, Sent, BlockIsLast, SentInOrder
<1>2. CASE Unreachable \/ \E how \in {"eof", "broken"} : BodyEnds(how)
  <2>1. /\ UNCHANGED <<block, wire, arrived, filter, phase, delivered>>
        /\ upstream' # "flowing"
    BY <1>2 DEF Unreachable, BodyEnds, serverVars
  <2> QED BY <2>1 DEF DeliveryInv, Sent
<1>3. CASE Streaming
  BY <1>3, StreamKeeps DEF Streaming
<1>4. CASE Server \/ \E how \in {"eof", "broken"} : Upstream(how)
  BY <1>4, ServerKeeps, UpstreamKeeps
<1> QED BY <1>1, <1>2, <1>3, <1>4 DEF ProxyNext, Proxying

\* sse_think_stream, proxy.rs, and transform_event, nothink.rs: however an
\* answer is cut, each block the client sees is started once, before its text,
\* and nothing but a cut event follows the end.
THEOREM StreamLifecycleHolds == Spec => []LifecycleHolds
<1>1. DeliveryInv => LifecycleHolds
  BY DEF DeliveryInv, LifecycleHolds, WellFormed
<1> QED BY InitDelivery, DeliveryNext, <1>1, PTL DEF Spec

\* The same of every request of the proxy, whatever else it handled before
\* (proxy_handler and sse_think_stream, proxy.rs).
THEOREM ProxyLifecycleHolds == ProxySpec => []LifecycleHolds
<1>1. ProxyInit => DeliveryInv
  BY InitDelivery DEF ProxyInit
<1>2. DeliveryInv => LifecycleHolds
  BY DEF DeliveryInv, LifecycleHolds, WellFormed
<1> QED BY <1>1, <1>2, ProxyDeliveryNext, PTL DEF ProxySpec

LEMMA DeliveryShows == DeliveryInv => BlockShowsItsText
<1> SUFFICES ASSUME DeliveryInv, NEW i \in Blocks, Bytes(TextOf(arrived, i)) <= THINK_BAILOUT,
                    Has(delivered, BlockStop(i)) \/ Has(delivered, Terminal) \/ phase # "streaming"
             PROVE  TextOf(delivered, i) = StripThink(TextOf(arrived, i))
  BY DEF BlockShowsItsText
<1>1. CASE phase # "streaming"
  BY <1>1 DEF DeliveryInv, AllShown
<1>2. CASE phase = "streaming"
  <2> DEFINE f == [filter EXCEPT !.out = <<>>]
  <2>1. Carries(f, delivered, arrived) /\ Renders(f, delivered, arrived) /\ IsFilter(filter)
    BY <1>2 DEF DeliveryInv, Conveys
  <2>2. delivered \o f.out = delivered
    <3>1. PICK T : delivered \in Seq(T)
      BY <2>1 DEF Carries
    <3>2. delivered \o <<>> = delivered
      BY <3>1, ConcatEmptySeq
    <3> QED BY <2>1, <3>2 DEF IsFilter
  <2> HIDE DEF f
  <2>3. Filtered(f, arrived) /\ BlockShown(f, delivered, arrived, i) /\ Backed(delivered, arrived) /\ i \in Nat
    BY <2>1, <2>2, StreamAssumption DEF Carries, Renders
  <2>4. Has(arrived, BlockStop(i)) \/ Has(arrived, Terminal)
    BY <1>2, <2>3 DEF Backed
  <2>5. ASSUME Has(arrived, BlockStop(i)) PROVE ~Current(f, i)
    <3>1. Framed(arrived)
      BY <2>5, KindsDiffer DEF Has, Framed
    <3>2. ASSUME NEW j \in Nat, f.shape = Anthropic(j) PROVE j # i
      BY <2>3, <2>5, <3>2 DEF Filtered
    <3> QED BY <2>3, <3>1, <3>2, ShapesDiffer DEF Filtered, Current
  <2> QED BY <2>3, <2>4, <2>5 DEF BlockShown
<1> QED BY <1>1, <1>2

\* sse_think_stream, proxy.rs, with push and finish of the filter, nothink.rs:
\* however an answer is cut and wherever it breaks off, each block that ended
\* shows exactly what strip_think leaves of its text.
THEOREM StreamBlockShowsItsText == Spec => []BlockShowsItsText
  BY InitDelivery, DeliveryNext, DeliveryShows, PTL DEF Spec

\* The same of every request of the proxy (proxy_handler and build_response).
THEOREM ProxyBlockShowsItsText == ProxySpec => []BlockShowsItsText
<1>1. ProxyInit => DeliveryInv
  BY InitDelivery DEF ProxyInit
<1> QED BY <1>1, ProxyDeliveryNext, DeliveryShows, PTL DEF ProxySpec

-----------------------------------------------------------------------------
(* Texts put together: FlattenSeq, Only and Join.                            *)

LEMMA FlattenNone == FlattenSeq(<<>>) = <<>>
  BY DEF FlattenSeq

Flattens(f, s, N) == f = [i \in 1..N |-> IF i = 1 THEN s[i] ELSE f[i - 1] \o s[i]]

LEMMA FlattensExist ==
  ASSUME NEW s, NEW N \in Nat
  PROVE  \E f : Flattens(f, s, N)
<1> DEFINE S == {n \in Nat : \E f : Flattens(f, s, n)}
<1>1. 0 \in S
  <2>1. Flattens(<<>>, s, 0)
    BY DEF Flattens
  <2> QED BY <2>1
<1>2. ASSUME NEW n \in Nat, n \in S PROVE n + 1 \in S
  <2>1. PICK f : Flattens(f, s, n)
    BY <1>2
  <2> DEFINE g == [i \in 1..(n + 1) |-> IF i = n + 1 THEN (IF i = 1 THEN s[i] ELSE f[i - 1] \o s[i]) ELSE f[i]]
  <2>2. \A i \in 1..n : f[i] = IF i = 1 THEN s[i] ELSE f[i - 1] \o s[i]
    BY <2>1 DEF Flattens
  <2>3. \A i \in 1..(n + 1) : g[i] = IF i = 1 THEN s[i] ELSE g[i - 1] \o s[i]
    BY <2>2
  <2>4. g = [i \in 1..(n + 1) |-> g[i]]
    OBVIOUS
  <2>5. g = [i \in 1..(n + 1) |-> IF i = 1 THEN s[i] ELSE g[i - 1] \o s[i]]
    <3> HIDE DEF g
    <3> QED BY <2>3, <2>4
  <2>6. Flattens(g, s, n + 1)
    BY <2>5 DEF Flattens
  <2> QED BY <2>6
<1>3. Nat \subseteq S
  <2> HIDE DEF S
  <2> QED BY <1>1, <1>2, AllNumbers
<1> QED BY <1>3

LEMMA FlattenIs ==
  ASSUME NEW s, Len(s) \in Nat, Len(s) # 0
  PROVE  \E f : FlattenSeq(s) = f[Len(s)] /\ Flattens(f, s, Len(s))
<1> DEFINE f == CHOOSE g : Flattens(g, s, Len(s))
<1>1. FlattenSeq(s) = f[Len(s)]
  BY Zenon DEF FlattenSeq, Flattens
<1>2. Flattens(f, s, Len(s))
  BY FlattensExist
<1> QED BY <1>1, <1>2

LEMMA FlattenMore ==
  ASSUME NEW T, NEW s \in Seq(Seq(T)), NEW x \in Seq(T)
  PROVE  /\ FlattenSeq(Append(s, x)) = FlattenSeq(s) \o x
         /\ FlattenSeq(s) \in Seq(T)
<1> DEFINE r == Append(s, x)
<1>1. PICK N \in Nat : /\ Len(s) = N /\ Len(r) = N + 1 /\ r[N + 1] = x
                       /\ \A i \in 1..N : r[i] = s[i] /\ s[i] \in Seq(T)
  <2>1. Len(s) \in Nat /\ \A i \in 1..Len(s) : s[i] \in Seq(T)
    BY ElementOfSeq, LenProperties
  <2>2. Len(r) = Len(s) + 1 /\ r[Len(s) + 1] = x /\ \A i \in 1..Len(s) : r[i] = s[i]
    BY AppendProperties
  <2> HIDE DEF r
  <2> QED BY <2>1, <2>2
<1> HIDE DEF r
<1>2. CASE N = 0
  <2>1. s = <<>> /\ FlattenSeq(s) = <<>>
    BY <1>1, <1>2, FlattenNone
  <2>2. PICK g : FlattenSeq(r) = g[1] /\ Flattens(g, r, 1)
    <3>1. Len(r) = 1 /\ Len(r) \in Nat /\ Len(r) # 0
      BY <1>1, <1>2
    <3> QED BY <3>1, FlattenIs
  <2>3. g[1] = x
    BY <1>1, <1>2, <2>2 DEF Flattens
  <2>4. x = <<>> \o x /\ <<>> \in Seq(T)
    OBVIOUS
  <2> QED BY <2>1, <2>2, <2>3, <2>4 DEF r
<1>3. CASE N # 0
  <2>1. PICK f : FlattenSeq(s) = f[N] /\ Flattens(f, s, N)
    BY <1>1, <1>3, FlattenIs
  <2>2. PICK g : FlattenSeq(r) = g[N + 1] /\ Flattens(g, r, N + 1)
    <3>1. N + 1 \in Nat /\ N + 1 # 0
      OBVIOUS
    <3> QED BY <1>1, <3>1, FlattenIs
  <2>3. \A i \in 1..N : f[i] = IF i = 1 THEN s[i] ELSE f[i - 1] \o s[i]
    BY <2>1 DEF Flattens
  <2>4. \A i \in 1..(N + 1) : g[i] = IF i = 1 THEN r[i] ELSE g[i - 1] \o r[i]
    BY <2>2 DEF Flattens
  <2> DEFINE S == {n \in Nat : n \in 1..N => f[n] = g[n] /\ f[n] \in Seq(T)}
  <2>5. 0 \in S
    OBVIOUS
  <2>6. ASSUME NEW n \in Nat, n \in S PROVE n + 1 \in S
    <3>1. SUFFICES ASSUME n + 1 \in 1..N
                   PROVE  f[n + 1] = g[n + 1] /\ f[n + 1] \in Seq(T)
      OBVIOUS
    <3>2. CASE n = 0
      BY <1>1, <2>3, <2>4, <3>1, <3>2
    <3>3. CASE n # 0
      <4>1. n \in 1..N /\ n + 1 # 1 /\ (n + 1) - 1 = n /\ n + 1 \in 1..(N + 1)
        BY <3>1, <3>3
      <4>2. f[n + 1] = f[n] \o s[n + 1]
        BY <2>3, <3>1, <4>1
      <4>3. g[n + 1] = g[n] \o r[n + 1]
        BY <2>4, <3>1, <4>1
      <4>4. f[n] = g[n] /\ f[n] \in Seq(T)
        BY <2>6, <4>1
      <4>5. r[n + 1] = s[n + 1] /\ s[n + 1] \in Seq(T)
        BY <1>1, <3>1
      <4>6. \A a, b \in Seq(T) : a \o b \in Seq(T)
        OBVIOUS
      <4> QED BY <4>2, <4>3, <4>4, <4>5, <4>6
    <3> QED BY <3>2, <3>3
  <2>7. Nat \subseteq S
    <3> HIDE DEF S
    <3> QED BY <2>5, <2>6, AllNumbers
  <2>8. f[N] = g[N] /\ f[N] \in Seq(T)
    BY <1>3, <2>7
  <2>9. g[N + 1] = g[N] \o x
    <3>1. N + 1 \in 1..(N + 1) /\ N + 1 # 1 /\ (N + 1) - 1 = N
      BY <1>3
    <3>2. g[N + 1] = g[N] \o r[N + 1]
      BY <2>4, <3>1
    <3> QED BY <1>1, <3>2
  <2> QED BY <2>1, <2>2, <2>8, <2>9 DEF r
<1> QED BY <1>2, <1>3
LEMMA FlattenType == \A T : \A s \in Seq(Seq(T)) : FlattenSeq(s) \in Seq(T)
<1> SUFFICES ASSUME NEW T, NEW s \in Seq(Seq(T)) PROVE FlattenSeq(s) \in Seq(T)
  OBVIOUS
<1>1. <<>> \in Seq(T)
  OBVIOUS
<1> QED BY <1>1, FlattenMore

LEMMA FlattenJoined ==
  ASSUME NEW T, NEW s \in Seq(Seq(T)), NEW t \in Seq(Seq(T))
  PROVE  FlattenSeq(s \o t) = FlattenSeq(s) \o FlattenSeq(t)
<1> DEFINE S == {u \in Seq(Seq(T)) : FlattenSeq(s \o u) = FlattenSeq(s) \o FlattenSeq(u)}
<1>1. <<>> \in S
  <2>1. s \o <<>> = s /\ <<>> \in Seq(Seq(T))
    OBVIOUS
  <2>2. FlattenSeq(s) \o <<>> = FlattenSeq(s)
    <3>1. \A a \in Seq(T) : a \o <<>> = a
      OBVIOUS
    <3> QED BY <3>1, FlattenType
  <2> QED BY <2>1, <2>2, FlattenNone
<1>2. ASSUME NEW u \in Seq(Seq(T)), NEW x \in Seq(T), u \in S PROVE Append(u, x) \in S
  <2>1. s \o Append(u, x) = Append(s \o u, x) /\ s \o u \in Seq(Seq(T)) /\ Append(u, x) \in Seq(Seq(T))
    OBVIOUS
  <2>2. FlattenSeq(Append(s \o u, x)) = FlattenSeq(s \o u) \o x
    BY <2>1, FlattenMore
  <2>3. FlattenSeq(Append(u, x)) = FlattenSeq(u) \o x
    BY FlattenMore
  <2>4. FlattenSeq(s \o u) = FlattenSeq(s) \o FlattenSeq(u)
    BY <1>2
  <2>5. \A a, b, c \in Seq(T) : (a \o b) \o c = a \o (b \o c)
    OBVIOUS
  <2>6. FlattenSeq(s) \in Seq(T) /\ FlattenSeq(u) \in Seq(T)
    BY FlattenType
  <2>7. (FlattenSeq(s) \o FlattenSeq(u)) \o x = FlattenSeq(s) \o (FlattenSeq(u) \o x)
    BY <2>5, <2>6
  <2>8. FlattenSeq(s \o Append(u, x)) = FlattenSeq(s) \o FlattenSeq(Append(u, x))
    BY <2>1, <2>2, <2>3, <2>4, <2>7, Zenon
  <2> QED BY <2>1, <2>8
<1>3. Seq(Seq(T)) \subseteq S
  <2> HIDE DEF S
  <2> QED BY <1>1, <1>2, AllSequences
<1> QED BY <1>3

\* A sequence that is another one and one element more.
LEMMA OneMore ==
  ASSUME NEW T, NEW u \in Seq(T), NEW y \in T, NEW v, DOMAIN v = 1..(Len(u) + 1), v = [i \in DOMAIN v |-> v[i]],
         \A i \in 1..Len(u) : v[i] = u[i], v[Len(u) + 1] = y
  PROVE  v = Append(u, y)
OBVIOUS

LEMMA OnlyNone == \A S : Only(<<>>, S) = <<>>
<1>1. \A S : [i \in DOMAIN <<>> |-> IF <<>>[i] \in S THEN <<(<<>>[i])>> ELSE <<>>] = <<>>
  OBVIOUS
<1> QED BY <1>1, FlattenNone DEF Only

LEMMA OnlyTyped == \A T, S : \A s \in Seq(T) : Only(s, S) \in Seq(T)
<1> SUFFICES ASSUME NEW T, NEW S, NEW s \in Seq(T) PROVE Only(s, S) \in Seq(T)
  OBVIOUS
<1>1. [i \in DOMAIN s |-> IF s[i] \in S THEN <<s[i]>> ELSE <<>>] \in Seq(Seq(T))
  <2> DEFINE p == [i \in DOMAIN s |-> IF s[i] \in S THEN <<s[i]>> ELSE <<>>]
  <2>1. PICK N \in Nat : DOMAIN s = 1..N
    OBVIOUS
  <2>2. \A i \in 1..N : p[i] \in Seq(T)
    BY <2>1
  <2> QED BY <2>1, <2>2
<1> QED BY <1>1, FlattenType DEF Only

LEMMA AppendJoined ==
  ASSUME NEW T, NEW x \in T
  PROVE  \A a, b \in Seq(T) : Append(a \o b, x) = a \o Append(b, x)
<1> SUFFICES ASSUME NEW a \in Seq(T), NEW b \in Seq(T)
             PROVE  Append(a \o b, x) = a \o Append(b, x)
  OBVIOUS
<1>1. <<x>> \in Seq(T) /\ a \o b \in Seq(T)
  OBVIOUS
<1>2. Append(b, x) = b \o <<x>> /\ Append(a \o b, x) = (a \o b) \o <<x>>
  BY <1>1, AppendIsConcat
<1> QED BY <1>1, <1>2, ConcatAssociative

LEMMA OnlyMore ==
  ASSUME NEW T, NEW S, NEW s \in Seq(T), NEW x \in T
  PROVE  /\ Only(Append(s, x), S) = IF x \in S THEN Append(Only(s, S), x) ELSE Only(s, S)
         /\ Only(s, S) \in Seq(T)
<1> DEFINE r == Append(s, x)
           p == [i \in DOMAIN s |-> IF s[i] \in S THEN <<s[i]>> ELSE <<>>]
           q == [i \in DOMAIN r |-> IF r[i] \in S THEN <<r[i]>> ELSE <<>>]
           y == IF x \in S THEN <<x>> ELSE <<>>
<1>1. PICK N \in Nat : /\ Len(s) = N /\ DOMAIN s = 1..N /\ DOMAIN r = 1..(N + 1) /\ r[N + 1] = x
                       /\ \A i \in 1..N : r[i] = s[i] /\ s[i] \in T
  OBVIOUS
<1>2. Only(s, S) = FlattenSeq(p) /\ Only(r, S) = FlattenSeq(q)
  BY DEF Only
<1> HIDE DEF r
<1>3. p \in Seq(Seq(T)) /\ Len(p) = N
  <2>1. \A i \in 1..N : p[i] \in Seq(T)
    BY <1>1
  <2> QED BY <1>1, <2>1
<1>4. y \in Seq(T)
  OBVIOUS
<1>5. q = Append(p, y)
  <2>1. DOMAIN q = 1..(N + 1) /\ q = [i \in DOMAIN q |-> q[i]]
    BY <1>1
  <2>2. \A i \in 1..N : q[i] = p[i]
    BY <1>1
  <2>3. q[N + 1] = y
    BY <1>1
  <2> HIDE DEF p, q, y
  <2> QED BY <1>3, <1>4, <2>1, <2>2, <2>3, OneMore
<1> HIDE DEF p, q
<1>6. FlattenSeq(q) = FlattenSeq(p) \o y /\ FlattenSeq(p) \in Seq(T)
  BY <1>3, <1>4, <1>5, FlattenMore
<1>7. \A a \in Seq(T) : a \o <<>> = a /\ a \o <<x>> = Append(a, x)
  OBVIOUS
<1> QED BY <1>2, <1>6, <1>7 DEF r

\* What Only keeps: elements of both; all if all are in S; nothing only if none is.
LEMMA OnlyIs ==
  ASSUME NEW T, NEW S
  PROVE  \A s \in Seq(T) :
           /\ Only(s, S) \in Seq(T \cap S)
           /\ (\A i \in DOMAIN s : s[i] \in S) => Only(s, S) = s
           /\ (\A i \in DOMAIN s : s[i] \notin S) <=> Only(s, S) = <<>>
<1> DEFINE A == {s \in Seq(T) :
                  /\ Only(s, S) \in Seq(T \cap S)
                  /\ (\A i \in DOMAIN s : s[i] \in S) => Only(s, S) = s
                  /\ (\A i \in DOMAIN s : s[i] \notin S) <=> Only(s, S) = <<>>}
<1>1. <<>> \in A
  <2>1. <<>> \in Seq(T) /\ <<>> \in Seq(T \cap S) /\ DOMAIN <<>> = {}
    OBVIOUS
  <2> QED BY <2>1, OnlyNone
<1>2. ASSUME NEW s \in Seq(T), NEW x \in T, s \in A PROVE Append(s, x) \in A
  <2> DEFINE r == Append(s, x)
  <2>1. Only(r, S) = IF x \in S THEN Append(Only(s, S), x) ELSE Only(s, S)
    BY OnlyMore
  <2>2. PICK N \in Nat : /\ DOMAIN s = 1..N /\ DOMAIN r = 1..(N + 1) /\ r[N + 1] = x
                         /\ \A i \in 1..N : r[i] = s[i]
    OBVIOUS
  <2>3. r \in Seq(T)
    OBVIOUS
  <2>4. Only(r, S) \in Seq(T \cap S)
    BY <1>2, <2>1
  <2>5. ASSUME \A i \in DOMAIN r : r[i] \in S PROVE Only(r, S) = r
    <3>1. x \in S /\ \A i \in DOMAIN s : s[i] \in S
      <4> HIDE DEF r
      <4> QED BY <2>2, <2>5
    <3> QED BY <1>2, <2>1, <3>1
  <2>6. (\A i \in DOMAIN r : r[i] \notin S) <=> (\A i \in DOMAIN s : s[i] \notin S) /\ x \notin S
    <3> HIDE DEF r
    <3> QED BY <2>2
  <2>7. x \in S => Only(r, S) # <<>>
    <3>1. \A a \in Seq(T \cap S) : x \in S => Append(a, x) # <<>>
      OBVIOUS
    <3>2. Only(s, S) \in Seq(T \cap S)
      BY <1>2
    <3> QED BY <2>1, <3>1, <3>2
  <2>8. (\A i \in DOMAIN r : r[i] \notin S) <=> Only(r, S) = <<>>
    <3>1. (\A i \in DOMAIN s : s[i] \notin S) <=> Only(s, S) = <<>>
      BY <1>2
    <3> QED BY <2>1, <2>6, <2>7, <3>1
  <2> QED BY <2>3, <2>4, <2>5, <2>8
<1>3. Seq(T) \subseteq A
  <2> HIDE DEF A
  <2> QED BY <1>1, <1>2, AllSequences
<1> QED BY <1>3

LEMMA OnlyJoined ==
  ASSUME NEW T, NEW S, NEW s \in Seq(T), NEW t \in Seq(T)
  PROVE  Only(s \o t, S) = Only(s, S) \o Only(t, S)
<1> DEFINE A == {u \in Seq(T) : Only(s \o u, S) = Only(s, S) \o Only(u, S)}
<1>1. <<>> \in A
  <2>1. s \o <<>> = s /\ <<>> \in Seq(T)
    OBVIOUS
  <2>2. \A a \in Seq(T) : a \o <<>> = a
    OBVIOUS
  <2>3. Only(s, S) \in Seq(T)
    BY OnlyTyped
  <2> QED BY <2>1, <2>2, <2>3, OnlyNone
<1>2. ASSUME NEW u \in Seq(T), NEW x \in T, u \in A PROVE Append(u, x) \in A
  <2>1. s \o Append(u, x) = Append(s \o u, x) /\ s \o u \in Seq(T) /\ Append(u, x) \in Seq(T)
    OBVIOUS
  <2>2. /\ Only(Append(s \o u, x), S) = IF x \in S THEN Append(Only(s \o u, S), x) ELSE Only(s \o u, S)
        /\ Only(Append(u, x), S) = IF x \in S THEN Append(Only(u, S), x) ELSE Only(u, S)
    <3>1. Only(Append(s \o u, x), S) = IF x \in S THEN Append(Only(s \o u, S), x) ELSE Only(s \o u, S)
      BY <2>1, OnlyMore
    <3>2. Only(Append(u, x), S) = IF x \in S THEN Append(Only(u, S), x) ELSE Only(u, S)
      BY OnlyMore
    <3> QED BY <3>1, <3>2
  <2>3. Only(s \o u, S) = Only(s, S) \o Only(u, S)
    BY <1>2
  <2>4. Append(Only(s, S) \o Only(u, S), x) = Only(s, S) \o Append(Only(u, S), x)
    <3>1. Only(u, S) \in Seq(T) /\ Only(s, S) \in Seq(T)
      BY OnlyTyped
    <3> HIDE DEF A
    <3> QED BY <3>1, AppendJoined
  <2>5. Only(s \o Append(u, x), S) = Only(s, S) \o Only(Append(u, x), S)
    <3>1. CASE x \in S
      BY <2>1, <2>2, <2>3, <2>4, <3>1, Zenon
    <3>2. CASE x \notin S
      BY <2>1, <2>2, <2>3, <3>2, Zenon
    <3> QED BY <3>1, <3>2
  <2> QED BY <2>1, <2>5
<1>3. Seq(T) \subseteq A
  <2> HIDE DEF A
  <2> QED BY <1>1, <1>2, AllSequences
<1> QED BY <1>3

\* Filtering a flattened sequence is filtering its parts.
LEMMA OnlyFlattened ==
  ASSUME NEW T, NEW K
  PROVE  \A s \in Seq(Seq(T)) :
           Only(FlattenSeq(s), K) = FlattenSeq([i \in DOMAIN s |-> Only(s[i], K)])
<1> DEFINE M(s) == [i \in DOMAIN s |-> Only(s[i], K)]
           A == {s \in Seq(Seq(T)) : Only(FlattenSeq(s), K) = FlattenSeq(M(s))}
<1>1. <<>> \in A
  <2>1. M(<<>>) = <<>> /\ <<>> \in Seq(Seq(T))
    OBVIOUS
  <2> HIDE DEF M
  <2> QED BY <2>1, FlattenNone, OnlyNone
<1>2. ASSUME NEW s \in Seq(Seq(T)), NEW x \in Seq(T), s \in A PROVE Append(s, x) \in A
  <2> DEFINE r == Append(s, x)
  <2>1. PICK N \in Nat : /\ Len(s) = N /\ DOMAIN s = 1..N /\ DOMAIN r = 1..(N + 1) /\ r[N + 1] = x
                         /\ \A i \in 1..N : r[i] = s[i] /\ s[i] \in Seq(T)
    OBVIOUS
  <2> HIDE DEF r
  <2>2. M(s) \in Seq(Seq(T)) /\ Len(M(s)) = N
    <3>1. \A i \in 1..N : M(s)[i] \in Seq(T)
      BY <2>1, OnlyTyped
    <3> QED BY <2>1, <3>1
  <2>3. Only(x, K) \in Seq(T)
    BY OnlyTyped
  <2>4. M(r) = Append(M(s), Only(x, K))
    <3>1. DOMAIN M(r) = 1..(N + 1) /\ M(r) = [i \in DOMAIN M(r) |-> M(r)[i]]
      BY <2>1
    <3>2. \A i \in 1..N : M(r)[i] = M(s)[i]
      BY <2>1
    <3>3. M(r)[N + 1] = Only(x, K)
      BY <2>1
    <3> HIDE DEF M
    <3> QED BY <2>2, <2>3, <3>1, <3>2, <3>3, OneMore
  <2> HIDE DEF M
  <2>5. FlattenSeq(M(r)) = FlattenSeq(M(s)) \o Only(x, K)
    BY <2>2, <2>3, <2>4, FlattenMore
  <2>6. FlattenSeq(r) = FlattenSeq(s) \o x /\ FlattenSeq(s) \in Seq(T)
    BY FlattenMore DEF r
  <2>7. Only(FlattenSeq(s) \o x, K) = Only(FlattenSeq(s), K) \o Only(x, K)
    BY <2>6, OnlyJoined
  <2>8. r \in Seq(Seq(T))
    BY DEF r
  <2>9. Only(FlattenSeq(s), K) = FlattenSeq(M(s))
    BY <1>2
  <2>10. Only(FlattenSeq(r), K) = FlattenSeq(M(r))
    BY <2>5, <2>6, <2>7, <2>9, Zenon
  <2> QED BY <2>8, <2>10 DEF r
<1>3. Seq(Seq(T)) \subseteq A
  <2> HIDE DEF A
  <2> QED BY <1>1, <1>2, AllSequences
<1> QED BY <1>3

\* Sequences of sequences alike part by part, as far as K goes.
LEMMA PartsAlike ==
  ASSUME NEW T, NEW K, NEW s \in Seq(Seq(T)), NEW t \in Seq(Seq(T)), DOMAIN s = DOMAIN t,
         \A i \in DOMAIN s : Only(s[i], K) = Only(t[i], K)
  PROVE  Only(FlattenSeq(s), K) = Only(FlattenSeq(t), K)
<1>1. [i \in DOMAIN s |-> Only(s[i], K)] = [i \in DOMAIN t |-> Only(t[i], K)]
  OBVIOUS
<1>2. Only(FlattenSeq(s), K) = FlattenSeq([i \in DOMAIN s |-> Only(s[i], K)])
  BY OnlyFlattened
<1>3. Only(FlattenSeq(t), K) = FlattenSeq([i \in DOMAIN t |-> Only(t[i], K)])
  BY OnlyFlattened
<1> QED BY <1>1, <1>2, <1>3, Zenon

LEMMA JoinIs ==
  ASSUME NEW T, NEW K, NEW separator \in Seq(T), Only(separator, K) = <<>>, NEW s \in Seq(Seq(T))
  PROVE  Join(s, separator) \in Seq(T) /\ Only(Join(s, separator), K) = Only(FlattenSeq(s), K)
<1> DEFINE t == [i \in DOMAIN s |-> IF i = 1 THEN s[i] ELSE separator \o s[i]]
<1>1. PICK N \in Nat : DOMAIN s = 1..N /\ \A i \in 1..N : s[i] \in Seq(T)
  OBVIOUS
<1>2. \A i \in 1..N : separator \o s[i] \in Seq(T)
  BY <1>1, ConcatProperties
<1>3. t \in Seq(Seq(T)) /\ DOMAIN t = 1..N
  <2>1. \A i \in 1..N : t[i] \in Seq(T)
    BY <1>1, <1>2
  <2> QED BY <1>1, <2>1
<1>4. ASSUME NEW i \in 1..N PROVE Only(t[i], K) = Only(s[i], K)
  <2>1. s[i] \in Seq(T) /\ Only(s[i], K) \in Seq(T)
    BY <1>1, OnlyTyped
  <2>2. Only(separator \o s[i], K) = Only(separator, K) \o Only(s[i], K)
    BY <2>1, OnlyJoined
  <2>3. <<>> \o Only(s[i], K) = Only(s[i], K)
    BY <2>1, ConcatEmptySeq
  <2> QED BY <1>1, <2>2, <2>3
<1>5. Join(s, separator) = FlattenSeq(t)
  BY DEF Join
<1> HIDE DEF t
<1> QED BY <1>1, <1>3, <1>4, <1>5, PartsAlike, FlattenType

\* Empty parts may be left out, and parts flattened one by one.
LEMMA WithoutEmpty ==
  ASSUME NEW T
  PROVE  \A s \in Seq(Seq(T)) : FlattenSeq(Only(s, Seq(T) \ {<<>>})) = FlattenSeq(s)
<1> DEFINE K == Seq(T) \ {<<>>}
           A == {s \in Seq(Seq(T)) : FlattenSeq(Only(s, K)) = FlattenSeq(s)}
<1>1. <<>> \in A
  BY OnlyNone
<1>2. ASSUME NEW s \in Seq(Seq(T)), NEW x \in Seq(T), s \in A PROVE Append(s, x) \in A
  <2>1. Only(Append(s, x), K) = IF x \in K THEN Append(Only(s, K), x) ELSE Only(s, K)
    BY OnlyMore
  <2>2. Only(s, K) \in Seq(Seq(T))
    BY OnlyTyped
  <2>3. FlattenSeq(Append(s, x)) = FlattenSeq(s) \o x /\ FlattenSeq(s) \in Seq(T)
    BY FlattenMore
  <2>4. FlattenSeq(Append(Only(s, K), x)) = FlattenSeq(Only(s, K)) \o x
    BY <2>2, FlattenMore
  <2>5. FlattenSeq(Only(s, K)) = FlattenSeq(s) /\ Append(s, x) \in Seq(Seq(T))
    BY <1>2
  <2>6. CASE x \in K
    BY <2>1, <2>3, <2>4, <2>5, <2>6
  <2>7. CASE x \notin K
    <3>1. x = <<>> /\ FlattenSeq(s) \o <<>> = FlattenSeq(s)
      BY <2>3, <2>7, ConcatEmptySeq
    <3> QED BY <2>1, <2>3, <2>5, <2>7, <3>1
  <2> QED BY <2>6, <2>7
<1>3. Seq(Seq(T)) \subseteq A
  <2> HIDE DEF A
  <2> QED BY <1>1, <1>2, AllSequences
<1> QED BY <1>3

LEMMA FlattenedTwice ==
  ASSUME NEW T
  PROVE  \A s \in Seq(Seq(Seq(T))) :
           FlattenSeq([i \in DOMAIN s |-> FlattenSeq(s[i])]) = FlattenSeq(FlattenSeq(s))
<1> DEFINE M(s) == [i \in DOMAIN s |-> FlattenSeq(s[i])]
           A == {s \in Seq(Seq(Seq(T))) : FlattenSeq(M(s)) = FlattenSeq(FlattenSeq(s))}
<1>1. <<>> \in A
  <2>1. M(<<>>) = <<>> /\ <<>> \in Seq(Seq(Seq(T)))
    OBVIOUS
  <2> HIDE DEF M
  <2> QED BY <2>1, FlattenNone
<1>2. ASSUME NEW s \in Seq(Seq(Seq(T))), NEW x \in Seq(Seq(T)), s \in A PROVE Append(s, x) \in A
  <2> DEFINE r == Append(s, x)
  <2>1. PICK N \in Nat : /\ Len(s) = N /\ DOMAIN s = 1..N /\ DOMAIN r = 1..(N + 1) /\ r[N + 1] = x
                         /\ \A i \in 1..N : r[i] = s[i] /\ s[i] \in Seq(Seq(T))
    OBVIOUS
  <2> HIDE DEF r
  <2>2. M(s) \in Seq(Seq(T)) /\ Len(M(s)) = N
    <3>1. \A i \in 1..N : M(s)[i] \in Seq(T)
      BY <2>1, FlattenType
    <3> QED BY <2>1, <3>1
  <2>3. FlattenSeq(x) \in Seq(T)
    BY FlattenType
  <2>4. M(r) = Append(M(s), FlattenSeq(x))
    <3>1. DOMAIN M(r) = 1..(N + 1) /\ M(r) = [i \in DOMAIN M(r) |-> M(r)[i]]
      BY <2>1
    <3>2. \A i \in 1..N : M(r)[i] = M(s)[i]
      BY <2>1
    <3>3. M(r)[N + 1] = FlattenSeq(x)
      BY <2>1
    <3> HIDE DEF M
    <3> QED BY <2>2, <2>3, <3>1, <3>2, <3>3, OneMore
  <2> HIDE DEF M
  <2>5. FlattenSeq(M(r)) = FlattenSeq(M(s)) \o FlattenSeq(x)
    BY <2>2, <2>3, <2>4, FlattenMore
  <2>6. FlattenSeq(r) = FlattenSeq(s) \o x /\ FlattenSeq(s) \in Seq(Seq(T))
    BY FlattenMore DEF r
  <2>7. FlattenSeq(FlattenSeq(s) \o x) = FlattenSeq(FlattenSeq(s)) \o FlattenSeq(x)
    BY <2>6, FlattenJoined
  <2>8. r \in Seq(Seq(Seq(T)))
    BY DEF r
  <2>9. FlattenSeq(M(s)) = FlattenSeq(FlattenSeq(s))
    BY <1>2
  <2>10. FlattenSeq(M(r)) = FlattenSeq(FlattenSeq(r))
    BY <2>5, <2>6, <2>7, <2>9, Zenon
  <2> QED BY <2>8, <2>10 DEF r
<1>3. Seq(Seq(Seq(T))) \subseteq A
  <2> HIDE DEF A
  <2> QED BY <1>1, <1>2, AllSequences
<1> QED BY <1>3
Inked == Chars \ {NEWLINE}

LEMMA SeparatorsHaveNoInk ==
  ASSUME NEWLINE \in Chars
  PROVE  /\ <<NEWLINE>> \in Seq(Chars) /\ Only(<<NEWLINE>>, Inked) = <<>>
         /\ <<NEWLINE, NEWLINE>> \in Seq(Chars) /\ Only(<<NEWLINE, NEWLINE>>, Inked) = <<>>
<1> DEFINE a == <<NEWLINE>>
           b == <<NEWLINE, NEWLINE>>
<1>1. a \in Seq(Chars) /\ b \in Seq(Chars)
  OBVIOUS
<1>2. (\A i \in DOMAIN a : a[i] \notin Inked) /\ (\A i \in DOMAIN b : b[i] \notin Inked)
  BY DEF Inked
<1> HIDE DEF a, b
<1>3. Only(a, Inked) = <<>> /\ Only(b, Inked) = <<>>
  BY <1>1, <1>2, OnlyIs
<1> QED BY <1>1, <1>3 DEF a, b

\* The messages of a chat.
Listed(messages) ==
  /\ messages \in Seq(ToSet(messages))
  /\ \A m \in ToSet(messages) : m.content \in Seq(Seq(Chars))

\* A part of a list is one.
LEMMA ListedPart ==
  ASSUME NEW messages, Listed(messages), NEW S
  PROVE  Listed(Only(messages, S)) /\ ToSet(Only(messages, S)) \subseteq ToSet(messages) \cap S
<1> DEFINE part == Only(messages, S)
<1>1. part \in Seq(ToSet(messages) \cap S)
  BY OnlyIs DEF Listed
<1> HIDE DEF part
<1>2. ToSet(part) \subseteq ToSet(messages) \cap S /\ part \in Seq(ToSet(part))
  BY <1>1 DEF ToSet
<1> QED BY <1>2 DEF Listed, part

\* What is in both is kept.
LEMMA OnlyKeeps ==
  ASSUME NEW T, NEW S
  PROVE  \A s \in Seq(T) : \A i \in DOMAIN s :
           s[i] \in S => \E k \in DOMAIN Only(s, S) : Only(s, S)[k] = s[i]
<1> DEFINE A == {s \in Seq(T) : \A i \in DOMAIN s :
                  s[i] \in S => \E k \in DOMAIN Only(s, S) : Only(s, S)[k] = s[i]}
<1>1. <<>> \in A
  OBVIOUS
<1>2. ASSUME NEW s \in Seq(T), NEW x \in T, s \in A PROVE Append(s, x) \in A
  <2> DEFINE r == Append(s, x)
             o == Only(s, S)
  <2>1. PICK N \in Nat : /\ DOMAIN s = 1..N /\ DOMAIN r = 1..(N + 1) /\ r[N + 1] = x
                         /\ \A i \in 1..N : r[i] = s[i]
    OBVIOUS
  <2>2. Only(r, S) = IF x \in S THEN Append(o, x) ELSE o
    BY OnlyMore
  <2>3. o \in Seq(T) /\ r \in Seq(T)
    BY OnlyTyped
  <2>4. \A i \in DOMAIN s : s[i] \in S => \E k \in DOMAIN o : o[k] = s[i]
    BY <1>2
  <2> HIDE DEF r, o
  <2>5. PICK M \in Nat : /\ DOMAIN o = 1..M /\ DOMAIN Append(o, x) = 1..(M + 1) /\ Append(o, x)[M + 1] = x
                         /\ \A k \in 1..M : Append(o, x)[k] = o[k]
    BY <2>3
  <2>6. ASSUME NEW i \in DOMAIN r, r[i] \in S
        PROVE  \E k \in DOMAIN Only(r, S) : Only(r, S)[k] = r[i]
    <3>1. CASE i = N + 1
      BY <2>1, <2>2, <2>5, <2>6, <3>1
    <3>2. CASE i # N + 1
      <4>1. i \in DOMAIN s /\ r[i] = s[i]
        BY <2>1, <3>2
      <4>2. PICK k \in DOMAIN o : o[k] = s[i]
        BY <2>4, <2>6, <4>1
      <4>3. k \in DOMAIN Only(r, S) /\ Only(r, S)[k] = o[k]
        BY <2>2, <2>5
      <4> QED BY <4>1, <4>2, <4>3
    <3> QED BY <3>1, <3>2
  <2> QED BY <2>3, <2>6 DEF r
<1>3. Seq(T) \subseteq A
  <2> HIDE DEF A
  <2> QED BY <1>1, <1>2, AllSequences
<1> QED BY <1>3

LEMMA SequenceOf ==
  ASSUME NEW T, NEW N \in Nat, NEW t, t = [i \in 1..N |-> t[i]], \A i \in 1..N : t[i] \in T
  PROVE  t \in Seq(T)
OBVIOUS

\* What merge_system_messages folds has the ink of what it takes out.
LEMMA FoldedInk ==
  ASSUME NEWLINE \in Chars, NEW systems, Listed(systems)
  PROVE  /\ BlockTexts(systems) \in Seq(Seq(Chars))
         /\ Contents(systems) \in Seq(Seq(Chars))
         /\ Only(FlattenSeq(BlockTexts(systems)), Inked) = Only(FlattenSeq(Contents(systems)), Inked)
<1> DEFINE c == [i \in DOMAIN systems |-> systems[i].content]
           t == [i \in DOMAIN systems |-> BlockText(systems[i].content)]
           f == [i \in DOMAIN systems |-> FlattenSeq(c[i])]
<1>1. PICK N \in Nat : DOMAIN systems = 1..N /\ \A i \in 1..N : c[i] \in Seq(Seq(Chars))
  BY DEF Listed, ToSet
<1>2. c \in Seq(Seq(Seq(Chars)))
  BY <1>1
<1>3. ASSUME NEW i \in 1..N
      PROVE  /\ t[i] \in Seq(Chars) /\ f[i] \in Seq(Chars)
             /\ Only(t[i], Inked) = Only(f[i], Inked)
  <2>1. t[i] = Join(c[i], <<NEWLINE>>) /\ f[i] = FlattenSeq(c[i]) /\ c[i] \in Seq(Seq(Chars))
    BY <1>1 DEF BlockText
  <2>2. <<NEWLINE>> \in Seq(Chars) /\ Only(<<NEWLINE>>, Inked) = <<>>
    BY SeparatorsHaveNoInk
  <2> HIDE DEF c, t, f
  <2>3. PICK parts \in Seq(Seq(Chars)) : parts = c[i]
    BY <2>1
  <2>4. Join(parts, <<NEWLINE>>) \in Seq(Chars) /\ Only(Join(parts, <<NEWLINE>>), Inked) = Only(FlattenSeq(parts), Inked)
    BY <2>2, JoinIs
  <2>5. FlattenSeq(parts) \in Seq(Chars)
    BY FlattenType
  <2>6. t[i] = Join(parts, <<NEWLINE>>) /\ f[i] = FlattenSeq(parts)
    BY <2>1, <2>3
  <2> QED BY <2>4, <2>5, <2>6, Zenon
<1>4. DOMAIN t = 1..N /\ DOMAIN f = 1..N /\ t = [i \in 1..N |-> t[i]] /\ f = [i \in 1..N |-> f[i]]
  BY <1>1
<1>5. BlockTexts(systems) = t /\ Contents(systems) = FlattenSeq(c)
  BY DEF BlockTexts, Contents
<1>6. FlattenSeq(f) = FlattenSeq(FlattenSeq(c))
  <2>1. f = [i \in DOMAIN c |-> FlattenSeq(c[i])]
    OBVIOUS
  <2> QED BY <1>2, <2>1, FlattenedTwice
<1> HIDE DEF c, t, f
<1>7. t \in Seq(Seq(Chars)) /\ f \in Seq(Seq(Chars))
  <2>1. (\A i \in 1..N : t[i] \in Seq(Chars)) /\ (\A i \in 1..N : f[i] \in Seq(Chars))
    BY <1>3
  <2> QED BY <1>4, <2>1, SequenceOf
<1>8. Only(FlattenSeq(t), Inked) = Only(FlattenSeq(f), Inked)
  <2>1. DOMAIN t = DOMAIN f /\ \A i \in DOMAIN t : Only(t[i], Inked) = Only(f[i], Inked)
    BY <1>3, <1>4
  <2> QED BY <1>7, <2>1, PartsAlike
<1>9. FlattenSeq(c) \in Seq(Seq(Chars))
  BY <1>2, FlattenType
<1> QED BY <1>5, <1>6, <1>7, <1>8, <1>9
\* A request as RequestsAssumption has it.
ChatBody(body) ==
  /\ body = [thinking |-> body.thinking, system |-> body.system,
             messages |-> body.messages, rest |-> body.rest]
  /\ body.system \in Seq(Seq(Chars))
  /\ Listed(body.messages)

LEMMA TurnsAndSystems ==
  ASSUME NEW messages, Listed(messages)
  PROVE  /\ Listed(Turns(messages)) /\ Listed(Systems(messages))
         /\ Turns(Turns(messages)) = Turns(messages)
         /\ Systems(Turns(messages)) = <<>>
         /\ \A i \in DOMAIN messages : IsSystem(messages[i]) =>
              \E k \in DOMAIN Systems(messages) : Systems(messages)[k] = messages[i]
<1> DEFINE S == {m \in ToSet(messages) : IsSystem(m)}
           U == {m \in ToSet(messages) : ~IsSystem(m)}
           turns == Turns(messages)
<1>1. turns = Only(messages, U) /\ Systems(messages) = Only(messages, S)
  BY DEF Turns, Systems
<1>2. Listed(turns) /\ ToSet(turns) \subseteq U
  BY <1>1, ListedPart
<1>3. Listed(Systems(messages))
  BY <1>1, ListedPart
<1>4. Turns(turns) = turns /\ Systems(turns) = <<>>
  <2> HIDE DEF turns
  <2>1. \A m \in ToSet(turns) : ~IsSystem(m)
    BY <1>2
  <2>2. {m \in ToSet(turns) : IsSystem(m)} = {} /\ {m \in ToSet(turns) : ~IsSystem(m)} = ToSet(turns)
    BY <2>1
  <2>3. Turns(turns) = Only(turns, ToSet(turns)) /\ Systems(turns) = Only(turns, {})
    BY <2>2 DEF Turns, Systems
  <2>4. turns \in Seq(ToSet(turns)) /\ \A i \in DOMAIN turns : turns[i] \in ToSet(turns)
    BY <1>2 DEF Listed, ToSet
  <2>5. \A i \in DOMAIN turns : turns[i] \notin {}
    OBVIOUS
  <2>6. Only(turns, ToSet(turns)) = turns
    BY <2>4, OnlyIs
  <2>7. Only(turns, {}) = <<>>
    BY <2>4, <2>5, OnlyIs
  <2> QED BY <2>3, <2>6, <2>7
<1>5. ASSUME NEW i \in DOMAIN messages, IsSystem(messages[i])
      PROVE  \E k \in DOMAIN Systems(messages) : Systems(messages)[k] = messages[i]
  <2>1. messages[i] \in S
    BY <1>5 DEF ToSet
  <2>2. messages \in Seq(ToSet(messages))
    BY DEF Listed
  <2> HIDE DEF S
  <2>3. \E k \in DOMAIN Only(messages, S) : Only(messages, S)[k] = messages[i]
    BY <2>1, <2>2, OnlyKeeps
  <2> QED BY <1>1, <2>3
<1> HIDE DEF turns
<1> QED BY <1>2, <1>3, <1>4, <1>5 DEF turns

-----------------------------------------------------------------------------
(* What a request asks for is what is forwarded.                             *)

Body(thinking, system, messages, rest) ==
  [thinking |-> thinking, system |-> system, messages |-> messages, rest |-> rest]

Off == FALSE
Merged(body) == <<Join(Parts(body), <<NEWLINE, NEWLINE>>)>>

LEMMA RootIs ==
  ASSUME NEW t, NEW s, NEW m, NEW r, NEW b, b = Body(t, s, m, r)
  PROVE  StripThinkingKeysRoot(b) = Body(Off, s, m, r)
<1>1. [b EXCEPT !.thinking = Off] = Body(Off, s, m, r)
  BY DEF Body
<1> QED BY <1>1, Zenon DEF StripThinkingKeysRoot, Off

LEMMA MergedIs ==
  ASSUME NEW t, NEW s, NEW m, NEW r, NEW b, b = Body(t, s, m, r)
  PROVE  MergeSystemMessages(b) = IF Folded(m) = <<>> THEN b ELSE Body(t, Merged(b), Turns(m), r)
<1> DEFINE x == Merged(b)
           y == Turns(m)
           c == [b EXCEPT !.system = x]
<1>1. b.messages = m
  BY DEF Body
<1>2. MergeSystemMessages(b) = IF Folded(m) = <<>> THEN b ELSE [b EXCEPT !.system = x, !.messages = Turns(@)]
  BY <1>1 DEF MergeSystemMessages, Merged
<1> HIDE DEF x
<1>3. c = Body(t, x, m, r)
  BY DEF Body
<1>4. c.messages = m /\ [b EXCEPT !.system = x, !.messages = Turns(@)] = [c EXCEPT !.messages = Turns(@)]
  BY <1>3 DEF Body
<1> HIDE DEF c
<1>5. [c EXCEPT !.messages = Turns(@)] = Body(t, x, y, r)
  BY <1>3, <1>4 DEF Body
<1> QED BY <1>2, <1>4, <1>5 DEF x

LEMMA TransformedIs ==
  ASSUME NEW body, ChatBody(body), NEW merge_system
  PROVE  TransformRequest(body, merge_system) =
           IF ~merge_system \/ Folded(body.messages) = <<>>
             THEN Body(Off, body.system, body.messages, body.rest)
             ELSE Body(Off, Merged(body), Turns(body.messages), body.rest)
<1>1. PICK t, s, m, r : /\ body = Body(t, s, m, r)
                        /\ s = body.system /\ m = body.messages /\ r = body.rest
  BY DEF ChatBody, Body
<1> DEFINE bare == Body(Off, s, m, r)
<1>2. bare.messages = m /\ bare.system = s
  BY DEF Body
<1>3. StripThinkingKeysRoot(body) = bare
  BY <1>1, RootIs
<1>4. Merged(bare) = Merged(body)
  BY <1>1, <1>2 DEF Parts, Merged
<1> HIDE DEF bare
<1>5. bare = Body(Off, s, m, r)
  BY DEF bare
<1>6. MergeSystemMessages(bare) = IF Folded(m) = <<>> THEN bare ELSE Body(Off, Merged(bare), Turns(m), r)
  BY <1>5, MergedIs
<1>7. CASE merge_system
  BY <1>1, <1>3, <1>4, <1>5, <1>6, <1>7 DEF TransformRequest
<1>8. CASE ~merge_system
  BY <1>1, <1>3, <1>5, <1>8 DEF TransformRequest
<1> QED BY <1>7, <1>8

\* The text that takes the place of the system messages has their ink, after
\* that of the system field.
LEMMA MergedInk ==
  ASSUME NEWLINE \in Chars, NEW body, ChatBody(body)
  PROVE  LET merged == Join(Parts(body), <<NEWLINE, NEWLINE>>)
         IN  merged \in Seq(Chars) /\ Only(merged, Inked) = SystemInk(body)
<1> DEFINE systems == Systems(body.messages)
           existing == BlockText(body.system)
           texts == BlockTexts(systems)
           opt == IF existing = <<>> THEN <<>> ELSE <<existing>>
           folded == Only(texts, Seq(Chars) \ {<<>>})
           sep == <<NEWLINE, NEWLINE>>
           old == FlattenSeq(body.system)
           new == FlattenSeq(Contents(systems))
<1>1. Listed(systems) /\ body.system \in Seq(Seq(Chars))
  BY TurnsAndSystems DEF ChatBody
<1>2. Parts(body) = opt \o folded
  BY DEF Parts, Folded
<1>3. /\ texts \in Seq(Seq(Chars)) /\ Contents(systems) \in Seq(Seq(Chars))
      /\ Only(FlattenSeq(texts), Inked) = Only(new, Inked)
  BY <1>1, FoldedInk
<1>4. folded \in Seq(Seq(Chars)) /\ FlattenSeq(folded) = FlattenSeq(texts)
  BY <1>3, OnlyTyped, WithoutEmpty
<1>5. existing \in Seq(Chars) /\ Only(existing, Inked) = Only(old, Inked)
  <2>1. <<NEWLINE>> \in Seq(Chars) /\ Only(<<NEWLINE>>, Inked) = <<>>
    BY SeparatorsHaveNoInk
  <2>2. existing = Join(body.system, <<NEWLINE>>)
    BY DEF BlockText
  <2> QED BY <1>1, <2>1, <2>2, JoinIs
<1>6. old \in Seq(Chars) /\ new \in Seq(Chars)
  BY <1>1, <1>3, FlattenType
<1>7. SystemInk(body) = Only(old, Inked) \o Only(new, Inked)
  <2>1. FlattenSeq(body.system \o Contents(systems)) = old \o new
    BY <1>1, <1>3, FlattenJoined
  <2>2. SystemInk(body) = Only(FlattenSeq(body.system \o Contents(systems)), Inked)
    BY DEF SystemInk, Ink, Inked
  <2> HIDE DEF old, new
  <2>3. Only(old \o new, Inked) = Only(old, Inked) \o Only(new, Inked)
    BY <1>6, OnlyJoined
  <2> QED BY <2>1, <2>2, <2>3, Zenon
<1> HIDE DEF systems, existing, texts, folded, old, new
<1>8. opt \in Seq(Seq(Chars)) /\ FlattenSeq(opt) = existing
  <2>1. CASE existing = <<>>
    BY <2>1, FlattenNone, EmptySeq
  <2>2. CASE existing # <<>>
    <3>1. opt = Append(<<>>, existing) /\ <<>> \in Seq(Seq(Chars)) /\ opt \in Seq(Seq(Chars))
      BY <1>5, <2>2
    <3>2. FlattenSeq(opt) = <<>> \o existing
      BY <1>5, <3>1, FlattenMore, FlattenNone
    <3> QED BY <1>5, <3>1, <3>2, ConcatEmptySeq
  <2> QED BY <2>1, <2>2
<1> HIDE DEF opt
<1>9. Parts(body) \in Seq(Seq(Chars)) /\ FlattenSeq(Parts(body)) = existing \o FlattenSeq(texts)
  BY <1>2, <1>4, <1>8, FlattenJoined, ConcatProperties
<1>10. FlattenSeq(texts) \in Seq(Chars)
  BY <1>3, FlattenType
<1>11. Only(existing \o FlattenSeq(texts), Inked) = Only(existing, Inked) \o Only(FlattenSeq(texts), Inked)
  BY <1>5, <1>10, OnlyJoined
<1>12. sep \in Seq(Chars) /\ Only(sep, Inked) = <<>>
  BY SeparatorsHaveNoInk
<1> HIDE DEF sep
<1>13. Join(Parts(body), sep) \in Seq(Chars) /\ Only(Join(Parts(body), sep), Inked) = Only(FlattenSeq(Parts(body)), Inked)
  BY <1>9, <1>12, JoinIs
<1>14. Only(Join(Parts(body), sep), Inked) = SystemInk(body)
  BY <1>3, <1>5, <1>7, <1>9, <1>11, <1>13, Zenon
<1> QED BY <1>13, <1>14 DEF sep

\* transform_request: what a request means is kept.
LEMMA TransformKeepsMeaning ==
  ASSUME NEWLINE \in Chars, NEW body, ChatBody(body), NEW merge_system
  PROVE  LET sent == TransformRequest(body, merge_system)
         IN  /\ ~sent.thinking /\ sent.rest = body.rest
             /\ Turns(sent.messages) = Turns(body.messages)
             /\ SystemInk(sent) = SystemInk(body)
             /\ merge_system =>
                  \A i \in DOMAIN sent.messages :
                    IsSystem(sent.messages[i]) => BlockText(sent.messages[i].content) = <<>>
             /\ TransformRequest(sent, merge_system) = sent
<1> DEFINE merged == Join(Parts(body), <<NEWLINE, NEWLINE>>)
           bare == Body(Off, body.system, body.messages, body.rest)
           folded == Body(Off, Merged(body), Turns(body.messages), body.rest)
           sent == TransformRequest(body, merge_system)
<1>1. sent = IF ~merge_system \/ Folded(body.messages) = <<>> THEN bare ELSE folded
  BY TransformedIs
<1>2. /\ Listed(body.messages) /\ body.system \in Seq(Seq(Chars))
      /\ Listed(Turns(body.messages)) /\ Listed(Systems(body.messages))
      /\ Turns(Turns(body.messages)) = Turns(body.messages) /\ Systems(Turns(body.messages)) = <<>>
  BY TurnsAndSystems DEF ChatBody
<1>3. merged \in Seq(Chars) /\ Only(merged, Inked) = SystemInk(body)
  BY MergedInk
<1> HIDE DEF merged
<1>4. /\ ~bare.thinking /\ bare.rest = body.rest /\ bare.messages = body.messages /\ bare.system = body.system
      /\ ~folded.thinking /\ folded.rest = body.rest /\ folded.messages = Turns(body.messages)
      /\ folded.system = <<merged>> /\ folded.system = Merged(body)
  BY DEF Body, Merged, Off, merged
<1>5. ChatBody(bare) /\ ChatBody(folded)
  <2>1. <<merged>> \in Seq(Seq(Chars))
    BY <1>3
  <2>2. bare = Body(bare.thinking, bare.system, bare.messages, bare.rest)
        /\ folded = Body(folded.thinking, folded.system, folded.messages, folded.rest)
    BY DEF Body
  <2> HIDE DEF bare, folded
  <2> QED BY <1>2, <1>4, <2>1, <2>2 DEF ChatBody, Body
<1>6. Folded(Turns(body.messages)) = <<>>
  <2>1. BlockTexts(<<>>) = <<>>
    BY DEF BlockTexts
  <2> QED BY <1>2, <2>1, OnlyNone DEF Folded
<1>7. CASE ~merge_system \/ Folded(body.messages) = <<>>
  <2>1. sent = bare
    BY <1>1, <1>7
  <2>2. SystemInk(bare) = SystemInk(body)
    BY <1>4 DEF SystemInk
  <2>3. TransformRequest(bare, merge_system) = bare
    <3>1. Body(Off, bare.system, bare.messages, bare.rest) = bare /\ Folded(bare.messages) = Folded(body.messages)
      BY <1>4
    <3> HIDE DEF bare
    <3> QED BY <1>5, <1>7, <3>1, TransformedIs
  <2>4. ASSUME merge_system, NEW i \in DOMAIN body.messages, IsSystem(body.messages[i])
        PROVE  BlockText(body.messages[i].content) = <<>>
    <3> DEFINE systems == Systems(body.messages)
               texts == BlockTexts(systems)
    <3>1. PICK k \in DOMAIN systems : systems[k] = body.messages[i]
      BY <1>2, <2>4, TurnsAndSystems
    <3>2. k \in DOMAIN texts /\ texts[k] = BlockText(body.messages[i].content)
      BY <3>1 DEF BlockTexts
    <3>3. texts \in Seq(Seq(Chars)) /\ Only(texts, Seq(Chars) \ {<<>>}) = <<>>
      BY <1>2, <1>7, <2>4, FoldedInk DEF Folded
    <3> HIDE DEF texts, systems, bare, folded, sent
    <3>4. \A n \in DOMAIN texts : texts[n] \notin Seq(Chars) \ {<<>>}
      BY <3>3, OnlyIs
    <3>5. texts[k] \in Seq(Chars)
      BY <3>2, <3>3
    <3> QED BY <3>2, <3>4, <3>5
  <2> HIDE DEF bare, sent
  <2> QED BY <1>4, <2>1, <2>2, <2>3, <2>4 DEF sent
<1>8. CASE merge_system /\ Folded(body.messages) # <<>>
  <2>1. sent = folded
    BY <1>1, <1>8
  <2>2. SystemInk(folded) = SystemInk(body)
    <3>1. Contents(<<>>) = <<>>
      <4>1. [i \in DOMAIN <<>> |-> <<>>[i].content] = <<>>
        OBVIOUS
      <4> QED BY <4>1, FlattenNone DEF Contents
    <3>2. <<merged>> \o <<>> = <<merged>> /\ <<merged>> = Append(<<>>, merged) /\ <<>> \in Seq(Seq(Chars))
      BY <1>3
    <3>3. FlattenSeq(<<merged>>) = <<>> \o merged
      BY <1>3, <3>2, FlattenMore, FlattenNone
    <3>4. <<>> \o merged = merged
      BY <1>3, ConcatEmptySeq
    <3>5. SystemInk(folded) = Only(FlattenSeq(<<merged>> \o Contents(<<>>)), Inked)
      <4> HIDE DEF folded
      <4> QED BY <1>2, <1>4 DEF SystemInk, Ink, Inked
    <3> QED BY <1>3, <3>1, <3>2, <3>3, <3>4, <3>5, Zenon
  <2>3. TransformRequest(folded, merge_system) = folded
    <3>1. Body(Off, folded.system, folded.messages, folded.rest) = folded /\ Folded(folded.messages) = <<>>
      BY <1>4, <1>6
    <3> HIDE DEF folded
    <3> QED BY <1>5, <3>1, TransformedIs
  <2>4. \A i \in DOMAIN Turns(body.messages) : ~IsSystem(Turns(body.messages)[i])
    <3>1. ToSet(Turns(body.messages)) \subseteq {m \in ToSet(body.messages) : ~IsSystem(m)}
      BY <1>2, ListedPart DEF Turns
    <3> QED BY <3>1 DEF ToSet
  <2> HIDE DEF folded, sent
  <2> QED BY <1>2, <1>4, <2>1, <2>2, <2>3, <2>4 DEF sent
<1> QED BY <1>7, <1>8

ForwardInv ==
  stage # "streaming" =>
    /\ CallIs /\ call.request \in Requests
    /\ RequestKeepsItsMeaning

LEMMA InitForward == ProxyInit => ForwardInv
BY DEF ProxyInit, ForwardInv, CallIs, RequestKeepsItsMeaning

\* Steps that leave the call alone.
LEMMA ForwardStays ==
  ASSUME ForwardInv, UNCHANGED call, stage' # "streaming" => stage # "streaming"
  PROVE  ForwardInv'
<1> SUFFICES ASSUME stage' # "streaming" PROVE (CallIs /\ call.request \in Requests /\ RequestKeepsItsMeaning)'
  BY DEF ForwardInv
<1>1. CallIs /\ call.request \in Requests /\ RequestKeepsItsMeaning /\ stage # "streaming"
  BY DEF ForwardInv
<1>2. CallIs' /\ call'.request \in Requests
  BY <1>1 DEF CallIs
<1>3. RequestKeepsItsMeaning'
  BY <1>1 DEF RequestKeepsItsMeaning, Authorized, IsChat
<1> QED BY <1>2, <1>3

LEMMA AskedIs ==
  ASSUME NEW request \in Requests
  PROVE  /\ request.shape \in {"chat", "odd"} =>
              \E t, s, m, r : request.body = Body(t, s, m, r) /\ r = request.body.rest
         /\ request.shape = "chat" => ChatBody(request.body)
<1>1. ASSUME request.shape \in {"chat", "odd"}
      PROVE  request.body = Body(request.body.thinking, request.body.system,
                                 request.body.messages, request.body.rest)
  BY <1>1, RequestsAssumption DEF Body
<1>2. ASSUME request.shape = "chat"
      PROVE  ChatBody(request.body)
  <2>1. /\ request.body.system \in Seq(Seq(Chars))
        /\ request.body.messages \in Seq(ToSet(request.body.messages))
        /\ \A m \in ToSet(request.body.messages) : m.content \in Seq(Seq(Chars))
    BY <1>2, RequestsAssumption
  <2>2. request.shape \in {"chat", "odd"}
    BY <1>2
  <2> QED BY <1>1, <2>1, <2>2 DEF ChatBody, Listed, Body
<1> QED BY <1>1, <1>2

LEMMA HandleForwards ==
  ASSUME ForwardInv, Handle
  PROVE  ForwardInv'
<1>1. stage = "received" /\ call.request.path # "/health" /\ CallIs /\ call.request \in Requests
  BY DEF Handle, ForwardInv
<1>2. CASE ~Authorized \/ call.request.large
  <2>1. UNCHANGED call
    BY <1>2 DEF Handle
  <2> QED BY <1>1, <2>1, ForwardStays
<1>3. CASE Authorized /\ ~call.request.large
  <2> DEFINE asked == call.request.body
             sent == OutBody
             message == [headers |-> CopyHeaders(call.request.headers), body |-> sent]
  <2>1. stage' = "forwarding" /\ call' = [call EXCEPT !.forwarded = <<message>>]
    BY <1>3 DEF Handle
  <2>2. call'.config = call.config /\ call'.request = call.request /\ call'.forwarded = <<message>> /\ CallIs'
    <3> HIDE DEF message
    <3>1. \A c, q, f, g : [[config |-> c, request |-> q, forwarded |-> f] EXCEPT !.forwarded = g] =
                         [config |-> c, request |-> q, forwarded |-> g]
      OBVIOUS
    <3> QED BY <1>1, <2>1 DEF CallIs
  <2>3. ~IsChat => sent = asked
    BY DEF OutBody, IsChat
  <2>4. ASSUME IsChat PROVE ~sent.thinking /\ sent.rest = asked.rest
    <3>1. CASE call.request.shape = "chat"
      <4>1. ChatBody(asked) /\ sent = TransformRequest(asked, call.config.merge_system)
        BY <1>1, <3>1, AskedIs DEF OutBody
      <4> HIDE DEF asked, sent
      <4> QED BY <4>1, TransformKeepsMeaning, RequestsAssumption
    <3>2. CASE call.request.shape = "odd"
      <4>1. PICK t, s, m, r : asked = Body(t, s, m, r) /\ r = asked.rest
        BY <1>1, <3>2, AskedIs
      <4>2. sent = StripThinkingKeysRoot(asked)
        BY <3>2 DEF OutBody
      <4> HIDE DEF asked, sent
      <4>3. sent = Body(Off, s, m, r)
        <5>1. PICK b : b = asked
          OBVIOUS
        <5>2. StripThinkingKeysRoot(b) = Body(Off, s, m, r)
          <6>1. b = Body(t, s, m, r)
            BY <4>1, <5>1
          <6> QED BY <6>1, RootIs
        <5> QED BY <4>2, <5>1, <5>2
      <4>4. sent.thinking = Off /\ sent.rest = r
        BY <4>3 DEF Body
      <4> QED BY <4>1, <4>4 DEF Off
    <3> QED BY <2>4, <3>1, <3>2 DEF IsChat
  <2>5. ASSUME call.request.shape = "chat"
        PROVE  /\ Turns(sent.messages) = Turns(asked.messages)
               /\ SystemInk(sent) = SystemInk(asked)
               /\ call.config.merge_system =>
                    \A i \in DOMAIN sent.messages :
                      IsSystem(sent.messages[i]) => BlockText(sent.messages[i].content) = <<>>
               /\ TransformRequest(sent, call.config.merge_system) = sent
    <3>1. ChatBody(asked) /\ sent = TransformRequest(asked, call.config.merge_system)
      BY <1>1, <2>5, AskedIs DEF OutBody
    <3> HIDE DEF asked, sent
    <3> QED BY <3>1, TransformKeepsMeaning, RequestsAssumption
  <2>6. (IsChat' <=> IsChat) /\ (Authorized' <=> Authorized)
    BY <2>2 DEF IsChat, Authorized
  <2>7. /\ call'.forwarded[1].body = sent
        /\ call'.forwarded[1].headers = CopyHeaders(call.request.headers)
    BY <2>2
  <2>8. /\ CopyHeaders(call.request.headers) \cap SKIP_HEADERS = {}
        /\ call.request.headers \subseteq CopyHeaders(call.request.headers) \cup SKIP_HEADERS
    BY DEF CopyHeaders
  <2> HIDE DEF asked, sent, message
  <2>9. RequestKeepsItsMeaning'
    BY <1>1, <1>3, <2>2, <2>3, <2>4, <2>5, <2>6, <2>7, <2>8 DEF RequestKeepsItsMeaning, asked
  <2> QED BY <1>1, <2>2, <2>9 DEF ForwardInv
<1> QED BY <1>2, <1>3

LEMMA ForwardNext == ForwardInv /\ [ProxyNext]_proxyVars => ForwardInv'
<1> SUFFICES ASSUME ForwardInv, [ProxyNext]_proxyVars PROVE ForwardInv'
  OBVIOUS
<1>1. CASE Health
  BY <1>1, ForwardStays DEF Health, Respond
<1>2. CASE Handle
  BY <1>2, HandleForwards
<1>3. CASE ForwardFails
  BY <1>3, ForwardStays DEF ForwardFails, Respond
<1>4. CASE Collect
  BY <1>4, ForwardStays DEF Collect, Collected, Respond
<1>5. CASE Streaming
  BY <1>5, ForwardStays DEF Streaming, handlerVars
<1>6. CASE Unreachable
  BY <1>6, ForwardStays DEF Unreachable, handlerVars
<1>7. CASE BeginStream
  BY <1>7 DEF BeginStream, ForwardInv
<1>8. CASE BeginCollect
  BY <1>8, ForwardStays DEF BeginCollect
<1>9. ASSUME NEW how \in {"eof", "broken"}, BodyEnds(how) PROVE ForwardInv'
  BY <1>9, ForwardStays DEF BodyEnds, handlerVars
<1>10. CASE stage = "streaming" /\ UNCHANGED handlerVars
  BY <1>10, ForwardStays DEF handlerVars
<1>11. CASE UNCHANGED proxyVars
  BY <1>11, ForwardStays DEF proxyVars, handlerVars
<1> QED BY <1>1, <1>2, <1>3, <1>4, <1>5, <1>6, <1>7, <1>8, <1>9, <1>10, <1>11 DEF ProxyNext, Proxying

\* transform_request and proxy_handler: what reaches the model server asks for
\* the same as the client did, whatever roles, texts and empty blocks its
\* messages have, and a second proxy would change nothing more.
THEOREM ProxyRequestKeepsItsMeaning == ProxySpec => []RequestKeepsItsMeaning
<1>1. ForwardInv => RequestKeepsItsMeaning
  BY DEF ForwardInv, RequestKeepsItsMeaning
<1> QED BY InitForward, ForwardNext, <1>1, PTL DEF ProxySpec
=============================================================================
