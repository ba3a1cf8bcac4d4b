---------------------------- MODULE LaunchProofs -----------------------------
(***************************************************************************)
(* What a launch runs, for any listing, definition, call, build and answer *)
(* of the fitter that the assumptions of Launch admit: what was asked for, *)
(* on a vector its build takes, with the fitter asked about that vector,   *)
(* and replayed as it was measured.                                        *)
(*                                                                         *)
(* First what the proofs need of numbers and sequences: the induction      *)
(* rules that take a set instead of a predicate, and the operators         *)
(* FlattenSeq and Only, each first of nothing, then of one more element,   *)
(* then of sequences put together.                                         *)
(***************************************************************************)
EXTENDS Launch, SequenceTheorems, FiniteSetTheorems, WellFoundedInduction, TLAPS

\* Every non-empty set of numbers has a least one.
LEMMA LeastOf ==
  ASSUME NEW T \in SUBSET Nat, T # {}
  PROVE  \E n \in T : \A m \in T : n <= m
<1>1. PICK n \in T : \A m \in T : <<m, n>> \notin OpToRel(<, Nat)
  BY NatLessThanWellFounded, WFMin
<1>2. \A m \in T : ~(m < n)
  BY <1>1 DEF OpToRel
<1> QED BY <1>2

\* A set of numbers that has 0 and every successor has them all.
LEMMA AllNumbers ==
  ASSUME NEW S, 0 \in S, \A n \in Nat : n \in S => n + 1 \in S
  PROVE  Nat \subseteq S
<1> SUFFICES ASSUME Nat \ S # {} PROVE FALSE
  OBVIOUS
<1>1. PICK n \in Nat \ S : \A m \in Nat \ S : n <= m
  <2> DEFINE T == Nat \ S
  <2>1. T \in SUBSET Nat /\ T # {}
    OBVIOUS
  <2> HIDE DEF T
  <2>2. \E n \in T : \A m \in T : n <= m
    BY <2>1, LeastOf
  <2> QED BY <2>2 DEF T
<1>2. n - 1 \in Nat /\ n - 1 \in S
  BY <1>1
<1> QED BY <1>1, <1>2

\* What holds at 0 and of every successor up to a bound holds up to it.
LEMMA UpTo ==
  ASSUME NEW N \in Nat, NEW S, 0 \in S, \A n \in 1..N : n - 1 \in S => n \in S
  PROVE  0..N \subseteq S
<1> DEFINE T == (0..N) \ S
<1>1. SUFFICES ASSUME T # {} PROVE FALSE
  OBVIOUS
<1>2. PICK n \in T : \A m \in T : n <= m
  <2>1. T \in SUBSET Nat
    OBVIOUS
  <2> HIDE DEF T
  <2> QED BY <1>1, <2>1, LeastOf
<1>3. n # 0 /\ n \in 1..N /\ n - 1 \in 0..N /\ n - 1 \notin T
  BY <1>2
<1> QED BY <1>2, <1>3

\* A set of sequences that has the empty one and every one that is one element
\* longer than one of its own has them all.
LEMMA AllSequences ==
  ASSUME NEW T, NEW S, <<>> \in S, \A s \in Seq(T), e \in T : s \in S => Append(s, e) \in S
  PROVE  Seq(T) \subseteq S
<1> DEFINE N == {n \in Nat : \A s \in Seq(T) : Len(s) = n => s \in S}
<1>1. 0 \in N
  BY EmptySeq
<1>2. ASSUME NEW n \in Nat, n \in N
      PROVE  n + 1 \in N
  <2>1. SUFFICES ASSUME NEW s \in Seq(T), Len(s) = n + 1
                 PROVE  s \in S
    OBVIOUS
  <2> DEFINE u == [i \in 1..n |-> s[i]]
  <2>2. u \in Seq(T) /\ Len(u) = n
    BY <2>1
  <2>3. s[n + 1] \in T /\ s = Append(u, s[n + 1])
    BY <2>1, <2>2
  <2>4. u \in S
    BY <1>2, <2>2
  <2> QED BY <2>2, <2>3, <2>4
<1> HIDE DEF N
<1>3. Nat \subseteq N
  BY <1>1, <1>2, AllNumbers
<1> QED BY <1>3 DEF N

-----------------------------------------------------------------------------
(* FlattenSeq. *)

LEMMA FlattenNone == FlattenSeq(<<>>) = <<>>
  BY DEF FlattenSeq

Flattens(f, s, N) == f = [i \in 1..N |-> IF i = 1 THEN s[i] ELSE f[i - 1] \o s[i]]

LEMMA FlattensExist ==
  ASSUME NEW s, NEW N \in Nat
  PROVE  \E f : Flattens(f, s, N)
<1> DEFINE S == {n \in Nat : \E f : Flattens(f, s, n)}
<1>1. 0 \in S
  <2>1. Flattens(<<>>, s, 0)
    BY DEF Flattens
  <2> QED BY <2>1
<1>2. ASSUME NEW n \in Nat, n \in S PROVE n + 1 \in S
  <2>1. PICK f : Flattens(f, s, n)
    BY <1>2
  <2> DEFINE g == [i \in 1..(n + 1) |-> IF i = n + 1 THEN (IF i = 1 THEN s[i] ELSE f[i - 1] \o s[i]) ELSE f[i]]
  <2>2. \A i \in 1..n : f[i] = IF i = 1 THEN s[i] ELSE f[i - 1] \o s[i]
    BY <2>1 DEF Flattens
  <2>3. \A i \in 1..(n + 1) : g[i] = IF i = 1 THEN s[i] ELSE g[i - 1] \o s[i]
    BY <2>2
  <2>4. g = [i \in 1..(n + 1) |-> g[i]]
    OBVIOUS
  <2>5. g = [i \in 1..(n + 1) |-> IF i = 1 THEN s[i] ELSE g[i - 1] \o s[i]]
    <3> HIDE DEF g
    <3> QED BY <2>3, <2>4
  <2>6. Flattens(g, s, n + 1)
    BY <2>5 DEF Flattens
  <2> QED BY <2>6
<1>3. Nat \subseteq S
  <2> HIDE DEF S
  <2> QED BY <1>1, <1>2, AllNumbers
<1> QED BY <1>3

LEMMA FlattenIs ==
  ASSUME NEW s, Len(s) \in Nat, Len(s) # 0
  PROVE  \E f : FlattenSeq(s) = f[Len(s)] /\ Flattens(f, s, Len(s))
<1> DEFINE f == CHOOSE g : Flattens(g, s, Len(s))
<1>1. FlattenSeq(s) = f[Len(s)]
  BY Zenon DEF FlattenSeq, Flattens
<1>2. Flattens(f, s, Len(s))
  BY FlattensExist
<1> QED BY <1>1, <1>2

LEMMA FlattenMore ==
  ASSUME NEW T, NEW s \in Seq(Seq(T)), NEW x \in Seq(T)
  PROVE  /\ FlattenSeq(Append(s, x)) = FlattenSeq(s) \o x
         /\ FlattenSeq(s) \in Seq(T)
<1> DEFINE r == Append(s, x)
<1>1. PICK N \in Nat : /\ Len(s) = N /\ Len(r) = N + 1 /\ r[N + 1] = x
                       /\ \A i \in 1..N : r[i] = s[i] /\ s[i] \in Seq(T)
  <2>1. Len(s) \in Nat /\ \A i \in 1..Len(s) : s[i] \in Seq(T)
    BY ElementOfSeq, LenProperties
  <2>2. Len(r) = Len(s) + 1 /\ r[Len(s) + 1] = x /\ \A i \in 1..Len(s) : r[i] = s[i]
    BY AppendProperties
  <2> HIDE DEF r
  <2> QED BY <2>1, <2>2
<1> HIDE DEF r
<1>2. CASE N = 0
  <2>1. s = <<>> /\ FlattenSeq(s) = <<>>
    BY <1>1, <1>2, FlattenNone
  <2>2. PICK g : FlattenSeq(r) = g[1] /\ Flattens(g, r, 1)
    <3>1. Len(r) = 1 /\ Len(r) \in Nat /\ Len(r) # 0
      BY <1>1, <1>2
    <3> QED BY <3>1, FlattenIs
  <2>3. g[1] = x
    BY <1>1, <1>2, <2>2 DEF Flattens
  <2>4. x = <<>> \o x /\ <<>> \in Seq(T)
    OBVIOUS
  <2> QED BY <2>1, <2>2, <2>3, <2>4 DEF r
<1>3. CASE N # 0
  <2>1. PICK f : FlattenSeq(s) = f[N] /\ Flattens(f, s, N)
    BY <1>1, <1>3, FlattenIs
  <2>2. PICK g : FlattenSeq(r) = g[N + 1] /\ Flattens(g, r, N + 1)
    <3>1. N + 1 \in Nat /\ N + 1 # 0
      OBVIOUS
    <3> QED BY <1>1, <3>1, FlattenIs
  <2>3. \A i \in 1..N : f[i] = IF i = 1 THEN s[i] ELSE f[i - 1] \o s[i]
    BY <2>1 DEF Flattens
  <2>4. \A i \in 1..(N + 1) : g[i] = IF i = 1 THEN r[i] ELSE g[i - 1] \o r[i]
    BY <2>2 DEF Flattens
  <2> DEFINE S == {n \in Nat : n \in 1..N => f[n] = g[n] /\ f[n] \in Seq(T)}
  <2>5. 0 \in S
    OBVIOUS
  <2>6. ASSUME NEW n \in Nat, n \in S PROVE n + 1 \in S
    <3>1. SUFFICES ASSUME n + 1 \in 1..N
                   PROVE  f[n + 1] = g[n + 1] /\ f[n + 1] \in Seq(T)
      OBVIOUS
    <3>2. CASE n = 0
      BY <1>1, <2>3, <2>4, <3>1, <3>2
    <3>3. CASE n # 0
      <4>1. n \in 1..N /\ n + 1 # 1 /\ (n + 1) - 1 = n /\ n + 1 \in 1..(N + 1)
        BY <3>1, <3>3
      <4>2. f[n + 1] = f[n] \o s[n + 1]
        BY <2>3, <3>1, <4>1
      <4>3. g[n + 1] = g[n] \o r[n + 1]
        BY <2>4, <3>1, <4>1
      <4>4. f[n] = g[n] /\ f[n] \in Seq(T)
        BY <2>6, <4>1
      <4>5. r[n + 1] = s[n + 1] /\ s[n + 1] \in Seq(T)
        BY <1>1, <3>1
      <4>6. \A a, b \in Seq(T) : a \o b \in Seq(T)
        OBVIOUS
      <4> QED BY <4>2, <4>3, <4>4, <4>5, <4>6
    <3> QED BY <3>2, <3>3
  <2>7. Nat \subseteq S
    <3> HIDE DEF S
    <3> QED BY <2>5, <2>6, AllNumbers
  <2>8. f[N] = g[N] /\ f[N] \in Seq(T)
    BY <1>3, <2>7
  <2>9. g[N + 1] = g[N] \o x
    <3>1. N + 1 \in 1..(N + 1) /\ N + 1 # 1 /\ (N + 1) - 1 = N
      BY <1>3
    <3>2. g[N + 1] = g[N] \o r[N + 1]
      BY <2>4, <3>1
    <3> QED BY <1>1, <3>2
  <2> QED BY <2>1, <2>2, <2>8, <2>9 DEF r
<1> QED BY <1>2, <1>3

LEMMA FlattenType == \A T : \A s \in Seq(Seq(T)) : FlattenSeq(s) \in Seq(T)
<1> SUFFICES ASSUME NEW T, NEW s \in Seq(Seq(T)) PROVE FlattenSeq(s) \in Seq(T)
  OBVIOUS
<1>1. <<>> \in Seq(T)
  OBVIOUS
<1> QED BY <1>1, FlattenMore

LEMMA FlattenJoined ==
  ASSUME NEW T, NEW s \in Seq(Seq(T)), NEW t \in Seq(Seq(T))
  PROVE  FlattenSeq(s \o t) = FlattenSeq(s) \o FlattenSeq(t)
<1> DEFINE S == {u \in Seq(Seq(T)) : FlattenSeq(s \o u) = FlattenSeq(s) \o FlattenSeq(u)}
<1>1. <<>> \in S
  <2>1. s \o <<>> = s /\ <<>> \in Seq(Seq(T))
    OBVIOUS
  <2>2. FlattenSeq(s) \o <<>> = FlattenSeq(s)
    <3>1. \A a \in Seq(T) : a \o <<>> = a
      OBVIOUS
    <3> QED BY <3>1, FlattenType
  <2> QED BY <2>1, <2>2, FlattenNone
<1>2. ASSUME NEW u \in Seq(Seq(T)), NEW x \in Seq(T), u \in S PROVE Append(u, x) \in S
  <2>1. s \o Append(u, x) = Append(s \o u, x) /\ s \o u \in Seq(Seq(T)) /\ Append(u, x) \in Seq(Seq(T))
    OBVIOUS
  <2>2. FlattenSeq(Append(s \o u, x)) = FlattenSeq(s \o u) \o x
    BY <2>1, FlattenMore
  <2>3. FlattenSeq(Append(u, x)) = FlattenSeq(u) \o x
    BY FlattenMore
  <2>4. FlattenSeq(s \o u) = FlattenSeq(s) \o FlattenSeq(u)
    BY <1>2
  <2>5. \A a, b, c \in Seq(T) : (a \o b) \o c = a \o (b \o c)
    OBVIOUS
  <2>6. FlattenSeq(s) \in Seq(T) /\ FlattenSeq(u) \in Seq(T)
    BY FlattenType
  <2>7. (FlattenSeq(s) \o FlattenSeq(u)) \o x = FlattenSeq(s) \o (FlattenSeq(u) \o x)
    BY <2>5, <2>6
  <2>8. FlattenSeq(s \o Append(u, x)) = FlattenSeq(s) \o FlattenSeq(Append(u, x))
    BY <2>1, <2>2, <2>3, <2>4, <2>7, Zenon
  <2> QED BY <2>1, <2>8
<1>3. Seq(Seq(T)) \subseteq S
  <2> HIDE DEF S
  <2> QED BY <1>1, <1>2, AllSequences
<1> QED BY <1>3

-----------------------------------------------------------------------------
(* Only. *)

\* A sequence that is another one and one element more.
LEMMA OneMore ==
  ASSUME NEW T, NEW u \in Seq(T), NEW y \in T, NEW v, DOMAIN v = 1..(Len(u) + 1), v = [i \in DOMAIN v |-> v[i]],
         \A i \in 1..Len(u) : v[i] = u[i], v[Len(u) + 1] = y
  PROVE  v = Append(u, y)
OBVIOUS

\* Sequences of one and of two elements.
LEMMA SetOfOne ==
  ASSUME NEW a
  PROVE  ToSet(<<a>>) = {a}
<1>1. DOMAIN <<a>> = 1..1 /\ <<a>>[1] = a
  OBVIOUS
<1>2. ToSet(<<a>>) = {<<a>>[i] : i \in 1..1}
  BY <1>1 DEF ToSet
<1> QED BY <1>1, <1>2

LEMMA SetOfTwo ==
  ASSUME NEW a, NEW b
  PROVE  ToSet(<<a, b>>) = {a, b}
<1>1. DOMAIN <<a, b>> = 1..2 /\ <<a, b>>[1] = a /\ <<a, b>>[2] = b
  OBVIOUS
<1>2. ToSet(<<a, b>>) = {<<a, b>>[i] : i \in 1..2}
  BY <1>1 DEF ToSet
<1>3. 1..2 = {1, 2}
  OBVIOUS
<1>4. ToSet(<<a, b>>) = {<<a, b>>[i] : i \in {1, 2}}
  BY <1>2, <1>3, Zenon
<1> QED BY <1>1, <1>4

LEMMA OneAndOne ==
  ASSUME NEW a, NEW b
  PROVE  Append(<<a>>, b) = <<a, b>>
<1>1. <<a>> \in Seq({a, b}) /\ Len(<<a>>) = 1 /\ b \in {a, b}
  OBVIOUS
<1>2. /\ DOMAIN <<a, b>> = 1..(Len(<<a>>) + 1) /\ <<a, b>> = [i \in DOMAIN <<a, b>> |-> <<a, b>>[i]]
      /\ \A i \in 1..Len(<<a>>) : <<a, b>>[i] = <<a>>[i]
      /\ <<a, b>>[Len(<<a>>) + 1] = b
  BY <1>1
<1> QED BY <1>1, <1>2, OneMore

LEMMA TwoAndTwo ==
  ASSUME NEW a, NEW b, NEW c, NEW d
  PROVE  <<a, b, c, d>> = <<a, b>> \o <<c, d>>
OBVIOUS

LEMMA OnlyNone == \A S : Only(<<>>, S) = <<>>
<1>1. \A S : [i \in DOMAIN <<>> |-> IF <<>>[i] \in S THEN <<(<<>>[i])>> ELSE <<>>] = <<>>
  OBVIOUS
<1> QED BY <1>1, FlattenNone DEF Only

LEMMA OnlyTyped == \A T, S : \A s \in Seq(T) : Only(s, S) \in Seq(T)
<1> SUFFICES ASSUME NEW T, NEW S, NEW s \in Seq(T) PROVE Only(s, S) \in Seq(T)
  OBVIOUS
<1>1. [i \in DOMAIN s |-> IF s[i] \in S THEN <<s[i]>> ELSE <<>>] \in Seq(Seq(T))
  <2> DEFINE p == [i \in DOMAIN s |-> IF s[i] \in S THEN <<s[i]>> ELSE <<>>]
  <2>1. PICK N \in Nat : DOMAIN s = 1..N
    OBVIOUS
  <2>2. \A i \in 1..N : p[i] \in Seq(T)
    BY <2>1
  <2> QED BY <2>1, <2>2
<1> QED BY <1>1, FlattenType DEF Only

LEMMA AppendJoined ==
  ASSUME NEW T, NEW x \in T
  PROVE  \A a, b \in Seq(T) : Append(a \o b, x) = a \o Append(b, x)
<1> SUFFICES ASSUME NEW a \in Seq(T), NEW b \in Seq(T)
             PROVE  Append(a \o b, x) = a \o Append(b, x)
  OBVIOUS
<1>1. <<x>> \in Seq(T) /\ a \o b \in Seq(T)
  OBVIOUS
<1>2. Append(b, x) = b \o <<x>> /\ Append(a \o b, x) = (a \o b) \o <<x>>
  BY <1>1, AppendIsConcat
<1> QED BY <1>1, <1>2, ConcatAssociative

LEMMA OnlyMore ==
  ASSUME NEW T, NEW S, NEW s \in Seq(T), NEW x \in T
  PROVE  /\ Only(Append(s, x), S) = IF x \in S THEN Append(Only(s, S), x) ELSE Only(s, S)
         /\ Only(s, S) \in Seq(T)
<1> DEFINE r == Append(s, x)
           p == [i \in DOMAIN s |-> IF s[i] \in S THEN <<s[i]>> ELSE <<>>]
           q == [i \in DOMAIN r |-> IF r[i] \in S THEN <<r[i]>> ELSE <<>>]
           y == IF x \in S THEN <<x>> ELSE <<>>
<1>1. PICK N \in Nat : /\ Len(s) = N /\ DOMAIN s = 1..N /\ DOMAIN r = 1..(N + 1) /\ r[N + 1] = x
                       /\ \A i \in 1..N : r[i] = s[i] /\ s[i] \in T
  OBVIOUS
<1>2. Only(s, S) = FlattenSeq(p) /\ Only(r, S) = FlattenSeq(q)
  BY DEF Only
<1> HIDE DEF r
<1>3. p \in Seq(Seq(T)) /\ Len(p) = N
  <2>1. \A i \in 1..N : p[i] \in Seq(T)
    BY <1>1
  <2> QED BY <1>1, <2>1
<1>4. y \in Seq(T)
  OBVIOUS
<1>5. q = Append(p, y)
  <2>1. DOMAIN q = 1..(N + 1) /\ q = [i \in DOMAIN q |-> q[i]]
    BY <1>1
  <2>2. \A i \in 1..N : q[i] = p[i]
    BY <1>1
  <2>3. q[N + 1] = y
    BY <1>1
  <2> HIDE DEF p, q, y
  <2> QED BY <1>3, <1>4, <2>1, <2>2, <2>3, OneMore
<1> HIDE DEF p, q
<1>6. FlattenSeq(q) = FlattenSeq(p) \o y /\ FlattenSeq(p) \in Seq(T)
  BY <1>3, <1>4, <1>5, FlattenMore
<1>7. \A a \in Seq(T) : a \o <<>> = a /\ a \o <<x>> = Append(a, x)
  OBVIOUS
<1> QED BY <1>2, <1>6, <1>7 DEF r

\* What Only keeps: elements of both; all if all are in S; nothing only if none is.
LEMMA OnlyIs ==
  ASSUME NEW T, NEW S
  PROVE  \A s \in Seq(T) :
           /\ Only(s, S) \in Seq(T \cap S)
           /\ (\A i \in DOMAIN s : s[i] \in S) => Only(s, S) = s
           /\ (\A i \in DOMAIN s : s[i] \notin S) <=> Only(s, S) = <<>>
<1> DEFINE A == {s \in Seq(T) :
                  /\ Only(s, S) \in Seq(T \cap S)
                  /\ (\A i \in DOMAIN s : s[i] \in S) => Only(s, S) = s
                  /\ (\A i \in DOMAIN s : s[i] \notin S) <=> Only(s, S) = <<>>}
<1>1. <<>> \in A
  <2>1. <<>> \in Seq(T) /\ <<>> \in Seq(T \cap S) /\ DOMAIN <<>> = {}
    OBVIOUS
  <2> QED BY <2>1, OnlyNone
<1>2. ASSUME NEW s \in Seq(T), NEW x \in T, s \in A PROVE Append(s, x) \in A
  <2> DEFINE r == Append(s, x)
  <2>1. Only(r, S) = IF x \in S THEN Append(Only(s, S), x) ELSE Only(s, S)
    BY OnlyMore
  <2>2. PICK N \in Nat : /\ DOMAIN s = 1..N /\ DOMAIN r = 1..(N + 1) /\ r[N + 1] = x
                         /\ \A i \in 1..N : r[i] = s[i]
    OBVIOUS
  <2>3. r \in Seq(T)
    OBVIOUS
  <2>4. Only(r, S) \in Seq(T \cap S)
    BY <1>2, <2>1
  <2>5. ASSUME \A i \in DOMAIN r : r[i] \in S PROVE Only(r, S) = r
    <3>1. x \in S /\ \A i \in DOMAIN s : s[i] \in S
      <4> HIDE DEF r
      <4> QED BY <2>2, <2>5
    <3> QED BY <1>2, <2>1, <3>1
  <2>6. (\A i \in DOMAIN r : r[i] \notin S) <=> (\A i \in DOMAIN s : s[i] \notin S) /\ x \notin S
    <3> HIDE DEF r
    <3> QED BY <2>2
  <2>7. x \in S => Only(r, S) # <<>>
    <3>1. \A a \in Seq(T \cap S) : x \in S => Append(a, x) # <<>>
      OBVIOUS
    <3>2. Only(s, S) \in Seq(T \cap S)
      BY <1>2
    <3> QED BY <2>1, <3>1, <3>2
  <2>8. (\A i \in DOMAIN r : r[i] \notin S) <=> Only(r, S) = <<>>
    <3>1. (\A i \in DOMAIN s : s[i] \notin S) <=> Only(s, S) = <<>>
      BY <1>2
    <3> QED BY <2>1, <2>6, <2>7, <3>1
  <2> QED BY <2>3, <2>4, <2>5, <2>8
<1>3. Seq(T) \subseteq A
  <2> HIDE DEF A
  <2> QED BY <1>1, <1>2, AllSequences
<1> QED BY <1>3

LEMMA OnlyJoined ==
  ASSUME NEW T, NEW S, NEW s \in Seq(T), NEW t \in Seq(T)
  PROVE  Only(s \o t, S) = Only(s, S) \o Only(t, S)
<1> DEFINE A == {u \in Seq(T) : Only(s \o u, S) = Only(s, S) \o Only(u, S)}
<1>1. <<>> \in A
  <2>1. s \o <<>> = s /\ <<>> \in Seq(T)
    OBVIOUS
  <2>2. \A a \in Seq(T) : a \o <<>> = a
    OBVIOUS
  <2>3. Only(s, S) \in Seq(T)
    BY OnlyTyped
  <2> QED BY <2>1, <2>2, <2>3, OnlyNone
<1>2. ASSUME NEW u \in Seq(T), NEW x \in T, u \in A PROVE Append(u, x) \in A
  <2>1. s \o Append(u, x) = Append(s \o u, x) /\ s \o u \in Seq(T) /\ Append(u, x) \in Seq(T)
    OBVIOUS
  <2>2. /\ Only(Append(s \o u, x), S) = IF x \in S THEN Append(Only(s \o u, S), x) ELSE Only(s \o u, S)
        /\ Only(Append(u, x), S) = IF x \in S THEN Append(Only(u, S), x) ELSE Only(u, S)
    <3>1. Only(Append(s \o u, x), S) = IF x \in S THEN Append(Only(s \o u, S), x) ELSE Only(s \o u, S)
      BY <2>1, OnlyMore
    <3>2. Only(Append(u, x), S) = IF x \in S THEN Append(Only(u, S), x) ELSE Only(u, S)
      BY OnlyMore
    <3> QED BY <3>1, <3>2
  <2>3. Only(s \o u, S) = Only(s, S) \o Only(u, S)
    BY <1>2
  <2>4. Append(Only(s, S) \o Only(u, S), x) = Only(s, S) \o Append(Only(u, S), x)
    <3>1. Only(u, S) \in Seq(T) /\ Only(s, S) \in Seq(T)
      BY OnlyTyped
    <3> HIDE DEF A
    <3> QED BY <3>1, AppendJoined
  <2>5. Only(s \o Append(u, x), S) = Only(s, S) \o Only(Append(u, x), S)
    <3>1. CASE x \in S
      BY <2>1, <2>2, <2>3, <2>4, <3>1, Zenon
    <3>2. CASE x \notin S
      BY <2>1, <2>2, <2>3, <3>2, Zenon
    <3> QED BY <3>1, <3>2
  <2> QED BY <2>1, <2>5
<1>3. Seq(T) \subseteq A
  <2> HIDE DEF A
  <2> QED BY <1>1, <1>2, AllSequences
<1> QED BY <1>3

\* Filtering a flattened sequence is filtering its parts.
LEMMA OnlyFlattened ==
  ASSUME NEW T, NEW K
  PROVE  \A s \in Seq(Seq(T)) :
           Only(FlattenSeq(s), K) = FlattenSeq([i \in DOMAIN s |-> Only(s[i], K)])
<1> DEFINE M(s) == [i \in DOMAIN s |-> Only(s[i], K)]
           A == {s \in Seq(Seq(T)) : Only(FlattenSeq(s), K) = FlattenSeq(M(s))}
<1>1. <<>> \in A
  <2>1. M(<<>>) = <<>> /\ <<>> \in Seq(Seq(T))
    OBVIOUS
  <2> HIDE DEF M
  <2> QED BY <2>1, FlattenNone, OnlyNone
<1>2. ASSUME NEW s \in Seq(Seq(T)), NEW x \in Seq(T), s \in A PROVE Append(s, x) \in A
  <2> DEFINE r == Append(s, x)
  <2>1. PICK N \in Nat : /\ Len(s) = N /\ DOMAIN s = 1..N /\ DOMAIN r = 1..(N + 1) /\ r[N + 1] = x
                         /\ \A i \in 1..N : r[i] = s[i] /\ s[i] \in Seq(T)
    <3>1. Len(s) \in Nat /\ \A i \in 1..Len(s) : s[i] \in Seq(T)
      BY ElementOfSeq, LenProperties
    <3>2. /\ Len(r) = Len(s) + 1 /\ r[Len(s) + 1] = x /\ \A i \in 1..Len(s) : r[i] = s[i]
          /\ DOMAIN s = 1..Len(s) /\ DOMAIN r = 1..Len(r)
      BY AppendProperties, LenProperties
    <3> HIDE DEF r, M, A
    <3> QED BY <3>1, <3>2
  <2> HIDE DEF r
  <2>2. M(s) \in Seq(Seq(T)) /\ Len(M(s)) = N
    <3>1. \A i \in 1..N : M(s)[i] \in Seq(T)
      BY <2>1, OnlyTyped
    <3> QED BY <2>1, <3>1
  <2>3. Only(x, K) \in Seq(T)
    BY OnlyTyped
  <2>4. M(r) = Append(M(s), Only(x, K))
    <3>1. DOMAIN M(r) = 1..(N + 1) /\ M(r) = [i \in DOMAIN M(r) |-> M(r)[i]]
      BY <2>1
    <3>2. \A i \in 1..N : M(r)[i] = M(s)[i]
      BY <2>1
    <3>3. M(r)[N + 1] = Only(x, K)
      BY <2>1
    <3> HIDE DEF M
    <3> QED BY <2>2, <2>3, <3>1, <3>2, <3>3, OneMore
  <2> HIDE DEF M
  <2>5. FlattenSeq(M(r)) = FlattenSeq(M(s)) \o Only(x, K)
    BY <2>2, <2>3, <2>4, FlattenMore
  <2>6. FlattenSeq(r) = FlattenSeq(s) \o x /\ FlattenSeq(s) \in Seq(T)
    BY FlattenMore DEF r
  <2>7. Only(FlattenSeq(s) \o x, K) = Only(FlattenSeq(s), K) \o Only(x, K)
    BY <2>6, OnlyJoined
  <2>8. r \in Seq(Seq(T))
    BY DEF r
  <2>9. Only(FlattenSeq(s), K) = FlattenSeq(M(s))
    BY <1>2
  <2>10. Only(FlattenSeq(r), K) = FlattenSeq(M(r))
    BY <2>5, <2>6, <2>7, <2>9, Zenon
  <2> QED BY <2>8, <2>10 DEF r
<1>3. Seq(Seq(T)) \subseteq A
  <2> HIDE DEF A
  <2> QED BY <1>1, <1>2, AllSequences
<1> QED BY <1>3

\* Sequences of sequences alike part by part, as far as K goes.
LEMMA PartsAlike ==
  ASSUME NEW T, NEW K, NEW s \in Seq(Seq(T)), NEW t \in Seq(Seq(T)), DOMAIN s = DOMAIN t,
         \A i \in DOMAIN s : Only(s[i], K) = Only(t[i], K)
  PROVE  Only(FlattenSeq(s), K) = Only(FlattenSeq(t), K)
<1>1. [i \in DOMAIN s |-> Only(s[i], K)] = [i \in DOMAIN t |-> Only(t[i], K)]
  OBVIOUS
<1>2. Only(FlattenSeq(s), K) = FlattenSeq([i \in DOMAIN s |-> Only(s[i], K)])
  BY OnlyFlattened
<1>3. Only(FlattenSeq(t), K) = FlattenSeq([i \in DOMAIN t |-> Only(t[i], K)])
  BY OnlyFlattened
<1> QED BY <1>1, <1>2, <1>3, Zenon


-----------------------------------------------------------------------------
(* What follows a flag, one token at a time.                                 *)

EndsIn(s, flag) == s # <<>> /\ s[Len(s)] = flag

LEMMA ValuesNone == \A flag : Values(<<>>, flag) = <<>>
<1>1. \A flag : [i \in DOMAIN <<>> |-> IF i > 1 /\ <<>>[i - 1] = flag THEN <<(<<>>[i])>> ELSE <<>>] = <<>>
  OBVIOUS
<1> QED BY <1>1, FlattenNone DEF Values

LEMMA ValuesMore ==
  ASSUME NEW T, NEW flag, NEW s \in Seq(T), NEW x \in T
  PROVE  /\ Values(Append(s, x), flag) = IF EndsIn(s, flag) THEN Append(Values(s, flag), x) ELSE Values(s, flag)
         /\ Values(s, flag) \in Seq(T)
<1> DEFINE r == Append(s, x)
           p == [i \in DOMAIN s |-> IF i > 1 /\ s[i - 1] = flag THEN <<s[i]>> ELSE <<>>]
           q == [i \in DOMAIN r |-> IF i > 1 /\ r[i - 1] = flag THEN <<r[i]>> ELSE <<>>]
           y == IF EndsIn(s, flag) THEN <<x>> ELSE <<>>
<1>1. PICK N \in Nat : /\ Len(s) = N /\ DOMAIN s = 1..N /\ DOMAIN r = 1..(N + 1) /\ r[N + 1] = x
                       /\ \A i \in 1..N : r[i] = s[i] /\ s[i] \in T
  OBVIOUS
<1>2. Values(s, flag) = FlattenSeq(p) /\ Values(r, flag) = FlattenSeq(q)
  BY DEF Values
<1>3. s # <<>> <=> N # 0
  BY <1>1, EmptySeq
<1> HIDE DEF r
<1>4. p \in Seq(Seq(T)) /\ Len(p) = N
  <2>1. \A i \in 1..N : p[i] \in Seq(T)
    BY <1>1
  <2> QED BY <1>1, <2>1
<1>5. y \in Seq(T)
  OBVIOUS
<1>6. q = Append(p, y)
  <2>1. DOMAIN q = 1..(N + 1) /\ q = [i \in DOMAIN q |-> q[i]]
    BY <1>1
  <2>2. \A i \in 1..N : q[i] = p[i]
    BY <1>1
  <2>3. q[N + 1] = y
    <3>1. CASE N = 0
      BY <1>1, <1>3, <3>1 DEF EndsIn
    <3>2. CASE N # 0
      BY <1>1, <1>3, <3>2 DEF EndsIn
    <3> QED BY <3>1, <3>2
  <2> HIDE DEF p, q, y
  <2> QED BY <1>4, <1>5, <2>1, <2>2, <2>3, OneMore
<1> HIDE DEF p, q
<1>7. FlattenSeq(q) = FlattenSeq(p) \o y /\ FlattenSeq(p) \in Seq(T)
  BY <1>4, <1>5, <1>6, FlattenMore
<1>8. \A a \in Seq(T) : a \o <<>> = a /\ a \o <<x>> = Append(a, x)
  OBVIOUS
<1> QED BY <1>2, <1>7, <1>8 DEF r

LEMMA ValuesTyped == \A T, flag : \A s \in Seq(T) : Values(s, flag) \in Seq(T)
<1> SUFFICES ASSUME NEW T, NEW flag, NEW s \in Seq(T) PROVE Values(s, flag) \in Seq(T)
  OBVIOUS
<1>1. CASE s = <<>>
  BY <1>1, ValuesNone
<1>2. CASE s # <<>>
  <2>1. s[1] \in T
    BY <1>2
  <2> QED BY <2>1, ValuesMore
<1> QED BY <1>1, <1>2

LEMMA NothingJoined == \A T : \A s \in Seq(T) : s \o <<>> = s /\ <<>> \o s = s
OBVIOUS

LEMMA EndOfJoined ==
  ASSUME NEW T, NEW s \in Seq(T), NEW t \in Seq(T), NEW flag
  PROVE  EndsIn(s \o t, flag) <=> IF t = <<>> THEN EndsIn(s, flag) ELSE EndsIn(t, flag)
<1>1. CASE t = <<>>
  <2>1. s \o t = s
    BY <1>1
  <2> QED BY <1>1, <2>1
<1>2. CASE t # <<>>
  <2>1. /\ Len(s \o t) = Len(s) + Len(t) /\ Len(s) \in Nat /\ Len(t) \in Nat /\ Len(t) # 0
    BY <1>2, EmptySeq
  <2>2. (s \o t)[Len(s) + Len(t)] = t[Len(t)]
    BY <2>1
  <2>3. s \o t # <<>>
    BY <2>1
  <2> QED BY <1>2, <2>1, <2>2, <2>3 DEF EndsIn
<1> QED BY <1>1, <1>2

\* A flag that ends no part takes no value from the next one.
LEMMA ValuesJoined ==
  ASSUME NEW T, NEW flag, NEW s \in Seq(T), NEW t \in Seq(T), ~EndsIn(s, flag)
  PROVE  Values(s \o t, flag) = Values(s, flag) \o Values(t, flag)
<1> DEFINE A == {u \in Seq(T) : Values(s \o u, flag) = Values(s, flag) \o Values(u, flag)}
<1>1. <<>> \in A
  <2>1. s \o <<>> = s /\ <<>> \in Seq(T)
    OBVIOUS
  <2>2. Values(s, flag) \in Seq(T)
    BY ValuesTyped
  <2> QED BY <2>1, <2>2, ValuesNone, NothingJoined
<1>2. ASSUME NEW u \in Seq(T), NEW x \in T, u \in A PROVE Append(u, x) \in A
  <2>1. s \o Append(u, x) = Append(s \o u, x) /\ s \o u \in Seq(T) /\ Append(u, x) \in Seq(T)
    OBVIOUS
  <2>2. Values(Append(s \o u, x), flag) =
          IF EndsIn(s \o u, flag) THEN Append(Values(s \o u, flag), x) ELSE Values(s \o u, flag)
    BY <2>1, ValuesMore
  <2>3. Values(Append(u, x), flag) = IF EndsIn(u, flag) THEN Append(Values(u, flag), x) ELSE Values(u, flag)
    BY ValuesMore
  <2>4. EndsIn(s \o u, flag) <=> EndsIn(u, flag)
    <3>1. u = <<>> => ~EndsIn(u, flag)
      BY DEF EndsIn
    <3>2. EndsIn(s \o u, flag) <=> IF u = <<>> THEN EndsIn(s, flag) ELSE EndsIn(u, flag)
      BY EndOfJoined
    <3> QED BY <3>1, <3>2
  <2>5. Values(s \o u, flag) = Values(s, flag) \o Values(u, flag)
    BY <1>2
  <2>6. Append(Values(s, flag) \o Values(u, flag), x) = Values(s, flag) \o Append(Values(u, flag), x)
    <3>1. Values(u, flag) \in Seq(T) /\ Values(s, flag) \in Seq(T)
      BY ValuesTyped
    <3> HIDE DEF A
    <3> QED BY <3>1, AppendJoined
  <2>7. Values(s \o Append(u, x), flag) = Values(s, flag) \o Values(Append(u, x), flag)
    <3>1. CASE EndsIn(u, flag)
      BY <2>1, <2>2, <2>3, <2>4, <2>5, <2>6, <3>1, Zenon
    <3>2. CASE ~EndsIn(u, flag)
      BY <2>1, <2>2, <2>3, <2>4, <2>5, <3>2, Zenon
    <3> QED BY <3>1, <3>2
  <2> QED BY <2>1, <2>7
<1>3. Seq(T) \subseteq A
  <2> HIDE DEF A
  <2> QED BY <1>1, <1>2, AllSequences
<1> QED BY <1>3

LEMMA SetOfMore ==
  ASSUME NEW T, NEW s \in Seq(T), NEW x \in T
  PROVE  ToSet(Append(s, x)) = ToSet(s) \cup {x}
<1> DEFINE r == Append(s, x)
<1>1. PICK N \in Nat : /\ DOMAIN s = 1..N /\ DOMAIN r = 1..(N + 1) /\ r[N + 1] = x
                       /\ \A i \in 1..N : r[i] = s[i]
  OBVIOUS
<1> HIDE DEF r
<1>2. ToSet(r) = ToSet(s) \cup {x}
  BY <1>1 DEF ToSet
<1> QED BY <1>2 DEF r

LEMMA SetOfJoined ==
  ASSUME NEW T, NEW s \in Seq(T), NEW t \in Seq(T)
  PROVE  ToSet(s \o t) = ToSet(s) \cup ToSet(t)
<1> DEFINE r == s \o t
<1>1. PICK N \in Nat, M \in Nat :
        /\ DOMAIN s = 1..N /\ DOMAIN t = 1..M /\ DOMAIN r = 1..(N + M)
        /\ \A i \in 1..N : r[i] = s[i]
        /\ \A i \in 1..M : r[N + i] = t[i]
  OBVIOUS
<1> HIDE DEF r
<1>2. ASSUME NEW i \in 1..(N + M) PROVE r[i] \in ToSet(s) \cup ToSet(t)
  <2>1. CASE i <= N
    <3>1. i \in 1..N
      BY <2>1
    <3>2. r[i] = s[i] /\ i \in DOMAIN s
      BY <1>1, <3>1
    <3> QED BY <3>2 DEF ToSet
  <2>2. CASE i > N
    <3>1. i - N \in 1..M /\ N + (i - N) = i
      BY <2>2
    <3>2. r[i] = t[i - N]
      BY <1>1, <3>1
    <3> QED BY <1>1, <3>1, <3>2 DEF ToSet
  <2> QED BY <2>1, <2>2
<1>3. ASSUME NEW i \in 1..N PROVE s[i] \in ToSet(r)
  BY <1>1 DEF ToSet
<1>4. ASSUME NEW i \in 1..M PROVE t[i] \in ToSet(r)
  <2>1. N + i \in 1..(N + M) /\ r[N + i] = t[i]
    BY <1>1
  <2> QED BY <1>1, <2>1 DEF ToSet
<1> QED BY <1>1, <1>2, <1>3, <1>4 DEF ToSet, r

LEMMA ValuesWithout ==
  ASSUME NEW T, NEW flag
  PROVE  \A s \in Seq(T) : flag \notin ToSet(s) => Values(s, flag) = <<>>
<1> DEFINE A == {s \in Seq(T) : flag \notin ToSet(s) => Values(s, flag) = <<>>}
<1>1. <<>> \in A
  BY ValuesNone, EmptySeq
<1>2. ASSUME NEW s \in Seq(T), NEW x \in T, s \in A PROVE Append(s, x) \in A
  <2>1. Append(s, x) \in Seq(T) /\ ToSet(Append(s, x)) = ToSet(s) \cup {x}
    BY SetOfMore
  <2>2. EndsIn(s, flag) => flag \in ToSet(s)
    BY EmptySeq DEF EndsIn, ToSet
  <2>3. Values(Append(s, x), flag) = IF EndsIn(s, flag) THEN Append(Values(s, flag), x) ELSE Values(s, flag)
    BY ValuesMore
  <2>4. flag \notin ToSet(s) => Values(s, flag) = <<>>
    BY <1>2
  <2>5. flag \notin ToSet(Append(s, x)) => Values(Append(s, x), flag) = <<>>
    BY <2>1, <2>2, <2>3, <2>4
  <2> QED BY <2>1, <2>5
<1>3. Seq(T) \subseteq A
  <2> HIDE DEF A
  <2> QED BY <1>1, <1>2, AllSequences
<1> QED BY <1>3

-----------------------------------------------------------------------------
(* Parts of a vector: their flags are among some, and each that takes a value  *)
(* has one.                                                                    *)

Neat(s, F) == s \in Seq(Text) /\ GivesValues(s) /\ ToSet(s) \cap Flags \subseteq F

LEMMA NeatTyped == \A s, F : Neat(s, F) => s \in Seq(Text)
BY DEF Neat

LEMMA NeatNone == \A F : Neat(<<>>, F)
<1>1. <<>> \in Seq(Text) /\ DOMAIN <<>> = {} /\ ToSet(<<>>) = {}
  BY DEF ToSet
<1> QED BY <1>1 DEF Neat, GivesValues

LEMMA NeatMore == \A s, F, G : Neat(s, F) /\ F \subseteq G => Neat(s, G)
BY DEF Neat

LEMMA ValuedAreFlags == VALUED \subseteq Flags
BY FlagsAssumption DEF VALUED, PLACEMENT_FLAGS, SERVER_FLAGS

LEMMA NeatEnds ==
  ASSUME NEW s, NEW F, Neat(s, F), NEW flag \in VALUED
  PROVE  ~EndsIn(s, flag)
<1>1. s \in Seq(Text) /\ GivesValues(s)
  BY DEF Neat
<1>2. SUFFICES ASSUME s # <<>>, s[Len(s)] = flag PROVE FALSE
  BY DEF EndsIn
<1>3. Len(s) \in DOMAIN s /\ Len(s) + 1 \notin DOMAIN s
  BY <1>1, <1>2
<1> QED BY <1>1, <1>2, <1>3 DEF GivesValues

LEMMA NeatJoined ==
  ASSUME NEW s, NEW t, NEW F, Neat(s, F), Neat(t, F)
  PROVE  Neat(s \o t, F)
<1> DEFINE r == s \o t
<1>1. /\ s \in Seq(Text) /\ GivesValues(s) /\ ToSet(s) \cap Flags \subseteq F
      /\ t \in Seq(Text) /\ GivesValues(t) /\ ToSet(t) \cap Flags \subseteq F
  BY DEF Neat
<1>2. r \in Seq(Text) /\ ToSet(r) \cap Flags \subseteq F
  BY <1>1, SetOfJoined
<1>3. PICK N \in Nat, M \in Nat :
        /\ DOMAIN s = 1..N /\ DOMAIN t = 1..M /\ DOMAIN r = 1..(N + M)
        /\ \A i \in 1..N : r[i] = s[i]
        /\ \A i \in 1..M : r[N + i] = t[i]
  BY <1>1
<1> HIDE DEF r
<1>4. ASSUME NEW i \in DOMAIN r, r[i] \in VALUED
      PROVE  i + 1 \in DOMAIN r /\ r[i + 1] \notin Flags
  <2>1. CASE i <= N
    <3>1. s[i] \in VALUED /\ i \in DOMAIN s
      BY <1>3, <1>4, <2>1
    <3>2. i + 1 \in DOMAIN s /\ s[i + 1] \notin Flags
      BY <1>1, <3>1 DEF GivesValues
    <3> QED BY <1>3, <3>2
  <2>2. CASE i > N
    <3>1. i - N \in 1..M /\ N + (i - N) = i
      BY <1>3, <2>2
    <3>2. t[i - N] \in VALUED /\ i - N \in DOMAIN t
      BY <1>3, <1>4, <3>1
    <3>3. (i - N) + 1 \in DOMAIN t /\ t[(i - N) + 1] \notin Flags
      BY <1>1, <3>2 DEF GivesValues
    <3>4. N + ((i - N) + 1) = i + 1 /\ r[N + ((i - N) + 1)] = t[(i - N) + 1]
      BY <1>3, <3>1, <3>3
    <3> QED BY <1>3, <3>3, <3>4
  <2> QED BY <1>3, <2>1, <2>2
<1>5. GivesValues(r)
  BY <1>4 DEF GivesValues
<1> QED BY <1>2, <1>5 DEF Neat, r

LEMMA NeatPair ==
  ASSUME NEW F \in SUBSET Flags, NEW flag \in F, NEW v \in Word
  PROVE  Neat(<<flag, v>>, F)
<1>1. flag \in Text /\ v \in Text /\ v \notin Flags
  BY WordsAssumption DEF Word
<1>2. <<flag, v>> \in Seq(Text)
  BY <1>1
<1>3. GivesValues(<<flag, v>>)
  <2> DEFINE r == <<flag, v>>
  <2>1. DOMAIN r = 1..2 /\ r[1] = flag /\ r[2] = v
    OBVIOUS
  <2>2. v \notin VALUED
    BY <1>1, ValuedAreFlags
  <2> HIDE DEF r
  <2>3. \A i \in DOMAIN r : r[i] \in VALUED => i = 1
    BY <2>1, <2>2
  <2>4. ASSUME NEW i \in DOMAIN r, r[i] \in VALUED PROVE i + 1 \in DOMAIN r /\ r[i + 1] \notin Flags
    <3>1. i = 1 /\ i + 1 = 2
      BY <2>3, <2>4
    <3> QED BY <1>1, <2>1, <3>1
  <2>5. GivesValues(r)
    BY <2>4 DEF GivesValues
  <2> QED BY <2>5 DEF r
<1>4. ToSet(<<flag, v>>) \cap Flags \subseteq F
  BY <1>1, SetOfTwo
<1> QED BY <1>2, <1>3, <1>4 DEF Neat

LEMMA NeatFlag ==
  ASSUME NEW F \in SUBSET Flags, NEW flag \in F, flag \notin VALUED
  PROVE  Neat(<<flag>>, F)
<1>1. flag \in Text
  BY WordsAssumption
<1>2. <<flag>> \in Seq(Text)
  BY <1>1
<1>3. GivesValues(<<flag>>)
  <2>1. DOMAIN <<flag>> = 1..1
    OBVIOUS
  <2> QED BY <2>1 DEF GivesValues
<1>4. ToSet(<<flag>>) \cap Flags \subseteq F
  BY SetOfOne
<1> QED BY <1>2, <1>3, <1>4 DEF Neat

LEMMA NeatSwitch ==
  ASSUME NEW F \in SUBSET Flags, NEW flag \in F, flag \notin VALUED, NEW on
  PROVE  Neat(Switch(flag, on), F)
BY NeatFlag, NeatNone DEF Switch

\* Numbers are written as values.
LEMMA NumbersAreWords == \A n \in Numbers : Decimal[n] \in Word
  BY WordsAssumption

LEMMA NeatNum ==
  ASSUME NEW F \in SUBSET Flags, NEW flag \in F, NEW o, IsOption(o, Numbers)
  PROVE  Neat(Num(flag, o), F) /\ Neat(Num(flag, Positive(o)), F)
<1>1. CASE o = None
  BY <1>1, NeatNone DEF Num, Positive
<1>2. CASE o # None
  <2>1. o[1] \in Numbers
    BY <1>2 DEF IsOption
  <2>2. Decimal[o[1]] \in Word
    BY <2>1, NumbersAreWords
  <2> QED BY <1>2, <2>2, NeatPair, NeatNone DEF Num, Positive
<1> QED BY <1>1, <1>2

LEMMA NeatOpt ==
  ASSUME NEW F \in SUBSET Flags, NEW flag \in F, NEW o, IsOption(o, Word)
  PROVE  Neat(Opt(flag, o), F) /\ Neat(Opt(flag, NonBlank(o)), F)
<1>1. CASE o = None
  BY <1>1, NeatNone DEF Opt, NonBlank
<1>2. CASE o # None
  <2>1. o[1] \in Word
    BY <1>2 DEF IsOption
  <2> QED BY <1>2, <2>1, NeatPair, NeatNone DEF Opt, NonBlank
<1> QED BY <1>1, <1>2

LEMMA NotIn ==
  ASSUME NEW s, NEW F, Neat(s, F), NEW flag \in Flags \ F
  PROVE  ~Has(s, flag) /\ Values(s, flag) = <<>>
<1>1. flag \notin ToSet(s) /\ s \in Seq(Text)
  BY DEF Neat
<1> QED BY <1>1, ValuesWithout DEF Has

LEMMA ValuesOfJoined ==
  ASSUME NEW s, NEW t, NEW F, NEW G, Neat(s, F), Neat(t, G), NEW flag \in VALUED
  PROVE  Values(s \o t, flag) = Values(s, flag) \o Values(t, flag)
BY NeatEnds, NeatTyped, ValuesJoined

LEMMA ValuesOfPair ==
  ASSUME NEW flag \in Text, NEW v \in Text
  PROVE  \A f : Values(<<flag, v>>, f) = IF f = flag THEN <<v>> ELSE <<>>
<1> SUFFICES ASSUME NEW f PROVE Values(<<flag, v>>, f) = IF f = flag THEN <<v>> ELSE <<>>
  OBVIOUS
<1>1. /\ <<flag>> \in Seq(Text) /\ <<flag>>[1] = flag /\ <<flag>> # <<>> /\ Len(<<flag>>) = 1
      /\ <<>> \in Seq(Text) /\ Append(<<>>, flag) = <<flag>> /\ Append(<<>>, v) = <<v>>
  OBVIOUS
<1>0. Append(<<flag>>, v) = <<flag, v>>
  BY OneAndOne
<1>2. Values(<<flag>>, f) = <<>>
  <2>1. Values(Append(<<>>, flag), f) = IF EndsIn(<<>>, f) THEN Append(Values(<<>>, f), flag) ELSE Values(<<>>, f)
    BY <1>1, ValuesMore
  <2>2. ~EndsIn(<<>>, f)
    BY DEF EndsIn
  <2> QED BY <1>1, <2>1, <2>2, ValuesNone
<1>3. EndsIn(<<flag>>, f) <=> f = flag
  BY <1>1 DEF EndsIn
<1>4. Values(Append(<<flag>>, v), f) = IF EndsIn(<<flag>>, f) THEN Append(Values(<<flag>>, f), v) ELSE Values(<<flag>>, f)
  BY <1>1, ValuesMore
<1> QED BY <1>0, <1>1, <1>2, <1>3, <1>4

-----------------------------------------------------------------------------
(* The parts of the vector of a launch are neat.                               *)

TypedParams(p) ==
  /\ \A field \in NUMERIC : IsOption(p[field], Numbers)
  /\ \A field \in TEXTUAL : IsOption(p[field], Word)
  /\ \A field \in {"mlock", "no_mmap"} : IsOption(p[field], BOOLEAN)
  /\ IsOption(p.chat_template_override, [flag : {"--chat-template", "--chat-template-file"}, value : Word])
  /\ IsExtra(p.extra_args)
  /\ p.load_flags \in {"Legacy", "LoadMode"}

TypedDef(def) ==
  /\ \A field \in {"n_gpu_layers", "n_cpu_moe"} : IsOption(def[field], Numbers)
  /\ \A field \in {"mlock", "no_mmap"} : IsOption(def[field], BOOLEAN)
  /\ IsOption(def.spec_type, Word)
  /\ IsExtra(def.extra_args)

SERVER_PART == {"-m", "-c", "--host", "--port", "--parallel", "--cache-reuse"}
PLACEMENT_PART == {"--fit-target", "-ngl", "--n-cpu-moe"}
BATCH_PART == {"--ubatch-size", "--batch-size", "--threads", "--threads-batch"}
ATTENTION_PART == {"--flash-attn", "--swa-full", "--cache-prompt", "--split-mode"}
CACHE_PART == {"--cache-type-k", "--cache-type-v"}
PROMPT_PART == {"--chat-template", "--chat-template-file", "--jinja", "--mmproj", "--reasoning",
                "--reasoning-format", "--reasoning-budget", "--temp"}
SPECULATION_PART == {"--spec-type", "--spec-draft-model", "--spec-draft-n-max"}

LEMMA PartsAreFlags ==
  SERVER_PART \cup PLACEMENT_PART \cup LOAD_FLAGS \cup BATCH_PART \cup ATTENTION_PART
    \cup CACHE_PART \cup PROMPT_PART \cup SPECULATION_PART \subseteq Flags
<1>1. /\ SERVER_PART \subseteq MEMORY_FLAGS_WITH_VALUE \cup SERVER_FLAGS
      /\ PLACEMENT_PART \subseteq PLACEMENT_FLAGS \cup SERVER_FLAGS
      /\ LOAD_FLAGS \subseteq MEMORY_FLAGS_WITH_VALUE \cup MEMORY_SWITCHES
      /\ BATCH_PART \subseteq MEMORY_FLAGS_WITH_VALUE \cup SERVER_FLAGS
      /\ ATTENTION_PART \subseteq MEMORY_FLAGS_WITH_VALUE \cup MEMORY_SWITCHES \cup SERVER_FLAGS
      /\ CACHE_PART \subseteq MEMORY_FLAGS_WITH_VALUE
      /\ PROMPT_PART \subseteq SERVER_FLAGS
      /\ SPECULATION_PART \subseteq SERVER_FLAGS
  BY DEF SERVER_PART, PLACEMENT_PART, LOAD_FLAGS, BATCH_PART, ATTENTION_PART, CACHE_PART, PROMPT_PART,
         SPECULATION_PART, MEMORY_FLAGS_WITH_VALUE, MEMORY_SWITCHES, PLACEMENT_FLAGS, SERVER_FLAGS
<1> QED BY <1>1, FlagsAssumption

LEMMA SwitchesAreNotValued ==
  {"--mlock", "--no-mmap", "--swa-full", "--cache-prompt", "--jinja"} \cap VALUED = {}
BY DEF VALUED, MEMORY_FLAGS_WITH_VALUE

LEMMA WrittenAreWords ==
  \A v \in {"model.gguf", "1024", "127.0.0.1", "8080", "on", "off", "deepseek", "0", "none", "0.6", "0.7",
            "0.2", "mlock", "mmap+mlock", "draft-simple"} : v \in Word
<1>1. \A v \in WRITTEN : v \in Word
  BY WordsAssumption
<1> QED BY <1>1 DEF WRITTEN, PATH, MARGIN

LEMMA ServerNeat ==
  ASSUME NEW p, TypedParams(p), NEW context \in Numbers
  PROVE  Neat(ServerArgs(PATH, context, p), SERVER_PART)
<1>1. IsOption(p.parallel, Numbers) /\ IsOption(p.cache_reuse, Numbers)
  BY DEF TypedParams, NUMERIC
<1>2. IsOption(Some(context), Numbers)
  BY DEF IsOption, Some
<1>3. /\ SERVER_PART \in SUBSET Flags
      /\ "-m" \in SERVER_PART /\ "-c" \in SERVER_PART /\ "--host" \in SERVER_PART
      /\ "--port" \in SERVER_PART /\ "--parallel" \in SERVER_PART /\ "--cache-reuse" \in SERVER_PART
  BY PartsAreFlags DEF SERVER_PART
<1>4. PATH \in Word /\ "127.0.0.1" \in Word /\ "8080" \in Word
  BY WrittenAreWords DEF PATH
<1>5. Neat(<<"-m", PATH>>, SERVER_PART)
  BY <1>3, <1>4, NeatPair
<1>6. Neat(Num("-c", Positive(Some(context))), SERVER_PART)
  BY <1>2, <1>3, NeatNum
<1>7. Neat(<<"--host", "127.0.0.1", "--port", "8080">>, SERVER_PART)
  <2>1. Neat(<<"--host", "127.0.0.1">>, SERVER_PART) /\ Neat(<<"--port", "8080">>, SERVER_PART)
    BY <1>3, <1>4, NeatPair
  <2>2. <<"--host", "127.0.0.1", "--port", "8080">> = <<"--host", "127.0.0.1">> \o <<"--port", "8080">>
    BY TwoAndTwo
  <2> QED BY <2>1, <2>2, NeatJoined
<1>8. Neat(Num("--parallel", Positive(p.parallel)), SERVER_PART)
  BY <1>1, <1>3, NeatNum
<1>9. Neat(Num("--cache-reuse", Positive(p.cache_reuse)), SERVER_PART)
  BY <1>1, <1>3, NeatNum
<1> QED BY <1>5, <1>6, <1>7, <1>8, <1>9, NeatJoined DEF ServerArgs

LEMMA TwoMore ==
  ASSUME NEW a, NEW b, NEW c, NEW d, NEW e, NEW f
  PROVE  <<a, b, c, d, e, f>> = <<a, b, c, d>> \o <<e, f>>
OBVIOUS

LEMMA PlacementNeat ==
  ASSUME NEW p, TypedParams(p), NEW def, TypedDef(def)
  PROVE  Neat(Placement(def, p), PLACEMENT_PART)
<1> DEFINE ngl == Or(Positive(p.n_gpu_layers), def.n_gpu_layers)
           ncmoe == UnwrapOr(Or(p.n_cpu_moe, def.n_cpu_moe), 0)
<1>1. /\ IsOption(p.n_gpu_layers, Numbers) /\ IsOption(p.n_cpu_moe, Numbers) /\ IsOption(p.fit_target_mib, Numbers)
      /\ IsOption(def.n_gpu_layers, Numbers) /\ IsOption(def.n_cpu_moe, Numbers)
  BY DEF TypedParams, NUMERIC, TypedDef
<1>2. /\ PLACEMENT_PART \in SUBSET Flags
      /\ "--fit-target" \in PLACEMENT_PART /\ "-ngl" \in PLACEMENT_PART /\ "--n-cpu-moe" \in PLACEMENT_PART
  BY PartsAreFlags DEF PLACEMENT_PART
<1>3. UnwrapOr(ngl, 999) \in Numbers
  BY <1>1, WordsAssumption DEF UnwrapOr, Or, Positive, IsOption, None
<1>4. Decimal[UnwrapOr(ngl, 999)] \in Word
  <2> DEFINE layers == UnwrapOr(ngl, 999)
  <2> HIDE DEF layers
  <2>1. layers \in Numbers
    BY <1>3 DEF layers
  <2>2. Decimal[layers] \in Word
    BY <2>1, NumbersAreWords
  <2> QED BY <2>2 DEF layers
<1>5. Neat(<<"-ngl", Decimal[UnwrapOr(ngl, 999)]>>, PLACEMENT_PART)
  BY <1>2, <1>4, NeatPair
<1>6. Neat(Num("--fit-target", p.fit_target_mib), PLACEMENT_PART)
  BY <1>1, <1>2, NeatNum
<1>7. Neat(Num("--n-cpu-moe", Positive(Some(ncmoe))), PLACEMENT_PART)
  <2>1. CASE Or(p.n_cpu_moe, def.n_cpu_moe) = None
    <3>1. ncmoe = 0
      BY <2>1 DEF UnwrapOr
    <3>2. Positive(Some(0)) = None
      BY DEF Positive, Some, None
    <3>3. Num("--n-cpu-moe", None) = <<>>
      BY DEF Num
    <3> QED BY <3>1, <3>2, <3>3, NeatNone
  <2>2. CASE Or(p.n_cpu_moe, def.n_cpu_moe) # None
    <3>1. ncmoe \in Numbers
      BY <1>1, <2>2 DEF UnwrapOr, Or, IsOption
    <3>2. IsOption(Some(ncmoe), Numbers)
      BY <3>1 DEF IsOption, Some
    <3> QED BY <1>2, <3>2, NeatNum
  <2> QED BY <2>1, <2>2
<1> QED BY <1>5, <1>6, <1>7, NeatJoined DEF Placement

LEMMA LoadNeat ==
  ASSUME NEW lock, NEW noMap, NEW flags \in {"Legacy", "LoadMode"}
  PROVE  Neat(LoadArgs(lock, noMap, flags), LOAD_FLAGS)
<1>1. /\ LOAD_FLAGS \in SUBSET Flags
      /\ "--mlock" \in LOAD_FLAGS /\ "--no-mmap" \in LOAD_FLAGS /\ "--load-mode" \in LOAD_FLAGS
  BY PartsAreFlags DEF LOAD_FLAGS
<1>2. Neat(Switch("--mlock", lock), LOAD_FLAGS) /\ Neat(Switch("--no-mmap", noMap), LOAD_FLAGS)
  BY <1>1, SwitchesAreNotValued, NeatSwitch
<1>3. \A v \in {"mlock", "none", "mmap+mlock"} : Neat(<<"--load-mode", v>>, LOAD_FLAGS)
  BY <1>1, WrittenAreWords, NeatPair
<1>4. CASE flags = "Legacy"
  BY <1>2, <1>4, NeatJoined DEF LoadArgs
<1>5. CASE flags = "LoadMode"
  <2>1. CASE noMap
    <3>1. LoadArgs(lock, noMap, flags) = <<"--load-mode", IF lock THEN "mlock" ELSE "none">>
      BY <1>5, <2>1 DEF LoadArgs
    <3> QED BY <1>3, <3>1
  <2>2. CASE ~noMap
    <3>1. LoadArgs(lock, noMap, flags) = IF lock THEN <<"--load-mode", "mmap+mlock">> ELSE <<>>
      BY <1>5, <2>2 DEF LoadArgs
    <3> QED BY <1>3, <3>1, NeatNone
  <2> QED BY <2>1, <2>2
<1> QED BY <1>4, <1>5

LEMMA BatchNeat ==
  ASSUME NEW p, TypedParams(p)
  PROVE  Neat(BatchArgs(p), BATCH_PART)
<1>1. /\ IsOption(p.ubatch_size, Numbers) /\ IsOption(p.batch_size, Numbers)
      /\ IsOption(p.threads, Numbers) /\ IsOption(p.threads_batch, Numbers)
  BY DEF TypedParams, NUMERIC
<1>2. /\ BATCH_PART \in SUBSET Flags
      /\ "--ubatch-size" \in BATCH_PART /\ "--batch-size" \in BATCH_PART
      /\ "--threads" \in BATCH_PART /\ "--threads-batch" \in BATCH_PART
  BY PartsAreFlags DEF BATCH_PART
<1>3. /\ Neat(Num("--ubatch-size", Positive(p.ubatch_size)), BATCH_PART)
      /\ Neat(Num("--batch-size", Positive(p.batch_size)), BATCH_PART)
      /\ Neat(Num("--threads", Positive(p.threads)), BATCH_PART)
      /\ Neat(Num("--threads-batch", Positive(p.threads_batch)), BATCH_PART)
  BY <1>1, <1>2, NeatNum
<1> QED BY <1>3, NeatJoined DEF BatchArgs

LEMMA AttentionNeat ==
  ASSUME NEW p, TypedParams(p), NEW def
  PROVE  Neat(AttentionArgs(def, p), ATTENTION_PART)
<1> DEFINE fa == Or(p.flash_attn, def.flash_attn)
           first == IF fa = None THEN <<>> ELSE <<"--flash-attn", IF fa[1] THEN "on" ELSE "off">>
<1>1. IsOption(p.split_mode, Word)
  BY DEF TypedParams, TEXTUAL
<1>2. /\ ATTENTION_PART \in SUBSET Flags
      /\ "--flash-attn" \in ATTENTION_PART /\ "--swa-full" \in ATTENTION_PART
      /\ "--cache-prompt" \in ATTENTION_PART /\ "--split-mode" \in ATTENTION_PART
  BY PartsAreFlags DEF ATTENTION_PART
<1>3. \A v \in {"on", "off"} : Neat(<<"--flash-attn", v>>, ATTENTION_PART)
  BY <1>2, WrittenAreWords, NeatPair
<1>4. Neat(first, ATTENTION_PART)
  BY <1>3, NeatNone
<1>5. /\ Neat(Switch("--swa-full", p.swa_full), ATTENTION_PART)
      /\ Neat(Switch("--cache-prompt", p.cache_prompt = Some(TRUE)), ATTENTION_PART)
  BY <1>2, SwitchesAreNotValued, NeatSwitch
<1>6. Neat(Opt("--split-mode", NonBlank(p.split_mode)), ATTENTION_PART)
  BY <1>1, <1>2, NeatOpt
<1> QED BY <1>4, <1>5, <1>6, NeatJoined DEF AttentionArgs

LEMMA CacheNeat ==
  ASSUME NEW kv, Lower(kv.k) \in MAINLINE_KV_TYPES \cup TURBO_KV_TYPES,
         Lower(kv.v) \in MAINLINE_KV_TYPES \cup TURBO_KV_TYPES
  PROVE  Neat(CacheArgs(kv), CACHE_PART)
<1>1. CACHE_PART \in SUBSET Flags /\ "--cache-type-k" \in CACHE_PART /\ "--cache-type-v" \in CACHE_PART
  BY PartsAreFlags DEF CACHE_PART
<1>2. Lower(kv.k) \in Word /\ Lower(kv.v) \in Word
  BY WordsAssumption DEF WRITTEN
<1>3. Neat(<<"--cache-type-k", Lower(kv.k)>>, CACHE_PART) /\ Neat(<<"--cache-type-v", Lower(kv.v)>>, CACHE_PART)
  BY <1>1, <1>2, NeatPair
<1>4. CacheArgs(kv) = <<"--cache-type-k", Lower(kv.k)>> \o <<"--cache-type-v", Lower(kv.v)>>
  BY TwoAndTwo DEF CacheArgs
<1> QED BY <1>3, <1>4, NeatJoined

LEMMA PromptNeat ==
  ASSUME NEW p, TypedParams(p), NEW def
  PROVE  Neat(PromptArgs(def, p), PROMPT_PART)
<1>1. /\ PROMPT_PART \in SUBSET Flags
      /\ "--chat-template" \in PROMPT_PART /\ "--chat-template-file" \in PROMPT_PART /\ "--jinja" \in PROMPT_PART
      /\ "--mmproj" \in PROMPT_PART /\ "--reasoning" \in PROMPT_PART /\ "--reasoning-format" \in PROMPT_PART
      /\ "--reasoning-budget" \in PROMPT_PART /\ "--temp" \in PROMPT_PART
  BY PartsAreFlags DEF PROMPT_PART
<1>2. \A parser : Neat(ChatTemplateArgs(parser, p.chat_template_override), PROMPT_PART)
  <2> TAKE parser
  <2> DEFINE over == p.chat_template_override
  <2>1. IsOption(over, [flag : {"--chat-template", "--chat-template-file"}, value : Word])
    BY DEF TypedParams
  <2>2. CASE over # None
    <3>1. over[1] \in [flag : {"--chat-template", "--chat-template-file"}, value : Word]
      BY <2>1, <2>2 DEF IsOption
    <3>2. over[1].flag \in PROMPT_PART /\ over[1].value \in Word
      BY <1>1, <3>1
    <3>3. Neat(<<over[1].flag, over[1].value>>, PROMPT_PART)
      BY <1>1, <3>2, NeatPair
    <3> QED BY <2>2, <3>3 DEF ChatTemplateArgs
  <2>3. CASE over = None
    <3>1. Neat(<<"--jinja">>, PROMPT_PART)
      BY <1>1, SwitchesAreNotValued, NeatFlag
    <3>2. CASE parser \in KNOWN_PARSERS \ {"none"}
      <4>1. ChatTemplateArgs(parser, over) = <<"--jinja">>
        BY <2>3, <3>2 DEF ChatTemplateArgs
      <4> QED BY <3>1, <4>1
    <3>3. CASE parser \notin KNOWN_PARSERS \ {"none"}
      <4>1. ChatTemplateArgs(parser, over) = <<>>
        BY <2>3, <3>3 DEF ChatTemplateArgs
      <4> QED BY <4>1, NeatNone
    <3> QED BY <3>2, <3>3
  <2> QED BY <2>2, <2>3
<1>3. Neat(Opt("--mmproj", NonBlank(p.vision_module_path)), PROMPT_PART)
  <2>1. IsOption(p.vision_module_path, Word)
    BY DEF TypedParams, TEXTUAL
  <2> QED BY <1>1, <2>1, NeatOpt
<1>4. \A policy : Neat(ReasoningArgs(policy), PROMPT_PART)
  <2>1. /\ Neat(<<"--reasoning", "on">>, PROMPT_PART) /\ Neat(<<"--reasoning", "off">>, PROMPT_PART)
        /\ Neat(<<"--reasoning-format", "deepseek">>, PROMPT_PART)
        /\ Neat(<<"--reasoning-format", "none">>, PROMPT_PART)
        /\ Neat(<<"--reasoning-budget", "0">>, PROMPT_PART)
    BY <1>1, WrittenAreWords, NeatPair
  <2>2. Neat(<<"--reasoning", "on", "--reasoning-format", "deepseek">>, PROMPT_PART)
    <3>1. <<"--reasoning", "on", "--reasoning-format", "deepseek">> =
            <<"--reasoning", "on">> \o <<"--reasoning-format", "deepseek">>
      BY TwoAndTwo
    <3> QED BY <2>1, <3>1, NeatJoined
  <2>3. Neat(<<"--reasoning", "off", "--reasoning-budget", "0", "--reasoning-format", "none">>, PROMPT_PART)
    <3>1. <<"--reasoning", "off", "--reasoning-budget", "0">> =
            <<"--reasoning", "off">> \o <<"--reasoning-budget", "0">>
      BY TwoAndTwo
    <3>2. Neat(<<"--reasoning", "off", "--reasoning-budget", "0">>, PROMPT_PART)
      BY <2>1, <3>1, NeatJoined
    <3>3. <<"--reasoning", "off", "--reasoning-budget", "0", "--reasoning-format", "none">> =
            <<"--reasoning", "off", "--reasoning-budget", "0">> \o <<"--reasoning-format", "none">>
      BY TwoMore
    <3> QED BY <2>1, <3>2, <3>3, NeatJoined
  <2> QED BY <2>2, <2>3 DEF ReasoningArgs
<1>5. \A parser, strict : Neat(SamplerArgs(parser, strict), PROMPT_PART)
  <2> TAKE parser, strict
  <2>1. \A v \in {"0.6", "0.7", "0.2"} : Neat(<<"--temp", v>>, PROMPT_PART)
    BY <1>1, WrittenAreWords, NeatPair
  <2> DEFINE family == CASE parser = "none" -> <<>>
                         [] parser = "qwen36-think" -> <<"--temp", "0.6">>
                         [] OTHER -> <<"--temp", "0.7">>
             strictly == IF strict THEN <<"--temp", "0.2">> ELSE <<>>
  <2>2. family \in {<<>>, <<"--temp", "0.6">>, <<"--temp", "0.7">>}
    <3>1. CASE parser = "none"
      BY <3>1
    <3>2. CASE parser = "qwen36-think"
      BY <3>2
    <3>3. CASE parser # "none" /\ parser # "qwen36-think"
      BY <3>3
    <3> QED BY <3>1, <3>2, <3>3
  <2>3. Neat(family, PROMPT_PART)
    <3> HIDE DEF family
    <3>1. Neat(<<"--temp", "0.6">>, PROMPT_PART) /\ Neat(<<"--temp", "0.7">>, PROMPT_PART)
      BY <2>1
    <3> QED BY <2>2, <3>1, NeatNone
  <2>4. Neat(strictly, PROMPT_PART)
    BY <2>1, NeatNone
  <2>5. SamplerArgs(parser, strict) = family \o strictly
    BY DEF SamplerArgs
  <2> HIDE DEF family, strictly
  <2> QED BY <2>3, <2>4, <2>5, NeatJoined
<1> QED BY <1>2, <1>3, <1>4, <1>5, NeatJoined DEF PromptArgs

\* What runs speculatively: nothing, a draft model, a type by its draft length, or
\* a type that needs none.
Drafts(p) == NonBlank(p.draft_module_path)
Speculates(def, p) == NonBlank(Or(p.spec_type, def.spec_type))
DraftLength(p) == Num("--spec-draft-n-max", Positive(p.spec_draft_n_max))

LEMMA SpeculationIs ==
  ASSUME NEW def, NEW p, NEW mode
  PROVE  LET said == Speculation(def, p, mode).argv
             type == Speculates(def, p)[1]
         IN \/ said = <<>>
            \/ /\ Drafts(p) # None
               /\ said = <<"--spec-type", "draft-simple", "--spec-draft-model", Drafts(p)[1]>> \o DraftLength(p)
            \/ /\ Speculates(def, p) # None /\ ValidateSpecType(type, mode) = "none"
               /\ said = <<"--spec-type", type>> \o DraftLength(p)
            \/ /\ Speculates(def, p) # None /\ IsNgramSpec(type)
               /\ said = <<"--spec-type", type>>
<1> DEFINE spec == Speculates(def, p)
           draft == Drafts(p)
           nMax == Positive(p.spec_draft_n_max)
           S == Speculation(def, p, mode)
<1>1. CASE draft # None /\ spec # None /\ Lower(spec[1]) # "draft-simple"
  <2>1. S = Failed("SpecTypeConflictsWithDraft")
    BY <1>1 DEF Speculation, Speculates, Drafts
  <2> QED BY <2>1 DEF Failed
<1>2. CASE draft # None /\ (spec = None \/ Lower(spec[1]) = "draft-simple")
  <2>1. S = Ok(<<"--spec-type", "draft-simple", "--spec-draft-model", draft[1]>> \o DraftLength(p))
    BY <1>2 DEF Speculation, Speculates, Drafts, DraftLength
  <2> QED BY <1>2, <2>1 DEF Ok
<1>3. CASE draft = None /\ spec # None /\ nMax # None
  <2>1. S = IF ValidateSpecType(spec[1], mode) # "none" THEN Failed(ValidateSpecType(spec[1], mode))
            ELSE Ok(<<"--spec-type", spec[1]>> \o DraftLength(p))
    BY <1>3 DEF Speculation, Speculates, Drafts, DraftLength
  <2> QED BY <1>3, <2>1 DEF Ok, Failed
<1>4. CASE draft = None /\ (spec = None \/ nMax = None)
  <2>1. S = Ok(IF spec # None /\ IsNgramSpec(spec[1]) THEN <<"--spec-type", spec[1]>> ELSE <<>>)
    BY <1>4 DEF Speculation, Speculates, Drafts
  <2> QED BY <2>1 DEF Ok
<1> QED BY <1>1, <1>2, <1>3, <1>4

LEMMA SpeculationSays ==
  ASSUME NEW p, TypedParams(p), NEW def, TypedDef(def), NEW mode
  PROVE  LET said == Speculation(def, p, mode).argv
             types == Values(said, "--spec-type")
         IN /\ Neat(said, SPECULATION_PART)
            /\ Len(types) <= 1
            /\ Has(said, "--spec-draft-model") => types = <<"draft-simple">>
            /\ mode = "turboquant" => \A type \in ToSet(types) : Lower(type) \notin MTP_SPEC_TYPES
<1> DEFINE said == Speculation(def, p, mode).argv
           types == Values(said, "--spec-type")
           spec == Speculates(def, p)
           draft == Drafts(p)
<1>1. /\ IsOption(p.spec_type, Word) /\ IsOption(def.spec_type, Word) /\ IsOption(p.draft_module_path, Word)
      /\ IsOption(p.spec_draft_n_max, Numbers)
  BY DEF TypedParams, TypedDef, TEXTUAL, NUMERIC
<1>2. /\ SPECULATION_PART \in SUBSET Flags /\ "--spec-type" \in SPECULATION_PART
      /\ "--spec-draft-model" \in SPECULATION_PART /\ "--spec-draft-n-max" \in SPECULATION_PART
      /\ "--spec-type" \in VALUED
  BY PartsAreFlags DEF SPECULATION_PART, VALUED
<1>3. /\ Neat(DraftLength(p), SPECULATION_PART)
      /\ Neat(DraftLength(p), {"--spec-draft-n-max"})
      /\ Values(DraftLength(p), "--spec-type") = <<>>
      /\ ~Has(DraftLength(p), "--spec-draft-model")
  <2>1. {"--spec-draft-n-max"} \in SUBSET Flags /\ "--spec-draft-n-max" \in {"--spec-draft-n-max"}
    BY <1>2
  <2>2. Neat(DraftLength(p), {"--spec-draft-n-max"})
    BY <1>1, <2>1, NeatNum DEF DraftLength
  <2>3. "--spec-type" \in Flags \ {"--spec-draft-n-max"} /\ "--spec-draft-model" \in Flags \ {"--spec-draft-n-max"}
    BY <1>2
  <2>4. Values(DraftLength(p), "--spec-type") = <<>>
    BY <2>2, <2>3, NotIn
  <2>5. ~Has(DraftLength(p), "--spec-draft-model")
    BY <2>2, <2>3, NotIn
  <2>6. {"--spec-draft-n-max"} \subseteq SPECULATION_PART
    BY <1>2
  <2> QED BY <2>2, <2>4, <2>5, <2>6, NeatMore
<1>4. \A type \in Word : /\ Neat(<<"--spec-type", type>>, SPECULATION_PART)
                         /\ Neat(<<"--spec-type", type>>, {"--spec-type"})
                         /\ Values(<<"--spec-type", type>>, "--spec-type") = <<type>>
                         /\ ~Has(<<"--spec-type", type>>, "--spec-draft-model")
  <2> TAKE type \in Word
  <2>1. {"--spec-type"} \in SUBSET Flags /\ "--spec-type" \in {"--spec-type"}
    BY <1>2
  <2>2. Neat(<<"--spec-type", type>>, {"--spec-type"})
    BY <2>1, NeatPair
  <2>3. "--spec-type" \in Text /\ type \in Text
    BY <1>2, WordsAssumption DEF Word
  <2>4. Values(<<"--spec-type", type>>, "--spec-type") = <<type>>
    BY <2>3, ValuesOfPair
  <2>5. "--spec-draft-model" \in Flags \ {"--spec-type"}
    BY <1>2
  <2>6. ~Has(<<"--spec-type", type>>, "--spec-draft-model")
    BY <2>2, <2>5, NotIn
  <2>7. {"--spec-type"} \subseteq SPECULATION_PART
    BY <1>2
  <2> QED BY <2>2, <2>4, <2>6, <2>7, NeatMore
<1>5. \A type \in Word : Len(<<type>>) = 1 /\ ToSet(<<type>>) = {type} /\ <<type>> \in Seq(Word) /\ <<type>> \o <<>> = <<type>>
  BY SetOfOne
<1>6. \A type \in Word : LET a == <<"--spec-type", type>> \o DraftLength(p)
                         IN /\ Neat(a, SPECULATION_PART) /\ Values(a, "--spec-type") = <<type>>
                            /\ ~Has(a, "--spec-draft-model")
  <2> TAKE type \in Word
  <2>1. Neat(<<"--spec-type", type>> \o DraftLength(p), SPECULATION_PART)
    BY <1>3, <1>4, NeatJoined
  <2>2. Values(<<"--spec-type", type>> \o DraftLength(p), "--spec-type") = <<type>> \o <<>>
    BY <1>2, <1>3, <1>4, ValuesOfJoined
  <2>3. ToSet(<<"--spec-type", type>> \o DraftLength(p)) = ToSet(<<"--spec-type", type>>) \cup ToSet(DraftLength(p))
    <3>1. <<"--spec-type", type>> \in Seq(Text) /\ DraftLength(p) \in Seq(Text)
      BY <1>3, <1>4, NeatTyped
    <3> QED BY <3>1, SetOfJoined
  <2>4. ~Has(<<"--spec-type", type>> \o DraftLength(p), "--spec-draft-model")
    BY <1>3, <1>4, <2>3 DEF Has
  <2> QED BY <1>5, <2>1, <2>2, <2>4
<1>7. ASSUME spec # None PROVE spec[1] \in Word /\ spec[1] \notin Blank
  BY <1>1, <1>7 DEF IsOption, Speculates, NonBlank, Or
<1>8. ASSUME draft # None PROVE draft[1] \in Word
  BY <1>1, <1>8 DEF IsOption, Drafts, NonBlank
<1>9. CASE said = <<>>
  <2>1. Neat(<<>>, SPECULATION_PART) /\ Values(<<>>, "--spec-type") = <<>> /\ ToSet(<<>>) = {} /\ Len(<<>>) = 0
    BY NeatNone, ValuesNone DEF ToSet
  <2> QED BY <1>9, <2>1 DEF Has
<1>10. CASE draft # None
            /\ said = <<"--spec-type", "draft-simple", "--spec-draft-model", draft[1]>> \o DraftLength(p)
  <2> DEFINE first == <<"--spec-type", "draft-simple">>
             second == <<"--spec-draft-model", draft[1]>>
  <2>1. "draft-simple" \in Word
    BY WrittenAreWords
  <2>2. /\ Neat(first, SPECULATION_PART) /\ Values(first, "--spec-type") = <<"draft-simple">>
    BY <1>4, <2>1
  <2>3. draft[1] \in Word /\ draft[1] \in Text
    BY <1>8, <1>10 DEF Word
  <2>4. Neat(second, SPECULATION_PART)
    <3> HIDE DEF draft
    <3> QED BY <1>2, <2>3, NeatPair
  <2>5. Values(second, "--spec-type") = <<>>
    <3> HIDE DEF draft
    <3>1. "--spec-draft-model" \in Text
      BY <1>2, WordsAssumption
    <3> QED BY <2>3, <3>1, ValuesOfPair
  <2> HIDE DEF first, second
  <2>6. said = (first \o second) \o DraftLength(p)
    <3> HIDE DEF draft
    <3> QED BY <1>10, TwoAndTwo DEF first, second
  <2> HIDE DEF said
  <2>7. Neat(first \o second, SPECULATION_PART)
    BY <2>2, <2>4, NeatJoined
  <2>8. Values(first \o second, "--spec-type") = <<"draft-simple">> \o <<>>
    BY <1>2, <2>2, <2>4, <2>5, ValuesOfJoined
  <2>9. Neat(said, SPECULATION_PART)
    BY <1>3, <2>6, <2>7, NeatJoined
  <2>10. types = (<<"draft-simple">> \o <<>>) \o <<>>
    <3>1. Values((first \o second) \o DraftLength(p), "--spec-type") =
            Values(first \o second, "--spec-type") \o Values(DraftLength(p), "--spec-type")
      BY <1>2, <1>3, <2>7, ValuesOfJoined
    <3> QED BY <1>3, <2>6, <2>8, <3>1
  <2>11. types = <<"draft-simple">>
    BY <1>5, <2>1, <2>10
  <2>12. Lower("draft-simple") \notin MTP_SPEC_TYPES
    BY WordsAssumption DEF MTP_SPEC_TYPES
  <2> HIDE DEF types
  <2>13. Len(types) <= 1 /\ \A type \in ToSet(types) : Lower(type) \notin MTP_SPEC_TYPES
    BY <1>5, <2>1, <2>11, <2>12
  <2> QED BY <2>9, <2>11, <2>13 DEF said, types
<1>11. ASSUME NEW type \in Word, Neat(said, SPECULATION_PART), types = <<type>>, ~Has(said, "--spec-draft-model"),
              mode = "turboquant" => Lower(type) \notin MTP_SPEC_TYPES
       PROVE  /\ Neat(said, SPECULATION_PART) /\ Len(types) <= 1
              /\ Has(said, "--spec-draft-model") => types = <<"draft-simple">>
              /\ mode = "turboquant" => \A t \in ToSet(types) : Lower(t) \notin MTP_SPEC_TYPES
  <2>1. Len(<<type>>) = 1 /\ ToSet(<<type>>) = {type}
    BY <1>5
  <2> HIDE DEF said, types
  <2> QED BY <1>11, <2>1
<1>12. CASE spec # None /\ ValidateSpecType(spec[1], mode) = "none"
            /\ said = <<"--spec-type", spec[1]>> \o DraftLength(p)
  <2>1. mode = "turboquant" => Lower(spec[1]) \notin MTP_SPEC_TYPES
    BY <1>7, <1>12 DEF ValidateSpecType
  <2>2. /\ Neat(said, SPECULATION_PART) /\ types = <<spec[1]>> /\ ~Has(said, "--spec-draft-model")
        /\ spec[1] \in Word
    <3> HIDE DEF spec
    <3> QED BY <1>6, <1>7, <1>12
  <2> HIDE DEF spec, said, types
  <2> QED BY <1>11, <2>1, <2>2 DEF said, types
<1>13. CASE spec # None /\ IsNgramSpec(spec[1]) /\ said = <<"--spec-type", spec[1]>>
  <2>1. Lower(spec[1]) \notin MTP_SPEC_TYPES
    BY <1>13 DEF IsNgramSpec, MTP_SPEC_TYPES
  <2>2. /\ Neat(said, SPECULATION_PART) /\ types = <<spec[1]>> /\ ~Has(said, "--spec-draft-model")
        /\ spec[1] \in Word
    <3> HIDE DEF spec
    <3> QED BY <1>4, <1>7, <1>13
  <2> HIDE DEF spec, said, types
  <2> QED BY <1>11, <2>1, <2>2 DEF said, types
<1> QED BY <1>9, <1>10, <1>12, <1>13, SpeculationIs

-----------------------------------------------------------------------------
(* The vector as its parts.                                                    *)

LoadPart(def, p) ==
  LoadArgs(UnwrapOr(Or(p.mlock, def.mlock), FALSE), UnwrapOr(Or(p.no_mmap, def.no_mmap), FALSE), p.load_flags)
CachePart(def, p) == CacheArgs(ResolveKvTypes(def, p.kv_k, p.kv_v))
SpeculationPart(def, p, mode) == Speculation(def, p, mode).argv

\* What BuildArgs makes sure of before it builds the vector.
Buildable(def, context, p) ==
  /\ TypedParams(p) /\ TypedDef(def) /\ context \in Numbers
  /\ LET kv == ResolveKvTypes(def, p.kv_k, p.kv_v)
     IN /\ Lower(kv.k) \in MAINLINE_KV_TYPES \cup TURBO_KV_TYPES
        /\ Lower(kv.v) \in MAINLINE_KV_TYPES \cup TURBO_KV_TYPES

\* Ten sequences put together.
Joined(a, b, c, d, e, f, g, h, i, j) == a \o b \o c \o d \o e \o f \o g \o h \o i \o j

\* The parts that the launch writes itself, and two more.
Line(def, context, mode, p, x, y) ==
  Joined(ServerArgs(PATH, context, p), Placement(def, p), LoadPart(def, p), BatchArgs(p),
         AttentionArgs(def, p), CachePart(def, p), PromptArgs(def, p), SpeculationPart(def, p, mode), x, y)
OwnVector(def, context, mode, p) == Line(def, context, mode, p, <<>>, <<>>)

LEMMA VectorIs ==
  ASSUME NEW def, NEW context, NEW mode, NEW p
  PROVE  Vector(def, context, mode, PATH, p) = Line(def, context, mode, p, def.extra_args, p.extra_args)
BY Zenon DEF Vector, LoadPart, CachePart, SpeculationPart, Joined, Line

LEMMA ExtraNeat ==
  ASSUME NEW args, IsExtra(args)
  PROVE  Neat(args, Flags)
BY DEF IsExtra, Neat

LEMMA PartsNeat ==
  ASSUME NEW def, NEW context, NEW mode, NEW p, Buildable(def, context, p)
  PROVE  /\ Neat(ServerArgs(PATH, context, p), SERVER_PART)
         /\ Neat(Placement(def, p), PLACEMENT_PART)
         /\ Neat(LoadPart(def, p), LOAD_FLAGS)
         /\ Neat(BatchArgs(p), BATCH_PART)
         /\ Neat(AttentionArgs(def, p), ATTENTION_PART)
         /\ Neat(CachePart(def, p), CACHE_PART)
         /\ Neat(PromptArgs(def, p), PROMPT_PART)
         /\ Neat(SpeculationPart(def, p, mode), SPECULATION_PART)
         /\ Neat(def.extra_args, Flags)
         /\ Neat(p.extra_args, Flags)
<1>1. TypedParams(p) /\ TypedDef(def) /\ context \in Numbers
  BY DEF Buildable
<1>2. Neat(ServerArgs(PATH, context, p), SERVER_PART) /\ Neat(BatchArgs(p), BATCH_PART)
  BY <1>1, ServerNeat, BatchNeat
<1>3. Neat(Placement(def, p), PLACEMENT_PART) /\ Neat(AttentionArgs(def, p), ATTENTION_PART)
  BY <1>1, PlacementNeat, AttentionNeat
<1>4. Neat(LoadPart(def, p), LOAD_FLAGS)
  <2>1. p.load_flags \in {"Legacy", "LoadMode"}
    BY <1>1 DEF TypedParams
  <2> QED BY <2>1, LoadNeat DEF LoadPart
<1>5. Neat(CachePart(def, p), CACHE_PART)
  BY CacheNeat DEF Buildable, CachePart
<1>6. Neat(PromptArgs(def, p), PROMPT_PART)
  BY <1>1, PromptNeat
<1>7. Neat(SpeculationPart(def, p, mode), SPECULATION_PART)
  BY <1>1, SpeculationSays DEF SpeculationPart
<1>8. Neat(def.extra_args, Flags) /\ Neat(p.extra_args, Flags)
  BY <1>1, ExtraNeat DEF TypedParams, TypedDef
<1> QED BY <1>2, <1>3, <1>4, <1>5, <1>6, <1>7, <1>8

LEMMA TenJoined ==
  ASSUME NEW a, NEW b, NEW c, NEW d, NEW e, NEW f, NEW g, NEW h, NEW i, NEW j,
         Neat(a, Flags), Neat(b, Flags), Neat(c, Flags), Neat(d, Flags), Neat(e, Flags),
         Neat(f, Flags), Neat(g, Flags), Neat(h, Flags), Neat(i, Flags), Neat(j, Flags)
  PROVE  LET v == Joined(a, b, c, d, e, f, g, h, i, j)
         IN /\ Neat(v, Flags)
            /\ ToSet(v) = ToSet(a) \cup ToSet(b) \cup ToSet(c) \cup ToSet(d) \cup ToSet(e)
                            \cup ToSet(f) \cup ToSet(g) \cup ToSet(h) \cup ToSet(i) \cup ToSet(j)
            /\ \A flag \in VALUED :
                 Values(v, flag) =
                   Joined(Values(a, flag), Values(b, flag), Values(c, flag), Values(d, flag), Values(e, flag),
                          Values(f, flag), Values(g, flag), Values(h, flag), Values(i, flag), Values(j, flag))
<1>1. ASSUME NEW x, NEW y, Neat(x, Flags), Neat(y, Flags)
      PROVE  /\ Neat(x \o y, Flags)
             /\ ToSet(x \o y) = ToSet(x) \cup ToSet(y)
             /\ \A flag \in VALUED : Values(x \o y, flag) = Values(x, flag) \o Values(y, flag)
  <2>1. ToSet(x \o y) = ToSet(x) \cup ToSet(y)
    BY <1>1, NeatTyped, SetOfJoined
  <2>2. Neat(x \o y, Flags)
    BY <1>1, NeatJoined
  <2>3. \A flag \in VALUED : Values(x \o y, flag) = Values(x, flag) \o Values(y, flag)
    BY <1>1, ValuesOfJoined
  <2> QED BY <2>1, <2>2, <2>3
<1> DEFINE v2 == a \o b
           v3 == v2 \o c
           v4 == v3 \o d
           v5 == v4 \o e
           v6 == v5 \o f
           v7 == v6 \o g
           v8 == v7 \o h
           v9 == v8 \o i
           v10 == v9 \o j
<1>2. Neat(v2, Flags) /\ Neat(v3, Flags) /\ Neat(v4, Flags) /\ Neat(v5, Flags) /\ Neat(v6, Flags)
      /\ Neat(v7, Flags) /\ Neat(v8, Flags) /\ Neat(v9, Flags) /\ Neat(v10, Flags)
  <2>2. Neat(v2, Flags) BY <1>1
  <2>3. Neat(v3, Flags) BY <1>1, <2>2
  <2>4. Neat(v4, Flags) BY <1>1, <2>3
  <2>5. Neat(v5, Flags) BY <1>1, <2>4
  <2>6. Neat(v6, Flags) BY <1>1, <2>5
  <2>7. Neat(v7, Flags) BY <1>1, <2>6
  <2>8. Neat(v8, Flags) BY <1>1, <2>7
  <2>9. Neat(v9, Flags) BY <1>1, <2>8
  <2>10. Neat(v10, Flags) BY <1>1, <2>9
  <2> QED BY <2>2, <2>3, <2>4, <2>5, <2>6, <2>7, <2>8, <2>9, <2>10
<1>3. /\ ToSet(v2) = ToSet(a) \cup ToSet(b) /\ ToSet(v3) = ToSet(v2) \cup ToSet(c)
      /\ ToSet(v4) = ToSet(v3) \cup ToSet(d) /\ ToSet(v5) = ToSet(v4) \cup ToSet(e)
      /\ ToSet(v6) = ToSet(v5) \cup ToSet(f) /\ ToSet(v7) = ToSet(v6) \cup ToSet(g)
      /\ ToSet(v8) = ToSet(v7) \cup ToSet(h) /\ ToSet(v9) = ToSet(v8) \cup ToSet(i)
      /\ ToSet(v10) = ToSet(v9) \cup ToSet(j)
  <2> HIDE DEF v2, v3, v4, v5, v6, v7, v8, v9, v10
  <2>2. ToSet(v2) = ToSet(a) \cup ToSet(b) BY <1>1 DEF v2
  <2>3. ToSet(v3) = ToSet(v2) \cup ToSet(c) BY <1>1, <1>2 DEF v3
  <2>4. ToSet(v4) = ToSet(v3) \cup ToSet(d) BY <1>1, <1>2 DEF v4
  <2>5. ToSet(v5) = ToSet(v4) \cup ToSet(e) BY <1>1, <1>2 DEF v5
  <2>6. ToSet(v6) = ToSet(v5) \cup ToSet(f) BY <1>1, <1>2 DEF v6
  <2>7. ToSet(v7) = ToSet(v6) \cup ToSet(g) BY <1>1, <1>2 DEF v7
  <2>8. ToSet(v8) = ToSet(v7) \cup ToSet(h) BY <1>1, <1>2 DEF v8
  <2>9. ToSet(v9) = ToSet(v8) \cup ToSet(i) BY <1>1, <1>2 DEF v9
  <2>10. ToSet(v10) = ToSet(v9) \cup ToSet(j) BY <1>1, <1>2 DEF v10
  <2> QED BY <2>2, <2>3, <2>4, <2>5, <2>6, <2>7, <2>8, <2>9, <2>10
<1>4. ToSet(v10) = ToSet(a) \cup ToSet(b) \cup ToSet(c) \cup ToSet(d) \cup ToSet(e)
                     \cup ToSet(f) \cup ToSet(g) \cup ToSet(h) \cup ToSet(i) \cup ToSet(j)
  <2> HIDE DEF v2, v3, v4, v5, v6, v7, v8, v9, v10
  <2> QED BY <1>3, Zenon
<1>5. ASSUME NEW flag \in VALUED
      PROVE  Values(v10, flag) =
               Joined(Values(a, flag), Values(b, flag), Values(c, flag), Values(d, flag), Values(e, flag),
                      Values(f, flag), Values(g, flag), Values(h, flag), Values(i, flag), Values(j, flag))
  <2> HIDE DEF v2, v3, v4, v5, v6, v7, v8, v9, v10
  <2>2. Values(v2, flag) = Values(a, flag) \o Values(b, flag) BY <1>1 DEF v2
  <2>3. Values(v3, flag) = Values(v2, flag) \o Values(c, flag) BY <1>1, <1>2 DEF v3
  <2>4. Values(v4, flag) = Values(v3, flag) \o Values(d, flag) BY <1>1, <1>2 DEF v4
  <2>5. Values(v5, flag) = Values(v4, flag) \o Values(e, flag) BY <1>1, <1>2 DEF v5
  <2>6. Values(v6, flag) = Values(v5, flag) \o Values(f, flag) BY <1>1, <1>2 DEF v6
  <2>7. Values(v7, flag) = Values(v6, flag) \o Values(g, flag) BY <1>1, <1>2 DEF v7
  <2>8. Values(v8, flag) = Values(v7, flag) \o Values(h, flag) BY <1>1, <1>2 DEF v8
  <2>9. Values(v9, flag) = Values(v8, flag) \o Values(i, flag) BY <1>1, <1>2 DEF v9
  <2>10. Values(v10, flag) = Values(v9, flag) \o Values(j, flag) BY <1>1, <1>2 DEF v10
  <2> QED BY <2>2, <2>3, <2>4, <2>5, <2>6, <2>7, <2>8, <2>9, <2>10, Zenon DEF Joined
<1>6. Joined(a, b, c, d, e, f, g, h, i, j) = v10
  BY Zenon DEF Joined
<1> HIDE DEF v10
<1> QED BY <1>2, <1>4, <1>5, <1>6

LEMMA LineParts ==
  ASSUME NEW def, NEW context, NEW mode, NEW p, Buildable(def, context, p),
         NEW x, NEW y, Neat(x, Flags), Neat(y, Flags)
  PROVE  LET v == Line(def, context, mode, p, x, y)
         IN /\ Neat(v, Flags)
            /\ ToSet(v) = ToSet(ServerArgs(PATH, context, p)) \cup ToSet(Placement(def, p)) \cup ToSet(LoadPart(def, p))
                            \cup ToSet(BatchArgs(p)) \cup ToSet(AttentionArgs(def, p)) \cup ToSet(CachePart(def, p))
                            \cup ToSet(PromptArgs(def, p)) \cup ToSet(SpeculationPart(def, p, mode))
                            \cup ToSet(x) \cup ToSet(y)
            /\ \A flag \in VALUED :
                 Values(v, flag) =
                   Joined(Values(ServerArgs(PATH, context, p), flag), Values(Placement(def, p), flag),
                          Values(LoadPart(def, p), flag), Values(BatchArgs(p), flag),
                          Values(AttentionArgs(def, p), flag), Values(CachePart(def, p), flag),
                          Values(PromptArgs(def, p), flag), Values(SpeculationPart(def, p, mode), flag),
                          Values(x, flag), Values(y, flag))
<1>1. /\ SERVER_PART \subseteq Flags /\ PLACEMENT_PART \subseteq Flags /\ LOAD_FLAGS \subseteq Flags
      /\ BATCH_PART \subseteq Flags /\ ATTENTION_PART \subseteq Flags /\ CACHE_PART \subseteq Flags
      /\ PROMPT_PART \subseteq Flags /\ SPECULATION_PART \subseteq Flags
  BY PartsAreFlags
<1>2. /\ Neat(ServerArgs(PATH, context, p), Flags) /\ Neat(Placement(def, p), Flags) /\ Neat(LoadPart(def, p), Flags)
      /\ Neat(BatchArgs(p), Flags) /\ Neat(AttentionArgs(def, p), Flags) /\ Neat(CachePart(def, p), Flags)
      /\ Neat(PromptArgs(def, p), Flags) /\ Neat(SpeculationPart(def, p, mode), Flags)
      /\ Neat(x, Flags) /\ Neat(y, Flags)
  <2>1. \A s, F : Neat(s, F) /\ F \subseteq Flags => Neat(s, Flags)
    BY NeatMore
  <2> QED BY <1>1, <2>1, PartsNeat
<1> DEFINE a == ServerArgs(PATH, context, p)
           b == Placement(def, p)
           c == LoadPart(def, p)
           d == BatchArgs(p)
           e == AttentionArgs(def, p)
           f == CachePart(def, p)
           g == PromptArgs(def, p)
           h == SpeculationPart(def, p, mode)
           i == x
           j == y
           v == Line(def, context, mode, p, x, y)
<1>3. /\ Neat(a, Flags) /\ Neat(b, Flags) /\ Neat(c, Flags) /\ Neat(d, Flags) /\ Neat(e, Flags)
      /\ Neat(f, Flags) /\ Neat(g, Flags) /\ Neat(h, Flags) /\ Neat(i, Flags) /\ Neat(j, Flags)
  BY <1>2
<1>4. v = Joined(a, b, c, d, e, f, g, h, i, j)
  BY DEF Line
<1> HIDE DEF a, b, c, d, e, f, g, h, i, j, v
<1>5. Neat(v, Flags)
  BY <1>3, <1>4, TenJoined
<1>6. ToSet(v) = ToSet(a) \cup ToSet(b) \cup ToSet(c) \cup ToSet(d) \cup ToSet(e)
                   \cup ToSet(f) \cup ToSet(g) \cup ToSet(h) \cup ToSet(i) \cup ToSet(j)
  BY <1>3, <1>4, TenJoined
<1>7. \A flag \in VALUED :
        Values(v, flag) =
          Joined(Values(a, flag), Values(b, flag), Values(c, flag), Values(d, flag), Values(e, flag),
                 Values(f, flag), Values(g, flag), Values(h, flag), Values(i, flag), Values(j, flag))
  BY <1>3, <1>4, TenJoined
<1> QED BY <1>5, <1>6, <1>7 DEF a, b, c, d, e, f, g, h, i, j, v

LEMMA OwnParts ==
  ASSUME NEW def, NEW context, NEW mode, NEW p, Buildable(def, context, p)
  PROVE  LET v == OwnVector(def, context, mode, p)
         IN /\ Neat(v, Flags)
            /\ ToSet(v) = ToSet(ServerArgs(PATH, context, p)) \cup ToSet(Placement(def, p)) \cup ToSet(LoadPart(def, p))
                            \cup ToSet(BatchArgs(p)) \cup ToSet(AttentionArgs(def, p)) \cup ToSet(CachePart(def, p))
                            \cup ToSet(PromptArgs(def, p)) \cup ToSet(SpeculationPart(def, p, mode))
                            \cup ToSet(<<>>) \cup ToSet(<<>>)
            /\ \A flag \in VALUED :
                 Values(v, flag) =
                   Joined(Values(ServerArgs(PATH, context, p), flag), Values(Placement(def, p), flag),
                          Values(LoadPart(def, p), flag), Values(BatchArgs(p), flag),
                          Values(AttentionArgs(def, p), flag), Values(CachePart(def, p), flag),
                          Values(PromptArgs(def, p), flag), Values(SpeculationPart(def, p, mode), flag),
                          Values(<<>>, flag), Values(<<>>, flag))
<1>1. Neat(<<>>, Flags)
  BY NeatNone
<1> QED BY <1>1, LineParts DEF OwnVector

\* The extra arguments stand last.
LEMMA VectorEnds ==
  ASSUME NEW def, NEW context, NEW mode, NEW p, Buildable(def, context, p)
  PROVE  LET own == OwnVector(def, context, mode, p)
             extras == def.extra_args \o p.extra_args
         IN /\ Vector(def, context, mode, PATH, p) = own \o extras
            /\ Neat(own, Flags) /\ Neat(extras, Flags) /\ Neat(Vector(def, context, mode, PATH, p), Flags)
<1> DEFINE own == OwnVector(def, context, mode, p)
           v == Vector(def, context, mode, PATH, p)
           x == def.extra_args
           y == p.extra_args
           o == ServerArgs(PATH, context, p) \o Placement(def, p) \o LoadPart(def, p) \o BatchArgs(p)
                  \o AttentionArgs(def, p) \o CachePart(def, p) \o PromptArgs(def, p) \o SpeculationPart(def, p, mode)
<1>1. Neat(own, Flags)
  BY OwnParts
<1>2. Neat(x, Flags) /\ Neat(y, Flags)
  BY PartsNeat
<1>3. v = (o \o x) \o y
  <2>1. v = Line(def, context, mode, p, x, y)
    BY VectorIs
  <2>2. Line(def, context, mode, p, x, y) = (o \o x) \o y
    BY Zenon DEF Line, Joined
  <2> QED BY <2>1, <2>2, Zenon
<1>4. own = (o \o <<>>) \o <<>>
  BY Zenon DEF OwnVector, Line, Joined
<1>5. o \in Seq(Text)
  <2>1. \A s \in Seq(Text) : \A t \in Seq(Text) : s \o t \in Seq(Text)
    OBVIOUS
  <2>2. /\ ServerArgs(PATH, context, p) \in Seq(Text) /\ Placement(def, p) \in Seq(Text)
        /\ LoadPart(def, p) \in Seq(Text) /\ BatchArgs(p) \in Seq(Text) /\ AttentionArgs(def, p) \in Seq(Text)
        /\ CachePart(def, p) \in Seq(Text) /\ PromptArgs(def, p) \in Seq(Text)
        /\ SpeculationPart(def, p, mode) \in Seq(Text)
    BY PartsNeat, NeatTyped
  <2> QED BY <2>1, <2>2, Zenon
<1> HIDE DEF own, v, x, y, o
<1>6. x \in Seq(Text) /\ y \in Seq(Text)
  BY <1>2, NeatTyped
<1>7. own = o
  BY <1>4, <1>5
<1>8. v = own \o (x \o y)
  BY <1>3, <1>5, <1>6, <1>7
<1>9. Neat(x \o y, Flags)
  BY <1>2, NeatJoined
<1>10. Neat(v, Flags)
  BY <1>1, <1>8, <1>9, NeatJoined
<1> QED BY <1>1, <1>8, <1>9, <1>10 DEF own, v, x, y

\* Which parts cannot have a flag.
LEMMA Elsewhere ==
  ASSUME NEW def, NEW context, NEW mode, NEW p, Buildable(def, context, p), NEW flag \in Flags
  PROVE  /\ flag \notin SERVER_PART =>
              ~Has(ServerArgs(PATH, context, p), flag) /\ Values(ServerArgs(PATH, context, p), flag) = <<>>
         /\ flag \notin PLACEMENT_PART => ~Has(Placement(def, p), flag) /\ Values(Placement(def, p), flag) = <<>>
         /\ flag \notin LOAD_FLAGS => ~Has(LoadPart(def, p), flag) /\ Values(LoadPart(def, p), flag) = <<>>
         /\ flag \notin BATCH_PART => ~Has(BatchArgs(p), flag) /\ Values(BatchArgs(p), flag) = <<>>
         /\ flag \notin ATTENTION_PART => ~Has(AttentionArgs(def, p), flag) /\ Values(AttentionArgs(def, p), flag) = <<>>
         /\ flag \notin CACHE_PART => ~Has(CachePart(def, p), flag) /\ Values(CachePart(def, p), flag) = <<>>
         /\ flag \notin PROMPT_PART => ~Has(PromptArgs(def, p), flag) /\ Values(PromptArgs(def, p), flag) = <<>>
         /\ flag \notin SPECULATION_PART =>
              ~Has(SpeculationPart(def, p, mode), flag) /\ Values(SpeculationPart(def, p, mode), flag) = <<>>
         /\ ~Has(<<>>, flag) /\ Values(<<>>, flag) = <<>>
<1>1. ASSUME NEW s, NEW F, Neat(s, F), flag \notin F
      PROVE  ~Has(s, flag) /\ Values(s, flag) = <<>>
  BY <1>1, NotIn
<1>2. ~Has(<<>>, flag) /\ Values(<<>>, flag) = <<>>
  BY ValuesNone DEF Has, ToSet
<1> QED BY <1>1, <1>2, PartsNeat

LEMMA NothingAround ==
  ASSUME NEW x \in Seq(Text)
  PROVE  /\ Joined(x, <<>>, <<>>, <<>>, <<>>, <<>>, <<>>, <<>>, <<>>, <<>>) = x
         /\ Joined(<<>>, x, <<>>, <<>>, <<>>, <<>>, <<>>, <<>>, <<>>, <<>>) = x
         /\ Joined(<<>>, <<>>, x, <<>>, <<>>, <<>>, <<>>, <<>>, <<>>, <<>>) = x
         /\ Joined(<<>>, <<>>, <<>>, <<>>, <<>>, x, <<>>, <<>>, <<>>, <<>>) = x
         /\ Joined(<<>>, <<>>, <<>>, <<>>, <<>>, <<>>, <<>>, x, <<>>, <<>>) = x
<1>1. x \o <<>> = x /\ <<>> \o x = x /\ <<>> \o <<>> = <<>>
  OBVIOUS
<1> QED BY <1>1 DEF Joined

\* What the launch writes itself has each flag in one part.
LEMMA LoadIsSaid ==
  ASSUME NEW def, NEW context, NEW mode, NEW p, Buildable(def, context, p)
  PROVE  LET v == OwnVector(def, context, mode, p)
         IN /\ \A flag \in LOAD_FLAGS : Has(v, flag) <=> Has(LoadPart(def, p), flag)
            /\ Values(v, "--load-mode") = Values(LoadPart(def, p), "--load-mode")
<1> DEFINE v == OwnVector(def, context, mode, p)
<1>1. \A flag \in LOAD_FLAGS : /\ flag \in Flags
                               /\ flag \notin SERVER_PART \cup PLACEMENT_PART \cup BATCH_PART \cup ATTENTION_PART
                                            \cup CACHE_PART \cup PROMPT_PART \cup SPECULATION_PART
  <2>1. LOAD_FLAGS \subseteq Flags
    BY PartsAreFlags
  <2>2. \A flag \in LOAD_FLAGS :
          flag \notin SERVER_PART \cup PLACEMENT_PART \cup BATCH_PART \cup ATTENTION_PART
                                            \cup CACHE_PART \cup PROMPT_PART \cup SPECULATION_PART
    BY DEF LOAD_FLAGS, SERVER_PART, PLACEMENT_PART, BATCH_PART, ATTENTION_PART, CACHE_PART,
           PROMPT_PART, SPECULATION_PART
  <2> QED BY <2>1, <2>2
<1>2. ASSUME NEW flag \in LOAD_FLAGS PROVE Has(v, flag) <=> Has(LoadPart(def, p), flag)
  <2>1. /\ ~Has(ServerArgs(PATH, context, p), flag) /\ ~Has(Placement(def, p), flag) /\ ~Has(BatchArgs(p), flag)
        /\ ~Has(AttentionArgs(def, p), flag) /\ ~Has(CachePart(def, p), flag) /\ ~Has(PromptArgs(def, p), flag)
        /\ ~Has(SpeculationPart(def, p, mode), flag) /\ ~Has(<<>>, flag)
    BY <1>1, Elsewhere
  <2> QED BY <2>1, OwnParts DEF Has
<1>3. Values(v, "--load-mode") = Values(LoadPart(def, p), "--load-mode")
  <2> DEFINE x == Values(LoadPart(def, p), "--load-mode")
  <2>1. "--load-mode" \in LOAD_FLAGS /\ "--load-mode" \in VALUED
    BY DEF LOAD_FLAGS, VALUED, MEMORY_FLAGS_WITH_VALUE
  <2>2. /\ Values(ServerArgs(PATH, context, p), "--load-mode") = <<>> /\ Values(Placement(def, p), "--load-mode") = <<>>
        /\ Values(BatchArgs(p), "--load-mode") = <<>> /\ Values(AttentionArgs(def, p), "--load-mode") = <<>>
        /\ Values(CachePart(def, p), "--load-mode") = <<>> /\ Values(PromptArgs(def, p), "--load-mode") = <<>>
        /\ Values(SpeculationPart(def, p, mode), "--load-mode") = <<>>
        /\ Values(<<>>, "--load-mode") = <<>>
    <3>1. ASSUME NEW flag \in LOAD_FLAGS
          PROVE  /\ Values(ServerArgs(PATH, context, p), flag) = <<>> /\ Values(Placement(def, p), flag) = <<>>
                 /\ Values(BatchArgs(p), flag) = <<>> /\ Values(AttentionArgs(def, p), flag) = <<>>
                 /\ Values(CachePart(def, p), flag) = <<>> /\ Values(PromptArgs(def, p), flag) = <<>>
                 /\ Values(SpeculationPart(def, p, mode), flag) = <<>>
                 /\ Values(<<>>, flag) = <<>>
      <4>0. /\ flag \in Flags /\ flag \notin SERVER_PART /\ flag \notin PLACEMENT_PART /\ flag \notin BATCH_PART
            /\ flag \notin ATTENTION_PART /\ flag \notin CACHE_PART /\ flag \notin PROMPT_PART
            /\ flag \notin SPECULATION_PART
        BY <1>1
      <4>1. /\ Values(ServerArgs(PATH, context, p), flag) = <<>> /\ Values(Placement(def, p), flag) = <<>>
            /\ Values(BatchArgs(p), flag) = <<>> /\ Values(AttentionArgs(def, p), flag) = <<>>
        BY <4>0, Elsewhere
      <4>2. /\ Values(CachePart(def, p), flag) = <<>> /\ Values(PromptArgs(def, p), flag) = <<>>
            /\ Values(SpeculationPart(def, p, mode), flag) = <<>> /\ Values(<<>>, flag) = <<>>
        BY <4>0, Elsewhere
      <4> QED BY <4>1, <4>2
    <3> QED BY <2>1, <3>1
  <2>3. Values(v, "--load-mode") =
          Joined(<<>>, <<>>, x, <<>>, <<>>, <<>>, <<>>, <<>>, <<>>, <<>>)
    BY <2>1, <2>2, OwnParts
  <2>4. x \in Seq(Text)
    BY PartsNeat, NeatTyped, ValuesTyped
  <2> HIDE DEF x, v
  <2> QED BY <2>3, <2>4, NothingAround DEF x
<1> QED BY <1>2, <1>3

LEMMA CacheIsSaid ==
  ASSUME NEW def, NEW context, NEW mode, NEW p, Buildable(def, context, p)
  PROVE  LET v == OwnVector(def, context, mode, p)
             kv == ResolveKvTypes(def, p.kv_k, p.kv_v)
         IN Values(v, "--cache-type-k") = <<Lower(kv.k)>> /\ Values(v, "--cache-type-v") = <<Lower(kv.v)>>
<1> DEFINE v == OwnVector(def, context, mode, p)
           kv == ResolveKvTypes(def, p.kv_k, p.kv_v)
<1>1. \A flag \in CACHE_PART : /\ flag \in Flags /\ flag \in VALUED
                               /\ flag \notin SERVER_PART \cup PLACEMENT_PART \cup BATCH_PART \cup ATTENTION_PART
                                            \cup LOAD_FLAGS \cup PROMPT_PART \cup SPECULATION_PART
  <2>1. CACHE_PART \subseteq Flags
    BY PartsAreFlags
  <2>2. \A flag \in CACHE_PART :
          /\ flag \in VALUED
          /\ flag \notin SERVER_PART \cup PLACEMENT_PART \cup BATCH_PART \cup ATTENTION_PART
                                            \cup LOAD_FLAGS \cup PROMPT_PART \cup SPECULATION_PART
    BY DEF LOAD_FLAGS, SERVER_PART, PLACEMENT_PART, BATCH_PART, ATTENTION_PART, CACHE_PART,
           PROMPT_PART, SPECULATION_PART, VALUED, MEMORY_FLAGS_WITH_VALUE
  <2> QED BY <2>1, <2>2
<1>2. ASSUME NEW flag \in CACHE_PART PROVE Values(v, flag) = Values(CachePart(def, p), flag)
  <2> DEFINE x == Values(CachePart(def, p), flag)
  <2>2. /\ Values(ServerArgs(PATH, context, p), flag) = <<>> /\ Values(Placement(def, p), flag) = <<>>
        /\ Values(LoadPart(def, p), flag) = <<>> /\ Values(BatchArgs(p), flag) = <<>>
        /\ Values(AttentionArgs(def, p), flag) = <<>> /\ Values(PromptArgs(def, p), flag) = <<>>
        /\ Values(SpeculationPart(def, p, mode), flag) = <<>>
        /\ Values(<<>>, flag) = <<>>
    BY <1>1, Elsewhere
  <2>3. Values(v, flag) =
          Joined(<<>>, <<>>, <<>>, <<>>, <<>>, x, <<>>, <<>>, <<>>, <<>>)
    BY <1>1, <2>2, OwnParts
  <2>4. x \in Seq(Text)
    BY PartsNeat, NeatTyped, ValuesTyped
  <2> HIDE DEF x, v
  <2> QED BY <2>3, <2>4, NothingAround DEF x
<1>3. Lower(kv.k) \in Word /\ Lower(kv.v) \in Word
  BY WordsAssumption DEF WRITTEN, Buildable
<1>4. "--cache-type-k" \in CACHE_PART /\ "--cache-type-v" \in CACHE_PART
  BY DEF CACHE_PART
<1>5. CachePart(def, p) = <<"--cache-type-k", Lower(kv.k)>> \o <<"--cache-type-v", Lower(kv.v)>>
  BY TwoAndTwo DEF CachePart, CacheArgs
<1> HIDE DEF kv
<1>6. ASSUME NEW a \in Word, NEW b \in Word, NEW flag \in CACHE_PART
      PROVE  Values(<<"--cache-type-k", a>> \o <<"--cache-type-v", b>>, flag) =
               IF flag = "--cache-type-k" THEN <<a>> ELSE <<b>>
  <2>1. CACHE_PART \in SUBSET Flags
    BY PartsAreFlags
  <2>2. Neat(<<"--cache-type-k", a>>, CACHE_PART) /\ Neat(<<"--cache-type-v", b>>, CACHE_PART)
    BY <1>4, <2>1, NeatPair
  <2>3. a \in Text /\ b \in Text /\ "--cache-type-k" \in Text /\ "--cache-type-v" \in Text
    BY <1>1, <1>4, WordsAssumption DEF Word
  <2>4. /\ Values(<<"--cache-type-k", a>>, flag) = IF flag = "--cache-type-k" THEN <<a>> ELSE <<>>
        /\ Values(<<"--cache-type-v", b>>, flag) = IF flag = "--cache-type-v" THEN <<b>> ELSE <<>>
    BY <2>3, ValuesOfPair
  <2>5. Values(<<"--cache-type-k", a>> \o <<"--cache-type-v", b>>, flag) =
          Values(<<"--cache-type-k", a>>, flag) \o Values(<<"--cache-type-v", b>>, flag)
    <3> DEFINE x == <<"--cache-type-k", a>>
               y == <<"--cache-type-v", b>>
    <3>1. Neat(x, CACHE_PART) /\ Neat(y, CACHE_PART) /\ flag \in VALUED
      BY <1>1, <2>2
    <3> HIDE DEF x, y
    <3> QED BY <3>1, ValuesOfJoined DEF x, y
  <2>6. flag = "--cache-type-k" \/ flag = "--cache-type-v"
    BY DEF CACHE_PART
  <2>7. <<a>> \o <<>> = <<a>> /\ <<>> \o <<b>> = <<b>>
    BY <2>3
  <2> QED BY <2>4, <2>5, <2>6, <2>7
<1> DEFINE both == <<"--cache-type-k", Lower(kv.k)>> \o <<"--cache-type-v", Lower(kv.v)>>
<1>9. Values(both, "--cache-type-k") = <<Lower(kv.k)>> /\ Values(both, "--cache-type-v") = <<Lower(kv.v)>>
  BY <1>3, <1>4, <1>6
<1> HIDE DEF both, v
<1>7. Values(v, "--cache-type-k") = <<Lower(kv.k)>>
  BY <1>2, <1>4, <1>5, <1>9 DEF both
<1>8. Values(v, "--cache-type-v") = <<Lower(kv.v)>>
  BY <1>2, <1>4, <1>5, <1>9 DEF both
<1> QED BY <1>7, <1>8 DEF kv, v

LEMMA SpeculationIsSaid ==
  ASSUME NEW def, NEW context, NEW mode, NEW p, Buildable(def, context, p)
  PROVE  LET v == OwnVector(def, context, mode, p)
         IN /\ Values(v, "--spec-type") = Values(SpeculationPart(def, p, mode), "--spec-type")
            /\ Has(v, "--spec-draft-model") <=> Has(SpeculationPart(def, p, mode), "--spec-draft-model")
<1> DEFINE v == OwnVector(def, context, mode, p)
<1>1. /\ {"--spec-type", "--spec-draft-model"} \subseteq Flags
      /\ "--spec-type" \in VALUED
      /\ \A flag \in {"--spec-type", "--spec-draft-model"} :
           /\ flag \notin SERVER_PART \cup PLACEMENT_PART \cup BATCH_PART \cup ATTENTION_PART
                            \cup LOAD_FLAGS \cup PROMPT_PART \cup CACHE_PART
  <2>1. {"--spec-type", "--spec-draft-model"} \subseteq Flags
    BY PartsAreFlags DEF SPECULATION_PART
  <2>2. "--spec-type" \in VALUED
    BY DEF VALUED
  <2>3. \A flag \in {"--spec-type", "--spec-draft-model"} :
           /\ flag \notin SERVER_PART \cup PLACEMENT_PART \cup BATCH_PART \cup ATTENTION_PART
                            \cup LOAD_FLAGS \cup PROMPT_PART \cup CACHE_PART
    BY DEF LOAD_FLAGS, SERVER_PART, PLACEMENT_PART, BATCH_PART, ATTENTION_PART, CACHE_PART, PROMPT_PART
  <2> QED BY <2>1, <2>2, <2>3
<1>2. Values(v, "--spec-type") = Values(SpeculationPart(def, p, mode), "--spec-type")
  <2> DEFINE x == Values(SpeculationPart(def, p, mode), "--spec-type")
  <2>2. /\ Values(ServerArgs(PATH, context, p), "--spec-type") = <<>> /\ Values(Placement(def, p), "--spec-type") = <<>>
        /\ Values(LoadPart(def, p), "--spec-type") = <<>> /\ Values(BatchArgs(p), "--spec-type") = <<>>
        /\ Values(AttentionArgs(def, p), "--spec-type") = <<>> /\ Values(PromptArgs(def, p), "--spec-type") = <<>>
        /\ Values(CachePart(def, p), "--spec-type") = <<>>
        /\ Values(<<>>, "--spec-type") = <<>>
    <3>1. ASSUME NEW flag \in Flags, flag \notin SERVER_PART, flag \notin PLACEMENT_PART,
                 flag \notin BATCH_PART, flag \notin ATTENTION_PART, flag \notin LOAD_FLAGS,
                 flag \notin PROMPT_PART, flag \notin CACHE_PART
          PROVE  /\ Values(ServerArgs(PATH, context, p), flag) = <<>> /\ Values(Placement(def, p), flag) = <<>>
                 /\ Values(LoadPart(def, p), flag) = <<>> /\ Values(BatchArgs(p), flag) = <<>>
                 /\ Values(AttentionArgs(def, p), flag) = <<>> /\ Values(PromptArgs(def, p), flag) = <<>>
                 /\ Values(CachePart(def, p), flag) = <<>>
                 /\ Values(<<>>, flag) = <<>>
      <4>1. /\ Values(ServerArgs(PATH, context, p), flag) = <<>> /\ Values(Placement(def, p), flag) = <<>>
            /\ Values(LoadPart(def, p), flag) = <<>> /\ Values(BatchArgs(p), flag) = <<>>
        BY <3>1, Elsewhere
      <4>2. /\ Values(AttentionArgs(def, p), flag) = <<>> /\ Values(PromptArgs(def, p), flag) = <<>>
            /\ Values(CachePart(def, p), flag) = <<>>
        BY <3>1, Elsewhere
      <4>3. Values(<<>>, flag) = <<>>
        BY <3>1, Elsewhere
      <4> QED BY <4>1, <4>2, <4>3
    <3> QED BY <1>1, <3>1
  <2>3. Values(v, "--spec-type") =
          Joined(<<>>, <<>>, <<>>, <<>>, <<>>, <<>>, <<>>, x, <<>>, <<>>)
    BY <1>1, <2>2, OwnParts
  <2>4. x \in Seq(Text)
    BY PartsNeat, NeatTyped, ValuesTyped
  <2> HIDE DEF x, v
  <2> QED BY <2>3, <2>4, NothingAround DEF x
<1>3. Has(v, "--spec-draft-model") <=> Has(SpeculationPart(def, p, mode), "--spec-draft-model")
  <2> DEFINE flag == "--spec-draft-model"
  <2>1. /\ ~Has(ServerArgs(PATH, context, p), flag) /\ ~Has(Placement(def, p), flag) /\ ~Has(LoadPart(def, p), flag)
        /\ ~Has(BatchArgs(p), flag) /\ ~Has(AttentionArgs(def, p), flag) /\ ~Has(CachePart(def, p), flag)
        /\ ~Has(PromptArgs(def, p), flag) /\ ~Has(<<>>, flag)
    BY <1>1, Elsewhere
  <2> QED BY <2>1, OwnParts DEF Has
<1> QED BY <1>2, <1>3

Typed(s) == s \in Seq(Text)

\* A number with its flag.
LEMMA NumSays ==
  ASSUME NEW flag \in Flags, NEW n \in Numbers
  PROVE  /\ Neat(Num(flag, Positive(Some(n))), {flag})
         /\ n > 0 => Values(Num(flag, Positive(Some(n))), flag) = <<Decimal[n]>>
         /\ n <= 0 => Num(flag, Positive(Some(n))) = <<>>
<1>1. IsOption(Some(n), Numbers) /\ {flag} \in SUBSET Flags /\ flag \in {flag}
  BY DEF IsOption, Some
<1>2. Neat(Num(flag, Positive(Some(n))), {flag})
  BY <1>1, NeatNum
<1>3. ASSUME n > 0 PROVE Values(Num(flag, Positive(Some(n))), flag) = <<Decimal[n]>>
  <2>1. Num(flag, Positive(Some(n))) = <<flag, Decimal[n]>>
    BY <1>3 DEF Num, Positive, Some, None
  <2>2. flag \in Text /\ Decimal[n] \in Text
    BY WordsAssumption DEF Word
  <2> QED BY <2>1, <2>2, ValuesOfPair
<1>4. ASSUME n <= 0 PROVE Num(flag, Positive(Some(n))) = <<>>
  <2>1. ~(n > 0)
    BY <1>4, WordsAssumption
  <2> QED BY <2>1 DEF Num, Positive, Some, None
<1> QED BY <1>2, <1>3, <1>4

LEMMA ContextIsSaid ==
  ASSUME NEW def, NEW context, NEW mode, NEW p, Buildable(def, context, p), context > 0
  PROVE  Values(OwnVector(def, context, mode, p), "-c") = <<Decimal[context]>>
<1> DEFINE v == OwnVector(def, context, mode, p)
           a == Values(ServerArgs(PATH, context, p), "-c")
           F == SERVER_PART \ {"-c"}
<1>1. /\ "-c" \in VALUED /\ "-c" \in Flags /\ "-c" \notin F /\ SERVER_PART \in SUBSET Flags /\ F \in SUBSET Flags
      /\ "-m" \in F /\ "--host" \in F /\ "--port" \in F /\ "--parallel" \in F /\ "--cache-reuse" \in F
      /\ "-c" \in SERVER_PART
  BY PartsAreFlags DEF SERVER_PART, VALUED, MEMORY_FLAGS_WITH_VALUE
<1>2. context \in Numbers /\ IsOption(p.parallel, Numbers) /\ IsOption(p.cache_reuse, Numbers)
  BY DEF Buildable, TypedParams, NUMERIC
<1>3. PATH \in Word /\ "127.0.0.1" \in Word /\ "8080" \in Word
  BY WrittenAreWords DEF PATH
<1>4. Neat(<<"-m", PATH>>, F)
  BY <1>1, <1>3, NeatPair
<1>5. Neat(Num("-c", Positive(Some(context))), {"-c"})
      /\ Values(Num("-c", Positive(Some(context))), "-c") = <<Decimal[context]>>
  BY <1>1, <1>2, NumSays
<1>6. Neat(<<"--host", "127.0.0.1", "--port", "8080">>, F)
  <2>1. Neat(<<"--host", "127.0.0.1">>, F) /\ Neat(<<"--port", "8080">>, F)
    BY <1>1, <1>3, NeatPair
  <2>2. <<"--host", "127.0.0.1", "--port", "8080">> = <<"--host", "127.0.0.1">> \o <<"--port", "8080">>
    BY TwoAndTwo
  <2> QED BY <2>1, <2>2, NeatJoined
<1>7. Neat(Num("--parallel", Positive(p.parallel)), F) /\ Neat(Num("--cache-reuse", Positive(p.cache_reuse)), F)
  BY <1>1, <1>2, NeatNum
<1> DEFINE p1 == <<"-m", PATH>>
           p2 == Num("-c", Positive(Some(context)))
           p3 == <<"--host", "127.0.0.1", "--port", "8080">>
           p4 == Num("--parallel", Positive(p.parallel))
           p5 == Num("--cache-reuse", Positive(p.cache_reuse))
<1>8. ServerArgs(PATH, context, p) = p1 \o p2 \o p3 \o p4 \o p5
  BY Zenon DEF ServerArgs
<1>9. Neat(p1, F) /\ Neat(p2, {"-c"}) /\ Neat(p3, F) /\ Neat(p4, F) /\ Neat(p5, F) /\ Values(p2, "-c") = <<Decimal[context]>>
  BY <1>4, <1>5, <1>6, <1>7
<1> HIDE DEF p1, p2, p3, p4, p5, F, a, v
<1>10. a = <<Decimal[context]>>
  <2> DEFINE G == Flags
  <2>1. Neat(p1, G) /\ Neat(p2, G) /\ Neat(p3, G) /\ Neat(p4, G) /\ Neat(p5, G)
    BY <1>1, <1>9, NeatMore
  <2>2. Values(p1, "-c") = <<>> /\ Values(p3, "-c") = <<>> /\ Values(p4, "-c") = <<>> /\ Values(p5, "-c") = <<>>
    BY <1>1, <1>9, NotIn
  <2> DEFINE q2 == p1 \o p2
             q3 == q2 \o p3
             q4 == q3 \o p4
             q5 == q4 \o p5
  <2>3. ASSUME NEW x, NEW y, Neat(x, Flags), Neat(y, Flags)
        PROVE  Neat(x \o y, Flags) /\ Values(x \o y, "-c") = Values(x, "-c") \o Values(y, "-c")
    BY <1>1, <2>3, NeatJoined, ValuesOfJoined
  <2>4. Neat(q2, G) /\ Values(q2, "-c") = <<>> \o <<Decimal[context]>>
    BY <1>9, <2>1, <2>2, <2>3
  <2> HIDE DEF q2
  <2>5. Neat(q3, G) /\ Values(q3, "-c") = Values(q2, "-c") \o <<>>
    BY <2>1, <2>2, <2>3, <2>4
  <2> HIDE DEF q3
  <2>6. Neat(q4, G) /\ Values(q4, "-c") = Values(q3, "-c") \o <<>>
    <3>1. Neat(q3, Flags) /\ Neat(p4, Flags)
      BY <2>1, <2>5
    <3>2. Neat(q3 \o p4, Flags) /\ Values(q3 \o p4, "-c") = Values(q3, "-c") \o Values(p4, "-c")
      BY <2>3, <3>1
    <3> QED BY <2>2, <3>2
  <2> HIDE DEF q4
  <2>10. Neat(q5, G) /\ Values(q5, "-c") = Values(q4, "-c") \o <<>>
    <3>1. Neat(q4, Flags) /\ Neat(p5, Flags)
      BY <2>1, <2>6
    <3>2. Neat(q4 \o p5, Flags) /\ Values(q4 \o p5, "-c") = Values(q4, "-c") \o Values(p5, "-c")
      BY <2>3, <3>1
    <3> QED BY <2>2, <3>2
  <2> HIDE DEF q5
  <2>7. p1 \o p2 \o p3 \o p4 \o p5 = q5
    BY Zenon DEF q2, q3, q4, q5
  <2>8. <<>> \o <<Decimal[context]>> = <<Decimal[context]>> /\ <<Decimal[context]>> \o <<>> = <<Decimal[context]>>
    OBVIOUS
  <2>9. a = Values(q5, "-c")
    BY <1>8, <2>7 DEF a
  <2> QED BY <2>4, <2>5, <2>6, <2>8, <2>9, <2>10
<1>11. Decimal[context] \in Text /\ a \in Seq(Text)
  BY <1>2, <1>10, WordsAssumption DEF Word
<1>12. /\ "-c" \notin PLACEMENT_PART /\ "-c" \notin LOAD_FLAGS /\ "-c" \notin BATCH_PART
       /\ "-c" \notin ATTENTION_PART /\ "-c" \notin CACHE_PART /\ "-c" \notin PROMPT_PART
       /\ "-c" \notin SPECULATION_PART
  BY DEF PLACEMENT_PART, LOAD_FLAGS, BATCH_PART, ATTENTION_PART, CACHE_PART, PROMPT_PART, SPECULATION_PART
<1>13. /\ Values(Placement(def, p), "-c") = <<>> /\ Values(LoadPart(def, p), "-c") = <<>>
       /\ Values(BatchArgs(p), "-c") = <<>> /\ Values(AttentionArgs(def, p), "-c") = <<>>
       /\ Values(CachePart(def, p), "-c") = <<>> /\ Values(PromptArgs(def, p), "-c") = <<>>
       /\ Values(SpeculationPart(def, p, mode), "-c") = <<>> /\ Values(<<>>, "-c") = <<>>
  BY <1>1, <1>12, Elsewhere
<1>14. Values(v, "-c") = Joined(a, <<>>, <<>>, <<>>, <<>>, <<>>, <<>>, <<>>, <<>>, <<>>)
  BY <1>1, <1>13, OwnParts DEF a, v
<1>15. Values(v, "-c") = a
  BY <1>11, <1>14, NothingAround
<1> QED BY <1>10, <1>15 DEF v

\* The placement of a call that gives layers and blocks.
LEMMA PlacementGiven ==
  ASSUME NEW def, TypedDef(def), NEW p, TypedParams(p), NEW layers \in Numbers,
         NEW blocks \in Numbers, blocks \in Nat, p.n_gpu_layers = Some(layers), p.n_cpu_moe = Some(blocks)
  PROVE  /\ layers > 0 => Values(Placement(def, p), "-ngl") = <<Decimal[layers]>>
         /\ layers <= 0 =>
              Values(Placement(def, p), "-ngl") \in {<<>>, <<Decimal[UnwrapOr(def.n_gpu_layers, 999)]>>}
         /\ Values(Placement(def, p), "--n-cpu-moe") = IF blocks = 0 THEN <<>> ELSE <<Decimal[blocks]>>
<1> DEFINE other == UnwrapOr(def.n_gpu_layers, 999)
           count == IF layers > 0 THEN layers ELSE other
           x == <<"-ngl", Decimal[count]>>
           t == Num("--fit-target", p.fit_target_mib)
           y == Num("--n-cpu-moe", Positive(Some(blocks)))
<1>0. layers \in Int
  BY WordsAssumption
<1>1. /\ Some(layers) # None /\ Some(layers)[1] = layers /\ Some(blocks) # None /\ Some(blocks)[1] = blocks
      /\ layers > 0 => Positive(p.n_gpu_layers) = Some(layers)
      /\ layers <= 0 => Positive(p.n_gpu_layers) = None
  BY <1>0 DEF Positive, Some, None
<1>2. UnwrapOr(Or(p.n_cpu_moe, def.n_cpu_moe), 0) = blocks
  BY <1>1 DEF Or, UnwrapOr
<1>3. Placement(def, p) = x \o y \/ (layers <= 0 /\ Placement(def, p) = t \o y)
  <2>1. CASE layers > 0
    <3>1. Or(Positive(p.n_gpu_layers), def.n_gpu_layers) = Some(layers) /\ UnwrapOr(Some(layers), 999) = layers
      BY <1>1, <2>1 DEF Or, UnwrapOr
    <3>2. count = layers
      BY <2>1
    <3> QED BY <1>1, <1>2, <3>1, <3>2 DEF Placement
  <2>2. CASE layers <= 0
    <3>1. Or(Positive(p.n_gpu_layers), def.n_gpu_layers) = def.n_gpu_layers
      BY <1>1, <2>2 DEF Or
    <3>2. count = other
      BY <1>0, <2>2
    <3> DEFINE ngl == Or(Positive(p.n_gpu_layers), def.n_gpu_layers)
               ncmoe == UnwrapOr(Or(p.n_cpu_moe, def.n_cpu_moe), 0)
               byHand == PLACEMENT_ARGS \cap ToSet(def.extra_args \o p.extra_args) # {}
               left == p.auto_fit /\ ngl = None /\ ncmoe <= 0 /\ ~byHand
    <3>3. Placement(def, p) = (IF left THEN t ELSE <<"-ngl", Decimal[UnwrapOr(ngl, 999)]>>)
                                \o Num("--n-cpu-moe", Positive(Some(ncmoe)))
      BY DEF Placement
    <3>4. ngl = def.n_gpu_layers /\ ncmoe = blocks
      BY <1>2, <3>1
    <3> HIDE DEF byHand, left, ngl, ncmoe
    <3>5. Placement(def, p) = (IF left THEN t ELSE <<"-ngl", Decimal[other]>>) \o y
      BY <3>3, <3>4
    <3>6. x = <<"-ngl", Decimal[other]>>
      BY <3>2
    <3> HIDE DEF x, t, y, other, count
    <3>7. Placement(def, p) = x \o y \/ Placement(def, p) = t \o y
      BY <3>5, <3>6
    <3> QED BY <2>2, <3>7
  <2> QED BY <1>0, <2>1, <2>2
<1>4. /\ {"-ngl", "--n-cpu-moe", "--fit-target"} \subseteq Flags
      /\ "-ngl" \in VALUED /\ "--n-cpu-moe" \in VALUED
  BY PartsAreFlags DEF PLACEMENT_PART, VALUED
<1>5. count \in Numbers
  <2>1. IsOption(def.n_gpu_layers, Numbers)
    BY DEF TypedDef
  <2> QED BY <2>1, WordsAssumption DEF UnwrapOr, IsOption, None
<1> HIDE DEF count
<1>6. Neat(x, {"-ngl"}) /\ Values(x, "-ngl") = <<Decimal[count]>>
  <2>1. Decimal[count] \in Word /\ Decimal[count] \in Text /\ "-ngl" \in Text /\ {"-ngl"} \in SUBSET Flags
        /\ "-ngl" \in {"-ngl"}
    BY <1>4, <1>5, WordsAssumption DEF Word
  <2> QED BY <2>1, NeatPair, ValuesOfPair
<1>7. Neat(t, {"--fit-target"})
  <2>1. IsOption(p.fit_target_mib, Numbers) /\ {"--fit-target"} \in SUBSET Flags /\ "--fit-target" \in {"--fit-target"}
    BY <1>4 DEF TypedParams, NUMERIC
  <2> QED BY <2>1, NeatNum
<1>8. /\ Neat(y, {"--n-cpu-moe"})
      /\ blocks > 0 => Values(y, "--n-cpu-moe") = <<Decimal[blocks]>>
      /\ blocks <= 0 => y = <<>>
  BY <1>4, NumSays
<1>9. Values(y, "--n-cpu-moe") = IF blocks = 0 THEN <<>> ELSE <<Decimal[blocks]>>
  BY <1>8, ValuesNone
<1> HIDE DEF x, y, t
<1>10. /\ Values(y, "-ngl") = <<>> /\ Values(x, "--n-cpu-moe") = <<>>
       /\ Values(t, "-ngl") = <<>> /\ Values(t, "--n-cpu-moe") = <<>>
  <2>1. /\ "-ngl" \in Flags \ {"--n-cpu-moe"} /\ "-ngl" \in Flags \ {"--fit-target"}
        /\ "--n-cpu-moe" \in Flags \ {"-ngl"} /\ "--n-cpu-moe" \in Flags \ {"--fit-target"}
    BY <1>4
  <2>2. Values(y, "-ngl") = <<>> BY <1>8, <2>1, NotIn
  <2>3. Values(x, "--n-cpu-moe") = <<>> BY <1>6, <2>1, NotIn
  <2>4. Values(t, "-ngl") = <<>> /\ Values(t, "--n-cpu-moe") = <<>> BY <1>7, <2>1, NotIn
  <2> QED BY <2>2, <2>3, <2>4
<1>11. ASSUME NEW flag \in {"-ngl", "--n-cpu-moe"}
       PROVE  /\ Values(x \o y, flag) = Values(x, flag) \o Values(y, flag)
              /\ Values(t \o y, flag) = Values(t, flag) \o Values(y, flag)
  <2>1. flag \in VALUED
    BY <1>4
  <2> QED BY <1>6, <1>7, <1>8, <2>1, ValuesOfJoined
<1>12. \A v : <<v>> \o <<>> = <<v>> /\ <<>> \o <<v>> = <<v>>
  OBVIOUS
<1>13. <<>> \o <<>> = <<>>
  OBVIOUS
<1>14. /\ Values(x \o y, "-ngl") = <<Decimal[count]>> /\ Values(t \o y, "-ngl") = <<>>
  BY <1>6, <1>10, <1>11, <1>12, <1>13
<1>15. \A q \in {x, t} : Values(q \o y, "--n-cpu-moe") = IF blocks = 0 THEN <<>> ELSE <<Decimal[blocks]>>
  BY <1>9, <1>10, <1>11, <1>12, <1>13
<1>16. (layers > 0 => count = layers) /\ (layers <= 0 => count = other)
  BY <1>0 DEF count
<1>17. layers > 0 => ~(layers <= 0)
  BY <1>0
<1> HIDE DEF other
<1>18. layers > 0 => Values(Placement(def, p), "-ngl") = <<Decimal[layers]>>
  BY <1>3, <1>14, <1>16, <1>17
<1>19. layers <= 0 => Values(Placement(def, p), "-ngl") \in {<<>>, <<Decimal[other]>>}
  BY <1>3, <1>14, <1>16
<1>20. Values(Placement(def, p), "--n-cpu-moe") = IF blocks = 0 THEN <<>> ELSE <<Decimal[blocks]>>
  BY <1>3, <1>15
<1> QED BY <1>18, <1>19, <1>20 DEF other

\* A placement is either given or left to the server.
Placed(def, p) ==
  <<"-ngl", Decimal[UnwrapOr(Or(Positive(p.n_gpu_layers), def.n_gpu_layers), 999)]>>
    \o Num("--n-cpu-moe", Positive(Some(UnwrapOr(Or(p.n_cpu_moe, def.n_cpu_moe), 0))))

LEMMA PlacementIs ==
  ASSUME NEW def, TypedDef(def), NEW p, TypedParams(p)
  PROVE  /\ Has(Placed(def, p), "-ngl") /\ Neat(Placed(def, p), {"-ngl", "--n-cpu-moe"})
         /\ ~p.auto_fit => Placement(def, p) = Placed(def, p)
         /\ \/ Placement(def, p) = Placed(def, p)
            \/ /\ p.auto_fit
               /\ PLACEMENT_ARGS \cap ToSet(def.extra_args \o p.extra_args) = {}
               /\ Neat(Placement(def, p), {"--fit-target"})
<1> DEFINE ngl == Or(Positive(p.n_gpu_layers), def.n_gpu_layers)
           ncmoe == UnwrapOr(Or(p.n_cpu_moe, def.n_cpu_moe), 0)
           byHand == PLACEMENT_ARGS \cap ToSet(def.extra_args \o p.extra_args) # {}
           left == p.auto_fit /\ ngl = None /\ ncmoe <= 0 /\ ~byHand
           x == <<"-ngl", Decimal[UnwrapOr(ngl, 999)]>>
           t == Num("--fit-target", p.fit_target_mib)
           y == Num("--n-cpu-moe", Positive(Some(ncmoe)))
<1>1. Placement(def, p) = (IF left THEN t ELSE x) \o y
  BY DEF Placement
<1>2. {"-ngl", "--n-cpu-moe", "--fit-target"} \subseteq Flags
  BY PartsAreFlags DEF PLACEMENT_PART
<1>3. /\ IsOption(p.n_gpu_layers, Numbers) /\ IsOption(p.n_cpu_moe, Numbers) /\ IsOption(p.fit_target_mib, Numbers)
      /\ IsOption(def.n_gpu_layers, Numbers) /\ IsOption(def.n_cpu_moe, Numbers)
  BY DEF TypedParams, NUMERIC, TypedDef
<1>4. Neat(t, {"--fit-target"})
  <2>1. {"--fit-target"} \in SUBSET Flags /\ "--fit-target" \in {"--fit-target"}
    BY <1>2
  <2> QED BY <1>3, <2>1, NeatNum
<1>5. y = <<>> \/ (ncmoe \in Numbers /\ Neat(y, {"--n-cpu-moe"}) /\ (ncmoe <= 0 => y = <<>>))
  <2>1. CASE Or(p.n_cpu_moe, def.n_cpu_moe) = None
    <3>1. ncmoe = 0
      BY <2>1 DEF UnwrapOr
    <3>2. Positive(Some(0)) = None
      BY DEF Positive, Some, None
    <3>3. Num("--n-cpu-moe", None) = <<>>
      BY DEF Num
    <3> QED BY <3>1, <3>2, <3>3
  <2>2. CASE Or(p.n_cpu_moe, def.n_cpu_moe) # None
    <3>1. ncmoe \in Numbers
      BY <1>3, <2>2 DEF UnwrapOr, Or, IsOption
    <3> HIDE DEF ncmoe
    <3> QED BY <1>2, <3>1, NumSays
  <2> QED BY <2>1, <2>2
<1>6. Neat(y, Flags)
  <2> HIDE DEF y
  <2> QED BY <1>2, <1>5, NeatNone, NeatMore
<1>7. Has(x \o y, "-ngl") /\ Neat(x \o y, {"-ngl", "--n-cpu-moe"})
  <2>3. UnwrapOr(ngl, 999) \in Numbers
    BY <1>3, WordsAssumption DEF UnwrapOr, Or, Positive, IsOption, None
  <2> DEFINE layers == UnwrapOr(ngl, 999)
  <2>4. Decimal[UnwrapOr(ngl, 999)] \in Word
    <3>1. layers \in Numbers
      BY <2>3
    <3> HIDE DEF layers
    <3>2. Decimal[layers] \in Word
      BY <3>1, NumbersAreWords
    <3> QED BY <3>2 DEF layers
  <2> HIDE DEF ngl, layers
  <2> DEFINE F == {"-ngl", "--n-cpu-moe"}
  <2>5. Neat(x, F)
    <3>1. F \in SUBSET Flags /\ "-ngl" \in F
      BY <1>2
    <3> HIDE DEF F
    <3> QED BY <2>4, <3>1, NeatPair
  <2>6. "-ngl" \in ToSet(x)
    BY SetOfTwo
  <2> HIDE DEF x, y
  <2>7. ToSet(x \o y) = ToSet(x) \cup ToSet(y)
    BY <1>6, <2>5, NeatTyped, SetOfJoined
  <2>8. Neat(y, F)
    <3>1. {"--n-cpu-moe"} \subseteq F
      OBVIOUS
    <3> QED BY <1>5, <3>1, NeatNone, NeatMore
  <2>9. Neat(x \o y, F)
    BY <2>5, <2>8, NeatJoined
  <2> QED BY <2>6, <2>7, <2>9 DEF Has
<1>8. left => p.auto_fit /\ PLACEMENT_ARGS \cap ToSet(def.extra_args \o p.extra_args) = {} /\ ncmoe <= 0
  OBVIOUS
<1>9. Placement(def, p) = IF left THEN t \o y ELSE x \o y
  BY <1>1
<1>10. left => y = <<>>
  BY <1>5, <1>8
<1>11. t \o <<>> = t
  BY <1>4, NeatTyped, NothingJoined
<1>12. Placed(def, p) = x \o y
  BY DEF Placed
<1> HIDE DEF x, y, t
<1>13. ~p.auto_fit => ~left
  OBVIOUS
<1> HIDE DEF left
<1> QED BY <1>4, <1>7, <1>8, <1>9, <1>10, <1>11, <1>12, <1>13

LEMMA PlacementLeft ==
  ASSUME NEW def, TypedDef(def), NEW p, TypedParams(p), ~Has(Placement(def, p), "-ngl")
  PROVE  /\ p.auto_fit
         /\ PLACEMENT_ARGS \cap ToSet(def.extra_args \o p.extra_args) = {}
         /\ Neat(Placement(def, p), {"--fit-target"})
BY PlacementIs

\* What the launch writes of the placement is in its own part.
LEMMA PlacementIsSaid ==
  ASSUME NEW def, NEW context, NEW mode, NEW p, Buildable(def, context, p)
  PROVE  LET v == OwnVector(def, context, mode, p)
         IN /\ \A flag \in PLACEMENT_ARGS \cup {"--fit-target"} : Has(v, flag) <=> Has(Placement(def, p), flag)
            /\ \A flag \in {"-ngl", "--n-cpu-moe"} : Values(v, flag) = Values(Placement(def, p), flag)
            /\ ToSet(v) \cap PLACEMENT_ARGS \subseteq {"-ngl", "--n-cpu-moe"}
<1> DEFINE v == OwnVector(def, context, mode, p)
           Q == PLACEMENT_ARGS \cup {"--fit-target"}
           rest == SERVER_PART \cup LOAD_FLAGS \cup BATCH_PART \cup ATTENTION_PART \cup CACHE_PART
                     \cup PROMPT_PART \cup SPECULATION_PART
<1>1. Q \subseteq Flags /\ "-ngl" \in VALUED /\ "--n-cpu-moe" \in VALUED /\ {"-ngl", "--n-cpu-moe"} \subseteq Q
  <2>1. Q \subseteq PLACEMENT_FLAGS \cup SERVER_FLAGS
    BY DEF SERVER_FLAGS, PLACEMENT_FLAGS, PLACEMENT_ARGS
  <2> QED BY <2>1, FlagsAssumption DEF VALUED, PLACEMENT_ARGS
<1>2. \A flag \in Q : flag \notin rest
  BY DEF PLACEMENT_ARGS, LOAD_FLAGS, SERVER_PART, BATCH_PART, ATTENTION_PART, CACHE_PART, PROMPT_PART, SPECULATION_PART
<1> HIDE DEF Q, v
<1>3. ASSUME NEW flag \in Q PROVE Has(v, flag) <=> Has(Placement(def, p), flag)
  <2>1. flag \in Flags /\ flag \notin rest
    BY <1>1, <1>2
  <2>2. /\ ~Has(ServerArgs(PATH, context, p), flag) /\ ~Has(LoadPart(def, p), flag) /\ ~Has(BatchArgs(p), flag)
        /\ ~Has(AttentionArgs(def, p), flag) /\ ~Has(CachePart(def, p), flag) /\ ~Has(PromptArgs(def, p), flag)
        /\ ~Has(SpeculationPart(def, p, mode), flag) /\ ~Has(<<>>, flag)
    BY <2>1, Elsewhere
  <2> QED BY <2>2, OwnParts DEF Has, v
<1>4. ASSUME NEW flag \in {"-ngl", "--n-cpu-moe"} PROVE Values(v, flag) = Values(Placement(def, p), flag)
  <2> DEFINE x == Values(Placement(def, p), flag)
  <2>1. flag \in Flags /\ flag \notin rest /\ flag \in VALUED
    BY <1>1, <1>2
  <2>2. /\ Values(ServerArgs(PATH, context, p), flag) = <<>> /\ Values(LoadPart(def, p), flag) = <<>>
        /\ Values(BatchArgs(p), flag) = <<>> /\ Values(AttentionArgs(def, p), flag) = <<>>
        /\ Values(CachePart(def, p), flag) = <<>> /\ Values(PromptArgs(def, p), flag) = <<>>
        /\ Values(SpeculationPart(def, p, mode), flag) = <<>> /\ Values(<<>>, flag) = <<>>
    BY <2>1, Elsewhere
  <2>3. Values(v, flag) = Joined(<<>>, x, <<>>, <<>>, <<>>, <<>>, <<>>, <<>>, <<>>, <<>>)
    BY <2>1, <2>2, OwnParts DEF v
  <2>4. x \in Seq(Text)
    BY PartsNeat, NeatTyped, ValuesTyped
  <2> HIDE DEF x
  <2> QED BY <2>3, <2>4, NothingAround DEF x
<1>5. ToSet(v) \cap PLACEMENT_ARGS \subseteq {"-ngl", "--n-cpu-moe"}
  <2> SUFFICES ASSUME NEW flag \in PLACEMENT_ARGS, Has(v, flag) PROVE flag \in {"-ngl", "--n-cpu-moe"}
    BY DEF Has
  <2>1. flag \in Q /\ flag \in Flags /\ flag # "--fit-target"
    BY <1>1 DEF Q, PLACEMENT_ARGS
  <2>2. Has(Placement(def, p), flag)
    BY <1>3, <2>1
  <2>3. flag \in PLACEMENT_PART
    <3>1. Neat(Placement(def, p), PLACEMENT_PART)
      BY PartsNeat
    <3> QED BY <2>1, <2>2, <3>1, NotIn
  <2> QED BY <2>1, <2>3 DEF PLACEMENT_PART
<1> QED BY <1>3, <1>4, <1>5 DEF v, Q

\* The launch places the model, or leaves it to the server altogether.
LEMMA PlacementIsOnes ==
  ASSUME NEW def, NEW context, NEW mode, NEW p, Buildable(def, context, p)
  PROVE  LET v == OwnVector(def, context, mode, p)
             extras == def.extra_args \o p.extra_args
         IN /\ ~Has(v, "-ngl") => p.auto_fit /\ ToSet(v \o extras) \cap PLACEMENT_ARGS = {}
            /\ Has(v, "-ngl") => Placement(def, p) = Placed(def, p) /\ ~Has(v, "--fit-target")
<1> DEFINE v == OwnVector(def, context, mode, p)
           extras == def.extra_args \o p.extra_args
<1>1. TypedDef(def) /\ TypedParams(p)
  BY DEF Buildable
<1>2. "-ngl" \in PLACEMENT_ARGS /\ "-ngl" \in Flags \ {"--fit-target"} /\ "--fit-target" \in Flags \ {"-ngl", "--n-cpu-moe"}
  BY PartsAreFlags DEF PLACEMENT_PART, PLACEMENT_ARGS
<1>3. Has(v, "-ngl") <=> Has(Placement(def, p), "-ngl")
  BY <1>2, PlacementIsSaid
<1>4. ToSet(v \o extras) = ToSet(v) \cup ToSet(extras)
  <2>1. Neat(v, Flags) /\ Neat(extras, Flags)
    BY VectorEnds
  <2> HIDE DEF v, extras
  <2> QED BY <2>1, NeatTyped, SetOfJoined
<1>5. ASSUME ~Has(v, "-ngl") PROVE p.auto_fit /\ ToSet(v \o extras) \cap PLACEMENT_ARGS = {}
  <2>1. ~Has(Placement(def, p), "-ngl")
    BY <1>3, <1>5
  <2>2. /\ p.auto_fit /\ PLACEMENT_ARGS \cap ToSet(extras) = {}
        /\ Neat(Placement(def, p), {"--fit-target"})
    BY <1>1, <2>1, PlacementLeft
  <2>3. ToSet(v) \cap PLACEMENT_ARGS \subseteq {"-ngl", "--n-cpu-moe"}
    BY PlacementIsSaid
  <2>4. ~Has(v, "--n-cpu-moe")
    <3>1. "--n-cpu-moe" \in PLACEMENT_ARGS /\ "--n-cpu-moe" \in Flags \ {"--fit-target"}
      BY PartsAreFlags DEF PLACEMENT_PART, PLACEMENT_ARGS
    <3>2. ~Has(Placement(def, p), "--n-cpu-moe")
      BY <2>2, <3>1, NotIn
    <3> QED BY <3>1, <3>2, PlacementIsSaid
  <2> HIDE DEF v, extras
  <2>5. ToSet(v) \cap PLACEMENT_ARGS = {}
    BY <1>5, <2>3, <2>4 DEF Has
  <2> QED BY <1>4, <2>2, <2>5
<1>6. ASSUME Has(v, "-ngl") PROVE Placement(def, p) = Placed(def, p) /\ ~Has(v, "--fit-target")
  <2>1. Placement(def, p) = Placed(def, p)
    <3>1. SUFFICES ASSUME Neat(Placement(def, p), {"--fit-target"}) PROVE FALSE
      BY <1>1, PlacementIs
    <3>2. ~Has(Placement(def, p), "-ngl")
      BY <1>2, <3>1, NotIn
    <3> QED BY <1>3, <1>6, <3>2
  <2>2. Neat(Placed(def, p), {"-ngl", "--n-cpu-moe"})
    BY <1>1, PlacementIs
  <2>3. ~Has(Placement(def, p), "--fit-target")
    BY <1>2, <2>1, <2>2, NotIn
  <2> QED BY <2>1, <2>3, PlacementIsSaid
<1> QED BY <1>5, <1>6 DEF v, extras

-----------------------------------------------------------------------------
(* Load flags: what they mean, and the vector without them.                    *)

LEMMA SwitchSays ==
  ASSUME NEW flag \in Flags, flag \notin VALUED, NEW on \in BOOLEAN
  PROVE  Neat(Switch(flag, on), {flag}) /\ (Has(Switch(flag, on), flag) <=> on)
<1>1. {flag} \in SUBSET Flags /\ flag \in {flag}
  OBVIOUS
<1>2. Neat(Switch(flag, on), {flag})
  BY <1>1, NeatSwitch
<1>3. CASE on
  <2>1. Switch(flag, on) = <<flag>>
    BY <1>3 DEF Switch
  <2>2. Has(<<flag>>, flag)
    BY SetOfOne DEF Has
  <2> QED BY <1>2, <1>3, <2>1, <2>2
<1>4. CASE ~on
  <2>1. Switch(flag, on) = <<>>
    BY <1>4 DEF Switch
  <2>2. ~Has(<<>>, flag)
    BY DEF Has, ToSet
  <2> QED BY <1>2, <1>4, <2>1, <2>2
<1> QED BY <1>3, <1>4

LEMMA LoadSays ==
  ASSUME NEW lock \in BOOLEAN, NEW noMap \in BOOLEAN, NEW flags \in {"Legacy", "LoadMode"}
  PROVE  LET args == LoadArgs(lock, noMap, flags)
         IN /\ LocksMemory(args) <=> lock
            /\ MapsMemory(args) <=> ~noMap
            /\ flags = "Legacy" => ~Has(args, "--load-mode")
            /\ flags = "LoadMode" => ~Has(args, "--mlock") /\ ~Has(args, "--no-mmap")
<1> DEFINE args == LoadArgs(lock, noMap, flags)
           modes == Values(args, "--load-mode")
<1>1. /\ {"--mlock", "--no-mmap", "--load-mode"} \subseteq Flags
      /\ "--mlock" \notin VALUED /\ "--no-mmap" \notin VALUED /\ "--load-mode" \in VALUED
  <2>1. {"--mlock", "--no-mmap", "--load-mode"} \subseteq Flags
    BY PartsAreFlags DEF LOAD_FLAGS
  <2> QED BY <2>1, SwitchesAreNotValued DEF VALUED, MEMORY_FLAGS_WITH_VALUE
<1>2. ASSUME flags = "Legacy"
      PROVE  /\ Has(args, "--mlock") <=> lock
             /\ Has(args, "--no-mmap") <=> noMap
             /\ ~Has(args, "--load-mode") /\ modes = <<>>
  <2> DEFINE x == Switch("--mlock", lock)
             y == Switch("--no-mmap", noMap)
             F == {"--mlock", "--no-mmap"}
  <2>1. args = x \o y
    BY <1>2 DEF LoadArgs
  <2>2. /\ Neat(x, {"--mlock"}) /\ (Has(x, "--mlock") <=> lock)
        /\ Neat(y, {"--no-mmap"}) /\ (Has(y, "--no-mmap") <=> noMap)
    BY <1>1, SwitchSays
  <2> HIDE DEF x, y
  <2>3. ~Has(x, "--no-mmap") /\ ~Has(y, "--mlock")
    <3>1. "--no-mmap" \in Flags \ {"--mlock"} /\ "--mlock" \in Flags \ {"--no-mmap"}
      BY <1>1
    <3> QED BY <2>2, <3>1, NotIn
  <2>4. Neat(x \o y, F)
    <3>1. Neat(x, F) /\ Neat(y, F)
      BY <2>2, NeatMore
    <3> QED BY <3>1, NeatJoined
  <2>5. "--load-mode" \in Flags \ F
    BY <1>1
  <2>6. ~Has(x \o y, "--load-mode") /\ Values(x \o y, "--load-mode") = <<>>
    BY <2>4, <2>5, NotIn
  <2>7. ToSet(x \o y) = ToSet(x) \cup ToSet(y)
    BY <2>2, NeatTyped, SetOfJoined
  <2> HIDE DEF args
  <2> QED BY <2>1, <2>2, <2>3, <2>6, <2>7 DEF Has
<1>3. ASSUME flags = "LoadMode"
      PROVE  /\ ~Has(args, "--mlock") /\ ~Has(args, "--no-mmap")
             /\ modes = IF noMap THEN <<IF lock THEN "mlock" ELSE "none">>
                        ELSE IF lock THEN <<"mmap+mlock">> ELSE <<>>
  <2>1. ASSUME NEW m \in {"mlock", "none", "mmap+mlock"}, args = <<"--load-mode", m>>
        PROVE  ~Has(args, "--mlock") /\ ~Has(args, "--no-mmap") /\ modes = <<m>>
    <3>1. m \in Word /\ m \in Text /\ "--load-mode" \in Text
      BY <1>1, WrittenAreWords, WordsAssumption DEF Word
    <3>2. {"--load-mode"} \in SUBSET Flags /\ "--load-mode" \in {"--load-mode"}
          /\ "--mlock" \in Flags \ {"--load-mode"} /\ "--no-mmap" \in Flags \ {"--load-mode"}
      BY <1>1
    <3>3. Neat(<<"--load-mode", m>>, {"--load-mode"}) /\ Values(<<"--load-mode", m>>, "--load-mode") = <<m>>
      BY <3>1, <3>2, NeatPair, ValuesOfPair
    <3>4. ~Has(<<"--load-mode", m>>, "--mlock") /\ ~Has(<<"--load-mode", m>>, "--no-mmap")
      BY <3>2, <3>3, NotIn
    <3> QED BY <2>1, <3>3, <3>4
  <2>2. CASE noMap
    <3> DEFINE m == IF lock THEN "mlock" ELSE "none"
    <3>1. args = <<"--load-mode", m>>
      BY <1>3, <2>2 DEF LoadArgs
    <3>2. m \in {"mlock", "none", "mmap+mlock"}
      OBVIOUS
    <3> HIDE DEF args, modes
    <3>3. ~Has(args, "--mlock") /\ ~Has(args, "--no-mmap") /\ modes = <<m>>
      BY <2>1, <3>1, <3>2
    <3> QED BY <2>2, <3>3
  <2>3. CASE ~noMap /\ lock
    <3>1. args = <<"--load-mode", "mmap+mlock">>
      BY <1>3, <2>3 DEF LoadArgs
    <3> HIDE DEF args, modes
    <3>2. ~Has(args, "--mlock") /\ ~Has(args, "--no-mmap") /\ modes = <<"mmap+mlock">>
      BY <2>1, <3>1
    <3> QED BY <2>3, <3>2
  <2>4. CASE ~noMap /\ ~lock
    <3>1. args = <<>>
      BY <1>3, <2>4 DEF LoadArgs
    <3>2. ~Has(<<>>, "--mlock") /\ ~Has(<<>>, "--no-mmap") /\ Values(<<>>, "--load-mode") = <<>>
      BY ValuesNone DEF Has, ToSet
    <3> QED BY <2>4, <3>1, <3>2
  <2> QED BY <2>2, <2>3, <2>4
<1>4. ToSet(<<>>) = {} /\ ToSet(<<"mlock">>) = {"mlock"} /\ ToSet(<<"none">>) = {"none"}
      /\ ToSet(<<"mmap+mlock">>) = {"mmap+mlock"}
  BY SetOfOne DEF ToSet
<1> HIDE DEF args
<1>5. CASE flags = "Legacy"
  <2>1. ToSet(modes) = {}
    BY <1>2, <1>4, <1>5
  <2> HIDE DEF modes
  <2>2. (LocksMemory(args) <=> lock) /\ (MapsMemory(args) <=> ~noMap)
    BY <1>2, <1>5, <2>1 DEF LocksMemory, MapsMemory, modes
  <2> QED BY <1>2, <1>5, <2>2 DEF args
<1>6. CASE flags = "LoadMode"
  <2>1. ToSet(modes) = IF noMap THEN {IF lock THEN "mlock" ELSE "none"}
                       ELSE IF lock THEN {"mmap+mlock"} ELSE {}
    <3> HIDE DEF modes
    <3>1. CASE noMap /\ lock
      BY <1>3, <1>4, <1>6, <3>1
    <3>2. CASE noMap /\ ~lock
      BY <1>3, <1>4, <1>6, <3>2
    <3>3. CASE ~noMap /\ lock
      BY <1>3, <1>4, <1>6, <3>3
    <3>4. CASE ~noMap /\ ~lock
      BY <1>3, <1>4, <1>6, <3>4
    <3> QED BY <3>1, <3>2, <3>3, <3>4
  <2>2. LocksMemory(args) <=> \E m \in {"mlock", "mmap+mlock"} : m \in ToSet(modes)
    BY <1>3, <1>6 DEF LocksMemory
  <2>3. MapsMemory(args) <=> \A m \in {"none", "mlock"} : m \notin ToSet(modes)
    BY <1>3, <1>6 DEF MapsMemory
  <2> HIDE DEF modes
  <2>4. (LocksMemory(args) <=> lock) /\ (MapsMemory(args) <=> ~noMap)
    BY <2>1, <2>2, <2>3
  <2> QED BY <1>3, <1>6, <2>4 DEF args
<1> QED BY <1>5, <1>6

LEMMA WithoutNone == WithoutLoadFlags(<<>>) = <<>>
<1> DEFINE s == <<>>
           p == [i \in DOMAIN s |-> IF s[i] \in LOAD_FLAGS \/ (i > 1 /\ s[i - 1] = "--load-mode") THEN <<>> ELSE <<s[i]>>]
<1>1. p = <<>>
  OBVIOUS
<1>2. WithoutLoadFlags(s) = FlattenSeq(p)
  BY DEF WithoutLoadFlags
<1> QED BY <1>1, <1>2, FlattenNone

LEMMA WithoutMore ==
  ASSUME NEW T, NEW s \in Seq(T), NEW x \in T
  PROVE  /\ WithoutLoadFlags(Append(s, x)) =
              IF x \in LOAD_FLAGS \/ EndsIn(s, "--load-mode") THEN WithoutLoadFlags(s)
              ELSE Append(WithoutLoadFlags(s), x)
         /\ WithoutLoadFlags(s) \in Seq(T)
<1> DEFINE r == Append(s, x)
           p == [i \in DOMAIN s |-> IF s[i] \in LOAD_FLAGS \/ (i > 1 /\ s[i - 1] = "--load-mode") THEN <<>> ELSE <<s[i]>>]
           q == [i \in DOMAIN r |-> IF r[i] \in LOAD_FLAGS \/ (i > 1 /\ r[i - 1] = "--load-mode") THEN <<>> ELSE <<r[i]>>]
           y == IF x \in LOAD_FLAGS \/ EndsIn(s, "--load-mode") THEN <<>> ELSE <<x>>
<1>1. PICK N \in Nat : /\ Len(s) = N /\ DOMAIN s = 1..N /\ DOMAIN r = 1..(N + 1) /\ r[N + 1] = x
                       /\ \A i \in 1..N : r[i] = s[i] /\ s[i] \in T
  OBVIOUS
<1>2. WithoutLoadFlags(s) = FlattenSeq(p) /\ WithoutLoadFlags(r) = FlattenSeq(q)
  BY DEF WithoutLoadFlags
<1>3. s # <<>> <=> N # 0
  BY <1>1, EmptySeq
<1> HIDE DEF r
<1>4. p \in Seq(Seq(T)) /\ Len(p) = N
  <2>1. \A i \in 1..N : p[i] \in Seq(T)
    BY <1>1
  <2> QED BY <1>1, <2>1
<1>5. y \in Seq(T)
  OBVIOUS
<1>6. q = Append(p, y)
  <2>1. DOMAIN q = 1..(N + 1) /\ q = [i \in DOMAIN q |-> q[i]]
    BY <1>1
  <2>2. \A i \in 1..N : q[i] = p[i]
    BY <1>1
  <2>3. q[N + 1] = y
    <3>1. CASE N = 0
      BY <1>1, <1>3, <3>1 DEF EndsIn
    <3>2. CASE N # 0
      BY <1>1, <1>3, <3>2 DEF EndsIn
    <3> QED BY <3>1, <3>2
  <2> HIDE DEF p, q, y
  <2> QED BY <1>4, <1>5, <2>1, <2>2, <2>3, OneMore
<1> HIDE DEF p, q
<1>7. FlattenSeq(q) = FlattenSeq(p) \o y /\ FlattenSeq(p) \in Seq(T)
  BY <1>4, <1>5, <1>6, FlattenMore
<1>8. \A a \in Seq(T) : a \o <<>> = a /\ a \o <<x>> = Append(a, x)
  OBVIOUS
<1> QED BY <1>2, <1>7, <1>8 DEF r

LEMMA WithoutTyped == \A T : \A s \in Seq(T) : WithoutLoadFlags(s) \in Seq(T)
<1> SUFFICES ASSUME NEW T, NEW s \in Seq(T) PROVE WithoutLoadFlags(s) \in Seq(T)
  OBVIOUS
<1>1. CASE s = <<>>
  BY <1>1, WithoutNone
<1>2. CASE s # <<>>
  <2>1. s[1] \in T
    BY <1>2
  <2> QED BY <2>1, WithoutMore
<1> QED BY <1>1, <1>2

LEMMA WithoutJoined ==
  ASSUME NEW T, NEW s \in Seq(T), NEW t \in Seq(T), ~EndsIn(s, "--load-mode")
  PROVE  WithoutLoadFlags(s \o t) = WithoutLoadFlags(s) \o WithoutLoadFlags(t)
<1> DEFINE W(u) == WithoutLoadFlags(u)
           A == {u \in Seq(T) : W(s \o u) = W(s) \o W(u)}
<1>1. <<>> \in A
  <2>1. s \o <<>> = s /\ <<>> \in Seq(T)
    OBVIOUS
  <2>2. W(s) \in Seq(T)
    BY WithoutTyped
  <2> QED BY <2>1, <2>2, WithoutNone, NothingJoined
<1>2. ASSUME NEW u \in Seq(T), NEW x \in T, u \in A PROVE Append(u, x) \in A
  <2> DEFINE drop == x \in LOAD_FLAGS \/ EndsIn(u, "--load-mode")
  <2>1. s \o Append(u, x) = Append(s \o u, x) /\ s \o u \in Seq(T) /\ Append(u, x) \in Seq(T)
    OBVIOUS
  <2>4. EndsIn(s \o u, "--load-mode") <=> EndsIn(u, "--load-mode")
    <3>1. u = <<>> => ~EndsIn(u, "--load-mode")
      BY DEF EndsIn
    <3>2. EndsIn(s \o u, "--load-mode") <=> IF u = <<>> THEN EndsIn(s, "--load-mode") ELSE EndsIn(u, "--load-mode")
      BY EndOfJoined
    <3> QED BY <3>1, <3>2
  <2>2. W(Append(s \o u, x)) = IF drop THEN W(s \o u) ELSE Append(W(s \o u), x)
    BY <2>1, <2>4, WithoutMore
  <2>3. W(Append(u, x)) = IF drop THEN W(u) ELSE Append(W(u), x)
    BY WithoutMore
  <2>5. W(s \o u) = W(s) \o W(u)
    BY <1>2
  <2>6. Append(W(s) \o W(u), x) = W(s) \o Append(W(u), x)
    <3>1. W(u) \in Seq(T) /\ W(s) \in Seq(T)
      BY WithoutTyped
    <3> HIDE DEF A, W
    <3> QED BY <3>1, AppendJoined
  <2>7. W(s \o Append(u, x)) = W(s) \o W(Append(u, x))
    <3> HIDE DEF W, drop
    <3>1. CASE drop
      BY <2>1, <2>2, <2>3, <2>5, <3>1, Zenon
    <3>2. CASE ~drop
      BY <2>1, <2>2, <2>3, <2>5, <2>6, <3>2, Zenon
    <3> QED BY <3>1, <3>2
  <2> QED BY <2>1, <2>7
<1>3. Seq(T) \subseteq A
  <2> HIDE DEF A
  <2> QED BY <1>1, <1>2, AllSequences
<1> QED BY <1>3

LEMMA WithoutSame ==
  ASSUME NEW T
  PROVE  \A s \in Seq(T) : ToSet(s) \cap LOAD_FLAGS = {} => WithoutLoadFlags(s) = s
<1> DEFINE A == {s \in Seq(T) : ToSet(s) \cap LOAD_FLAGS = {} => WithoutLoadFlags(s) = s}
<1>1. <<>> \in A
  BY WithoutNone, EmptySeq
<1>2. ASSUME NEW s \in Seq(T), NEW x \in T, s \in A PROVE Append(s, x) \in A
  <2>1. Append(s, x) \in Seq(T) /\ ToSet(Append(s, x)) = ToSet(s) \cup {x}
    BY SetOfMore
  <2>2. EndsIn(s, "--load-mode") => "--load-mode" \in ToSet(s) /\ "--load-mode" \in LOAD_FLAGS
    BY EmptySeq DEF EndsIn, ToSet, LOAD_FLAGS
  <2>3. WithoutLoadFlags(Append(s, x)) =
              IF x \in LOAD_FLAGS \/ EndsIn(s, "--load-mode") THEN WithoutLoadFlags(s)
              ELSE Append(WithoutLoadFlags(s), x)
    BY WithoutMore
  <2>4. ToSet(s) \cap LOAD_FLAGS = {} => WithoutLoadFlags(s) = s
    BY <1>2
  <2>5. ToSet(Append(s, x)) \cap LOAD_FLAGS = {} => WithoutLoadFlags(Append(s, x)) = Append(s, x)
    BY <2>1, <2>2, <2>3, <2>4
  <2> QED BY <2>1, <2>5
<1>3. Seq(T) \subseteq A
  <2> HIDE DEF A
  <2> QED BY <1>1, <1>2, AllSequences
<1> QED BY <1>3

LEMMA LoadWithout ==
  ASSUME NEW lock, NEW noMap, NEW flags \in {"Legacy", "LoadMode"}
  PROVE  WithoutLoadFlags(LoadArgs(lock, noMap, flags)) = <<>>
<1> DEFINE args == LoadArgs(lock, noMap, flags)
<1>1. \A x \in LOAD_FLAGS : WithoutLoadFlags(<<x>>) = <<>>
  <2> TAKE x \in LOAD_FLAGS
  <2>1. <<>> \in Seq(LOAD_FLAGS) /\ Append(<<>>, x) = <<x>>
    OBVIOUS
  <2>2. WithoutLoadFlags(Append(<<>>, x)) = WithoutLoadFlags(<<>>)
    BY <2>1, WithoutMore
  <2> QED BY <2>1, <2>2, WithoutNone
<1>2. "--mlock" \in LOAD_FLAGS /\ "--no-mmap" \in LOAD_FLAGS /\ "--load-mode" \in LOAD_FLAGS
  BY DEF LOAD_FLAGS
<1>3. CASE flags = "Legacy"
  <2> DEFINE x == Switch("--mlock", lock)
             y == Switch("--no-mmap", noMap)
  <2>1. args = x \o y
    BY <1>3 DEF LoadArgs
  <2>2. WithoutLoadFlags(x) = <<>> /\ WithoutLoadFlags(y) = <<>>
    BY <1>1, <1>2, WithoutNone DEF Switch
  <2>3. x \in Seq(LOAD_FLAGS) /\ y \in Seq(LOAD_FLAGS)
    <3>1. \A z \in LOAD_FLAGS : <<z>> \in Seq(LOAD_FLAGS) /\ <<>> \in Seq(LOAD_FLAGS)
      OBVIOUS
    <3> QED BY <1>2, <3>1 DEF Switch
  <2>4. ~EndsIn(x, "--load-mode")
    <3>1. Len(<<"--mlock">>) = 1 /\ <<"--mlock">>[1] = "--mlock"
      OBVIOUS
    <3> QED BY <3>1 DEF EndsIn, Switch
  <2> HIDE DEF x, y
  <2>5. WithoutLoadFlags(x \o y) = <<>> \o <<>>
    BY <2>2, <2>3, <2>4, WithoutJoined
  <2>6. <<>> \o <<>> = <<>>
    OBVIOUS
  <2> QED BY <2>1, <2>5, <2>6
<1>4. CASE flags = "LoadMode"
  <2>1. ASSUME NEW m PROVE WithoutLoadFlags(<<"--load-mode", m>>) = <<>>
    <3> DEFINE T == LOAD_FLAGS \cup {m}
    <3>1. "--load-mode" \in T /\ m \in T
      BY <1>2
    <3>2. <<"--load-mode">> \in Seq(T) /\ Len(<<"--load-mode">>) = 1 /\ <<"--load-mode">>[1] = "--load-mode"
          /\ <<"--load-mode">> # <<>>
      BY <3>1
    <3>3. EndsIn(<<"--load-mode">>, "--load-mode")
      BY <3>2 DEF EndsIn
    <3>4. WithoutLoadFlags(Append(<<"--load-mode">>, m)) = WithoutLoadFlags(<<"--load-mode">>)
      BY <3>1, <3>2, <3>3, WithoutMore
    <3>5. Append(<<"--load-mode">>, m) = <<"--load-mode", m>>
      BY OneAndOne
    <3> QED BY <1>1, <1>2, <3>4, <3>5
  <2>2. CASE noMap
    <3>1. args = <<"--load-mode", IF lock THEN "mlock" ELSE "none">>
      BY <1>4, <2>2 DEF LoadArgs
    <3> QED BY <2>1, <3>1
  <2>3. CASE ~noMap
    <3>1. args = IF lock THEN <<"--load-mode", "mmap+mlock">> ELSE <<>>
      BY <1>4, <2>3 DEF LoadArgs
    <3> QED BY <2>1, <3>1, WithoutNone
  <2> QED BY <2>2, <2>3
<1> QED BY <1>3, <1>4

LEMMA TenWithout ==
  ASSUME NEW a, NEW b, NEW c, NEW d, NEW e, NEW f, NEW g, NEW h, NEW i, NEW j,
         Neat(a, Flags), Neat(b, Flags), Neat(c, Flags), Neat(d, Flags), Neat(e, Flags),
         Neat(f, Flags), Neat(g, Flags), Neat(h, Flags), Neat(i, Flags), Neat(j, Flags)
  PROVE  WithoutLoadFlags(Joined(a, b, c, d, e, f, g, h, i, j)) =
           Joined(WithoutLoadFlags(a), WithoutLoadFlags(b), WithoutLoadFlags(c), WithoutLoadFlags(d),
                  WithoutLoadFlags(e), WithoutLoadFlags(f), WithoutLoadFlags(g), WithoutLoadFlags(h),
                  WithoutLoadFlags(i), WithoutLoadFlags(j))
<1> DEFINE W(s) == WithoutLoadFlags(s)
<1>1. ASSUME NEW x, NEW y, Neat(x, Flags), Neat(y, Flags)
      PROVE  Neat(x \o y, Flags) /\ W(x \o y) = W(x) \o W(y)
  <2>1. Neat(x \o y, Flags)
    BY <1>1, NeatJoined
  <2>2. "--load-mode" \in VALUED
    BY DEF VALUED, MEMORY_FLAGS_WITH_VALUE
  <2>3. ~EndsIn(x, "--load-mode") /\ x \in Seq(Text) /\ y \in Seq(Text)
    BY <1>1, <2>2, NeatEnds, NeatTyped
  <2>4. W(x \o y) = W(x) \o W(y)
    BY <2>3, WithoutJoined
  <2> QED BY <2>1, <2>4
<1> HIDE DEF W
<1> DEFINE v2 == a \o b
           v3 == v2 \o c
           v4 == v3 \o d
           v5 == v4 \o e
           v6 == v5 \o f
           v7 == v6 \o g
           v8 == v7 \o h
           v9 == v8 \o i
           v10 == v9 \o j
<1>2. Neat(v2, Flags) /\ W(v2) = W(a) \o W(b)
  BY <1>1
<1> HIDE DEF v2
<1>3. Neat(v3, Flags) /\ W(v3) = W(v2) \o W(c)
  BY <1>1, <1>2
<1> HIDE DEF v3
<1>4. Neat(v4, Flags) /\ W(v4) = W(v3) \o W(d)
  BY <1>1, <1>3
<1> HIDE DEF v4
<1>5. Neat(v5, Flags) /\ W(v5) = W(v4) \o W(e)
  BY <1>1, <1>4
<1> HIDE DEF v5
<1>6. Neat(v6, Flags) /\ W(v6) = W(v5) \o W(f)
  BY <1>1, <1>5
<1> HIDE DEF v6
<1>7. Neat(v7, Flags) /\ W(v7) = W(v6) \o W(g)
  BY <1>1, <1>6
<1> HIDE DEF v7
<1>8. Neat(v8, Flags) /\ W(v8) = W(v7) \o W(h)
  BY <1>1, <1>7
<1> HIDE DEF v8
<1>9. Neat(v9, Flags) /\ W(v9) = W(v8) \o W(i)
  BY <1>1, <1>8
<1> HIDE DEF v9
<1>10. Neat(v10, Flags) /\ W(v10) = W(v9) \o W(j)
  BY <1>1, <1>9
<1> HIDE DEF v10
<1>11. W(v10) = Joined(W(a), W(b), W(c), W(d), W(e), W(f), W(g), W(h), W(i), W(j))
  BY <1>2, <1>3, <1>4, <1>5, <1>6, <1>7, <1>8, <1>9, <1>10, Zenon DEF Joined
<1>12. Joined(a, b, c, d, e, f, g, h, i, j) = v10
  BY Zenon DEF Joined, v2, v3, v4, v5, v6, v7, v8, v9, v10
<1> QED BY <1>11, <1>12 DEF W

\* Without its load flags what the launch writes is its other parts.
LEMMA OwnWithout ==
  ASSUME NEW def, NEW context, NEW mode, NEW p, Buildable(def, context, p)
  PROVE  WithoutLoadFlags(OwnVector(def, context, mode, p)) =
           Joined(ServerArgs(PATH, context, p), Placement(def, p), <<>>, BatchArgs(p), AttentionArgs(def, p),
                  CachePart(def, p), PromptArgs(def, p), SpeculationPart(def, p, mode), <<>>, <<>>)
<1> DEFINE a == ServerArgs(PATH, context, p)
           b == Placement(def, p)
           c == LoadPart(def, p)
           d == BatchArgs(p)
           e == AttentionArgs(def, p)
           f == CachePart(def, p)
           g == PromptArgs(def, p)
           h == SpeculationPart(def, p, mode)
           v == OwnVector(def, context, mode, p)
<1>1. ASSUME NEW s, NEW F, Neat(s, F), F \cap LOAD_FLAGS = {}
      PROVE  WithoutLoadFlags(s) = s
  <2>1. LOAD_FLAGS \subseteq Flags
    BY PartsAreFlags
  <2>2. s \in Seq(Text) /\ ToSet(s) \cap LOAD_FLAGS = {}
    BY <1>1, <2>1 DEF Neat
  <2> QED BY <2>2, WithoutSame
<1>2. /\ SERVER_PART \cap LOAD_FLAGS = {} /\ PLACEMENT_PART \cap LOAD_FLAGS = {} /\ BATCH_PART \cap LOAD_FLAGS = {}
      /\ ATTENTION_PART \cap LOAD_FLAGS = {} /\ CACHE_PART \cap LOAD_FLAGS = {} /\ PROMPT_PART \cap LOAD_FLAGS = {}
      /\ SPECULATION_PART \cap LOAD_FLAGS = {}
  BY DEF LOAD_FLAGS, SERVER_PART, PLACEMENT_PART, BATCH_PART, ATTENTION_PART, CACHE_PART, PROMPT_PART,
         SPECULATION_PART
<1>3. /\ Neat(a, SERVER_PART) /\ Neat(b, PLACEMENT_PART) /\ Neat(c, LOAD_FLAGS) /\ Neat(d, BATCH_PART)
      /\ Neat(e, ATTENTION_PART) /\ Neat(f, CACHE_PART) /\ Neat(g, PROMPT_PART) /\ Neat(h, SPECULATION_PART)
  BY PartsNeat
<1>4. WithoutLoadFlags(c) = <<>>
  <2>1. p.load_flags \in {"Legacy", "LoadMode"}
    BY DEF Buildable, TypedParams
  <2> QED BY <2>1, LoadWithout DEF LoadPart
<1>5. v = Joined(a, b, c, d, e, f, g, h, <<>>, <<>>)
  BY DEF OwnVector, Line
<1> HIDE DEF a, b, c, d, e, f, g, h, v
<1>6. /\ WithoutLoadFlags(a) = a /\ WithoutLoadFlags(b) = b /\ WithoutLoadFlags(d) = d /\ WithoutLoadFlags(e) = e
      /\ WithoutLoadFlags(f) = f /\ WithoutLoadFlags(g) = g /\ WithoutLoadFlags(h) = h
      /\ WithoutLoadFlags(<<>>) = <<>>
  BY <1>1, <1>2, <1>3, WithoutNone
<1>7. /\ Neat(a, Flags) /\ Neat(b, Flags) /\ Neat(c, Flags) /\ Neat(d, Flags) /\ Neat(e, Flags)
      /\ Neat(f, Flags) /\ Neat(g, Flags) /\ Neat(h, Flags) /\ Neat(<<>>, Flags)
  <2>1. \A s, F : Neat(s, F) /\ F \subseteq Flags => Neat(s, Flags)
    BY NeatMore
  <2>2. /\ SERVER_PART \subseteq Flags /\ PLACEMENT_PART \subseteq Flags /\ LOAD_FLAGS \subseteq Flags
        /\ BATCH_PART \subseteq Flags /\ ATTENTION_PART \subseteq Flags /\ CACHE_PART \subseteq Flags
        /\ PROMPT_PART \subseteq Flags /\ SPECULATION_PART \subseteq Flags
    BY PartsAreFlags
  <2> QED BY <1>3, <2>1, <2>2, NeatNone
<1>8. WithoutLoadFlags(v) =
        Joined(WithoutLoadFlags(a), WithoutLoadFlags(b), WithoutLoadFlags(c), WithoutLoadFlags(d),
               WithoutLoadFlags(e), WithoutLoadFlags(f), WithoutLoadFlags(g), WithoutLoadFlags(h),
               WithoutLoadFlags(<<>>), WithoutLoadFlags(<<>>))
  BY <1>5, <1>7, TenWithout
<1>9. WithoutLoadFlags(v) = Joined(a, b, <<>>, d, e, f, g, h, <<>>, <<>>)
  BY <1>4, <1>6, <1>8
<1> QED BY <1>9 DEF a, b, d, e, f, g, h, v

\* What is locked and mapped is what the call, or else the model, asked for.
LEMMA LoadIsMeant ==
  ASSUME NEW def, NEW context, NEW mode, NEW p, Buildable(def, context, p)
  PROVE  LET v == OwnVector(def, context, mode, p)
         IN /\ LocksMemory(v) <=> UnwrapOr(Or(p.mlock, def.mlock), FALSE)
            /\ MapsMemory(v) <=> ~UnwrapOr(Or(p.no_mmap, def.no_mmap), FALSE)
            /\ ToSet(v) \cap LOAD_FLAGS \subseteq
                 IF p.load_flags = "LoadMode" THEN {"--load-mode"} ELSE {"--mlock", "--no-mmap"}
<1> DEFINE v == OwnVector(def, context, mode, p)
           L == LoadPart(def, p)
           lock == UnwrapOr(Or(p.mlock, def.mlock), FALSE)
           noMap == UnwrapOr(Or(p.no_mmap, def.no_mmap), FALSE)
<1>1. lock \in BOOLEAN /\ noMap \in BOOLEAN
  <2>1. /\ IsOption(p.mlock, BOOLEAN) /\ IsOption(def.mlock, BOOLEAN)
        /\ IsOption(p.no_mmap, BOOLEAN) /\ IsOption(def.no_mmap, BOOLEAN)
    BY DEF Buildable, TypedParams, TypedDef
  <2>2. \A o, other : IsOption(o, BOOLEAN) /\ IsOption(other, BOOLEAN) => UnwrapOr(Or(o, other), FALSE) \in BOOLEAN
    BY DEF IsOption, UnwrapOr, Or
  <2> QED BY <2>1, <2>2
<1>2. p.load_flags \in {"Legacy", "LoadMode"}
  BY DEF Buildable, TypedParams
<1>3. L = LoadArgs(lock, noMap, p.load_flags)
  BY DEF LoadPart
<1> HIDE DEF L, lock, noMap
<1>4. /\ LocksMemory(L) <=> lock
      /\ MapsMemory(L) <=> ~noMap
      /\ p.load_flags = "Legacy" => ~Has(L, "--load-mode")
      /\ p.load_flags = "LoadMode" => ~Has(L, "--mlock") /\ ~Has(L, "--no-mmap")
  BY <1>1, <1>2, <1>3, LoadSays
<1>5. /\ Has(v, "--mlock") <=> Has(L, "--mlock")
      /\ Has(v, "--no-mmap") <=> Has(L, "--no-mmap")
      /\ Has(v, "--load-mode") <=> Has(L, "--load-mode")
      /\ Values(v, "--load-mode") = Values(L, "--load-mode")
  <2>1. "--mlock" \in LOAD_FLAGS /\ "--no-mmap" \in LOAD_FLAGS /\ "--load-mode" \in LOAD_FLAGS
    BY DEF LOAD_FLAGS
  <2> QED BY <2>1, LoadIsSaid DEF L
<1> HIDE DEF v
<1>6. (LocksMemory(v) <=> lock) /\ (MapsMemory(v) <=> ~noMap)
  BY <1>4, <1>5 DEF LocksMemory, MapsMemory
<1>7. ToSet(v) \cap LOAD_FLAGS \subseteq
        IF p.load_flags = "LoadMode" THEN {"--load-mode"} ELSE {"--mlock", "--no-mmap"}
  BY <1>2, <1>4, <1>5 DEF LOAD_FLAGS, Has
<1> QED BY <1>6, <1>7 DEF v, lock, noMap

\* A replay places the model as it was placed.
LEMMA PlacementReplayed ==
  ASSUME NEW def, NEW context, NEW mode, NEW p, NEW q, Buildable(def, context, p), Buildable(def, context, q),
         p.n_gpu_layers = q.n_gpu_layers, p.n_cpu_moe = q.n_cpu_moe, ~q.auto_fit,
         Has(OwnVector(def, context, mode, p), "-ngl")
  PROVE  Placement(def, q) = Placement(def, p)
<1>1. TypedDef(def) /\ TypedParams(p) /\ TypedParams(q)
  BY DEF Buildable
<1>2. Placed(def, q) = Placed(def, p)
  BY DEF Placed
<1>3. Placement(def, q) = Placed(def, q)
  BY <1>1, PlacementIs
<1>4. Placement(def, p) = Placed(def, p)
  BY PlacementIsOnes
<1> QED BY <1>2, <1>3, <1>4

-----------------------------------------------------------------------------
(* What BuildArgs has made sure of when it gives a vector.                     *)

ContextOf(def, key) == def.contexts[CHOOSE k \in ResolveContextKey(def, key) : TRUE]

KvTypes(def, p) == LET kv == ResolveKvTypes(def, p.kv_k, p.kv_v) IN {Lower(kv.k), Lower(kv.v)}

LEMMA BuildIs ==
  ASSUME NEW def, TypedDef(def), def.contexts \in [DOMAIN def.contexts -> Numbers], ValidateModelDef(def),
         NEW p, TypedParams(p), NEW key, NEW mode, BuildArgs(def, key, mode, PATH, p).error = "none"
  PROVE  LET context == ContextOf(def, key)
         IN /\ BuildArgs(def, key, mode, PATH, p).argv = Vector(def, context, mode, PATH, p)
            /\ Buildable(def, context, p) /\ context > 0
            /\ ContextKey(key) \in DOMAIN def.contexts => context = def.contexts[ContextKey(key)]
            /\ KvTypes(def, p) \subseteq MAINLINE_KV_TYPES \cup (IF mode = "turboquant" THEN TURBO_KV_TYPES ELSE {})
<1> DEFINE keys == ResolveContextKey(def, key)
           kv == ResolveKvTypes(def, p.kv_k, p.kv_v)
           refused == {t \in {kv.k, kv.v} : ValidateKvType(t, mode) # "none"}
           known == ParserKnown(UnwrapOr(def.parser, "none"))
           speculation == Speculation(def, p, mode)
           built == BuildArgs(def, key, mode, PATH, p)
           context == ContextOf(def, key)
<1>1. \A why : Failed(why).error = why
  BY DEF Failed
<1>2. \A t : ValidateKvType(t, mode) \in {"none", "KvTypeNeedsFork", "UnknownKvType"}
  BY DEF ValidateKvType
<1>3. keys # {}
  <2>1. SUFFICES ASSUME keys = {} PROVE FALSE
    OBVIOUS
  <2>2. built = Failed("UnknownContext")
    BY <2>1 DEF BuildArgs
  <2> QED BY <1>1, <2>2
<1>4. refused = {}
  <2>1. SUFFICES ASSUME refused # {} PROVE FALSE
    OBVIOUS
  <2> DEFINE t == IF kv.k \in refused THEN kv.k ELSE kv.v
  <2>2. built = Failed(ValidateKvType(t, mode))
    BY <1>3, <2>1 DEF BuildArgs
  <2>3. ValidateKvType(t, mode) # "none"
    BY <2>1
  <2> QED BY <1>1, <2>2, <2>3
<1>5. known
  <2>1. SUFFICES ASSUME ~known PROVE FALSE
    OBVIOUS
  <2>2. built = Failed("UnknownParser")
    BY <1>3, <1>4, <2>1 DEF BuildArgs
  <2> QED BY <1>1, <2>2
<1>6. speculation.error = "none"
  <2>1. SUFFICES ASSUME speculation.error # "none" PROVE FALSE
    OBVIOUS
  <2>2. built = speculation
    BY <1>3, <1>4, <1>5, <2>1 DEF BuildArgs
  <2> QED BY <2>1, <2>2
<1>7. built = Ok(Vector(def, context, mode, PATH, p))
  BY <1>3, <1>4, <1>5, <1>6 DEF BuildArgs, ContextOf
<1>8. keys \subseteq DOMAIN def.contexts
  <2> DEFINE k0 == ContextKey(key)
             alike == {k \in DOMAIN def.contexts : Lower(k) = Lower(k0)}
  <2>1. CASE k0 \in DOMAIN def.contexts
    <3>1. keys = {k0}
      BY <2>1 DEF ResolveContextKey
    <3> QED BY <2>1, <3>1
  <2>2. CASE k0 \notin DOMAIN def.contexts /\ alike # {}
    <3>1. keys = {CHOOSE k \in alike : TRUE}
      BY <2>2 DEF ResolveContextKey
    <3>2. (CHOOSE k \in alike : TRUE) \in alike
      BY <2>2
    <3> QED BY <3>1, <3>2
  <2>3. CASE k0 \notin DOMAIN def.contexts /\ alike = {}
    <3>1. keys = {AliasOf(k0)} \cap DOMAIN def.contexts
      BY <2>3 DEF ResolveContextKey
    <3> QED BY <3>1
  <2> QED BY <2>1, <2>2, <2>3
<1>9. ContextKey(key) \in DOMAIN def.contexts => keys = {ContextKey(key)}
  BY DEF ResolveContextKey
<1>10. PICK k \in keys : context = def.contexts[k]
  BY <1>3 DEF ContextOf
<1>11. context \in Numbers /\ context > 0
  BY <1>8, <1>10 DEF ValidateModelDef
<1>12. \A t : ValidateKvType(t, mode) = "none" =>
               Lower(t) \in MAINLINE_KV_TYPES \cup (IF mode = "turboquant" THEN TURBO_KV_TYPES ELSE {})
  BY DEF ValidateKvType
<1>13. ValidateKvType(kv.k, mode) = "none" /\ ValidateKvType(kv.v, mode) = "none"
  BY <1>4
<1>14. KvTypes(def, p) \subseteq MAINLINE_KV_TYPES \cup (IF mode = "turboquant" THEN TURBO_KV_TYPES ELSE {})
  BY <1>12, <1>13 DEF KvTypes
<1>15. Buildable(def, context, p)
  <2>1. Lower(kv.k) \in KvTypes(def, p) /\ Lower(kv.v) \in KvTypes(def, p)
    BY DEF KvTypes
  <2>2. KvTypes(def, p) \subseteq MAINLINE_KV_TYPES \cup TURBO_KV_TYPES
    BY <1>14
  <2> HIDE DEF context
  <2> QED BY <1>11, <2>1, <2>2 DEF Buildable
<1>16. built.argv = Vector(def, context, mode, PATH, p)
  BY <1>7 DEF Ok
<1> QED BY <1>9, <1>10, <1>11, <1>14, <1>15, <1>16

-----------------------------------------------------------------------------
(* Vectors of one launch: they differ where their parameters do.               *)

\* The parameters that a launch keeps from its request.
KEPT ==
  {"parallel", "cache_reuse", "kv_k", "kv_v", "mlock", "no_mmap", "ubatch_size", "batch_size", "threads",
   "threads_batch", "flash_attn", "swa_full", "cache_prompt", "split_mode", "chat_template_override",
   "thinking_policy", "strict", "vision_module_path", "draft_module_path", "spec_type", "spec_draft_n_max",
   "extra_args"}

LEMMA RestIsKept ==
  ASSUME NEW def, NEW context, NEW mode, NEW p, NEW q, \A field \in KEPT : p[field] = q[field]
  PROVE  /\ ServerArgs(PATH, context, p) = ServerArgs(PATH, context, q)
         /\ BatchArgs(p) = BatchArgs(q) /\ AttentionArgs(def, p) = AttentionArgs(def, q)
         /\ CachePart(def, p) = CachePart(def, q) /\ PromptArgs(def, p) = PromptArgs(def, q)
         /\ SpeculationPart(def, p, mode) = SpeculationPart(def, q, mode)
         /\ p.extra_args = q.extra_args /\ p.mlock = q.mlock /\ p.no_mmap = q.no_mmap
         /\ p.kv_k = q.kv_k /\ p.kv_v = q.kv_v
         /\ p.load_flags = q.load_flags => LoadPart(def, p) = LoadPart(def, q)
<1>1. /\ p.parallel = q.parallel /\ p.cache_reuse = q.cache_reuse /\ p.kv_k = q.kv_k /\ p.kv_v = q.kv_v
      /\ p.mlock = q.mlock /\ p.no_mmap = q.no_mmap /\ p.ubatch_size = q.ubatch_size /\ p.batch_size = q.batch_size
      /\ p.threads = q.threads /\ p.threads_batch = q.threads_batch /\ p.flash_attn = q.flash_attn
      /\ p.swa_full = q.swa_full /\ p.cache_prompt = q.cache_prompt /\ p.split_mode = q.split_mode
      /\ p.chat_template_override = q.chat_template_override /\ p.thinking_policy = q.thinking_policy
      /\ p.strict = q.strict /\ p.vision_module_path = q.vision_module_path
      /\ p.draft_module_path = q.draft_module_path /\ p.spec_type = q.spec_type
      /\ p.spec_draft_n_max = q.spec_draft_n_max /\ p.extra_args = q.extra_args
  BY DEF KEPT
<1>2. ServerArgs(PATH, context, p) = ServerArgs(PATH, context, q)
  BY <1>1, Zenon DEF ServerArgs
<1>3. BatchArgs(p) = BatchArgs(q) /\ AttentionArgs(def, p) = AttentionArgs(def, q)
  BY <1>1, Zenon DEF BatchArgs, AttentionArgs
<1>4. CachePart(def, p) = CachePart(def, q)
  BY <1>1, Zenon DEF CachePart
<1>5. PromptArgs(def, p) = PromptArgs(def, q)
  BY <1>1, Zenon DEF PromptArgs
<1>6. SpeculationPart(def, p, mode) = SpeculationPart(def, q, mode)
  <2>1. Speculation(def, p, mode) = Speculation(def, q, mode)
    BY <1>1, Zenon DEF Speculation
  <2> QED BY <2>1 DEF SpeculationPart
<1>7. p.load_flags = q.load_flags => LoadPart(def, p) = LoadPart(def, q)
  BY <1>1, Zenon DEF LoadPart
<1> QED BY <1>1, <1>2, <1>3, <1>4, <1>5, <1>6, <1>7

LEMMA TenOnly ==
  ASSUME NEW S, NEW a, NEW b, NEW c, NEW d, NEW e, NEW f, NEW g, NEW h, NEW i, NEW j,
         Typed(a), Typed(b), Typed(c), Typed(d), Typed(e), Typed(f), Typed(g), Typed(h), Typed(i), Typed(j)
  PROVE  Only(Joined(a, b, c, d, e, f, g, h, i, j), S) =
           Joined(Only(a, S), Only(b, S), Only(c, S), Only(d, S), Only(e, S),
                  Only(f, S), Only(g, S), Only(h, S), Only(i, S), Only(j, S))
<1> DEFINE W(s) == Only(s, S)
<1>1. ASSUME NEW x, NEW y, Typed(x), Typed(y)
      PROVE  Typed(x \o y) /\ W(x \o y) = W(x) \o W(y)
  <2>1. x \o y \in Seq(Text) /\ x \in Seq(Text) /\ y \in Seq(Text)
    BY <1>1 DEF Typed
  <2> QED BY <2>1, OnlyJoined DEF Typed
<1> HIDE DEF W
<1> DEFINE v2 == a \o b
           v3 == v2 \o c
           v4 == v3 \o d
           v5 == v4 \o e
           v6 == v5 \o f
           v7 == v6 \o g
           v8 == v7 \o h
           v9 == v8 \o i
           v10 == v9 \o j
<1>2. Typed(v2) /\ W(v2) = W(a) \o W(b)
  BY <1>1
<1> HIDE DEF v2
<1>3. Typed(v3) /\ W(v3) = W(v2) \o W(c)
  BY <1>1, <1>2
<1> HIDE DEF v3
<1>4. Typed(v4) /\ W(v4) = W(v3) \o W(d)
  BY <1>1, <1>3
<1> HIDE DEF v4
<1>5. Typed(v5) /\ W(v5) = W(v4) \o W(e)
  BY <1>1, <1>4
<1> HIDE DEF v5
<1>6. Typed(v6) /\ W(v6) = W(v5) \o W(f)
  BY <1>1, <1>5
<1> HIDE DEF v6
<1>7. Typed(v7) /\ W(v7) = W(v6) \o W(g)
  BY <1>1, <1>6
<1> HIDE DEF v7
<1>8. Typed(v8) /\ W(v8) = W(v7) \o W(h)
  BY <1>1, <1>7
<1> HIDE DEF v8
<1>9. Typed(v9) /\ W(v9) = W(v8) \o W(i)
  BY <1>1, <1>8
<1> HIDE DEF v9
<1>10. Typed(v10) /\ W(v10) = W(v9) \o W(j)
  BY <1>1, <1>9
<1> HIDE DEF v10
<1>11. W(v10) = Joined(W(a), W(b), W(c), W(d), W(e), W(f), W(g), W(h), W(i), W(j))
  BY <1>2, <1>3, <1>4, <1>5, <1>6, <1>7, <1>8, <1>9, <1>10, Zenon DEF Joined
<1>12. Joined(a, b, c, d, e, f, g, h, i, j) = v10
  BY Zenon DEF Joined, v2, v3, v4, v5, v6, v7, v8, v9, v10
<1> QED BY <1>11, <1>12 DEF W

\* A placement says nothing of what the fitter is told.
LEMMA MemoryIsKept ==
  ASSUME NEW def, NEW context, NEW mode, NEW p, NEW q, Buildable(def, context, p), Buildable(def, context, q),
         \A field \in KEPT : p[field] = q[field], p.load_flags = q.load_flags
  PROVE  LET v == Vector(def, context, mode, PATH, p)
             w == Vector(def, context, mode, PATH, q)
         IN /\ \A flag \in MEMORY_FLAGS_WITH_VALUE : Values(v, flag) = Values(w, flag)
            /\ Only(v, MEMORY_SWITCHES) = Only(w, MEMORY_SWITCHES)
<1> DEFINE v == Vector(def, context, mode, PATH, p)
           w == Vector(def, context, mode, PATH, q)
           a == ServerArgs(PATH, context, p)
           b == Placement(def, p)
           bq == Placement(def, q)
           c == LoadPart(def, p)
           d == BatchArgs(p)
           e == AttentionArgs(def, p)
           f == CachePart(def, p)
           g == PromptArgs(def, p)
           h == SpeculationPart(def, p, mode)
           i == def.extra_args
           j == p.extra_args
<1>1. /\ ServerArgs(PATH, context, q) = a /\ LoadPart(def, q) = c /\ BatchArgs(q) = d /\ AttentionArgs(def, q) = e
      /\ CachePart(def, q) = f /\ PromptArgs(def, q) = g /\ SpeculationPart(def, q, mode) = h /\ q.extra_args = j
  BY RestIsKept
<1>2. Neat(b, PLACEMENT_PART) /\ Neat(bq, PLACEMENT_PART)
  BY PlacementNeat DEF Buildable
<1>3. v = Joined(a, b, c, d, e, f, g, h, i, j)
  BY VectorIs DEF Line
<1>4. w = Joined(a, bq, c, d, e, f, g, h, i, j)
  <2>1. w = Joined(ServerArgs(PATH, context, q), bq, LoadPart(def, q), BatchArgs(q), AttentionArgs(def, q),
                   CachePart(def, q), PromptArgs(def, q), SpeculationPart(def, q, mode), i, q.extra_args)
    BY VectorIs DEF Line
  <2> HIDE DEF a, bq, c, d, e, f, g, h, i, j, w
  <2> QED BY <1>1, <2>1
<1>5. /\ Neat(a, Flags) /\ Neat(b, Flags) /\ Neat(bq, Flags) /\ Neat(c, Flags) /\ Neat(d, Flags) /\ Neat(e, Flags)
      /\ Neat(f, Flags) /\ Neat(g, Flags) /\ Neat(h, Flags) /\ Neat(i, Flags) /\ Neat(j, Flags)
  <2>1. \A s, F : Neat(s, F) /\ F \subseteq Flags => Neat(s, Flags)
    BY NeatMore
  <2>2. /\ SERVER_PART \subseteq Flags /\ PLACEMENT_PART \subseteq Flags /\ LOAD_FLAGS \subseteq Flags
        /\ BATCH_PART \subseteq Flags /\ ATTENTION_PART \subseteq Flags /\ CACHE_PART \subseteq Flags
        /\ PROMPT_PART \subseteq Flags /\ SPECULATION_PART \subseteq Flags
    BY PartsAreFlags
  <2>3. /\ Neat(a, SERVER_PART) /\ Neat(c, LOAD_FLAGS) /\ Neat(d, BATCH_PART)
        /\ Neat(e, ATTENTION_PART) /\ Neat(f, CACHE_PART) /\ Neat(g, PROMPT_PART) /\ Neat(h, SPECULATION_PART)
        /\ Neat(i, Flags) /\ Neat(j, Flags)
    BY PartsNeat
  <2> HIDE DEF a, b, bq, c, d, e, f, g, h, i, j
  <2> QED BY <1>2, <2>1, <2>2, <2>3
<1> HIDE DEF a, b, bq, c, d, e, f, g, h, i, j, v, w
<1>6. ASSUME NEW flag \in MEMORY_FLAGS_WITH_VALUE PROVE Values(v, flag) = Values(w, flag)
  <2>1. flag \in VALUED /\ flag \in Flags \ PLACEMENT_PART
    <3>1. flag \in VALUED /\ flag \in Flags
      BY FlagsAssumption DEF VALUED
    <3>2. MEMORY_FLAGS_WITH_VALUE \cap PLACEMENT_PART = {}
      BY DEF MEMORY_FLAGS_WITH_VALUE, PLACEMENT_PART
    <3> QED BY <3>1, <3>2
  <2>2. Values(b, flag) = <<>> /\ Values(bq, flag) = <<>>
    BY <1>2, <2>1, NotIn
  <2>3. Values(v, flag) = Joined(Values(a, flag), Values(b, flag), Values(c, flag), Values(d, flag), Values(e, flag),
                                 Values(f, flag), Values(g, flag), Values(h, flag), Values(i, flag), Values(j, flag))
    BY <1>3, <1>5, <2>1, TenJoined
  <2>4. Values(w, flag) = Joined(Values(a, flag), Values(bq, flag), Values(c, flag), Values(d, flag), Values(e, flag),
                                 Values(f, flag), Values(g, flag), Values(h, flag), Values(i, flag), Values(j, flag))
    BY <1>4, <1>5, <2>1, TenJoined
  <2> QED BY <2>2, <2>3, <2>4
<1>7. Only(v, MEMORY_SWITCHES) = Only(w, MEMORY_SWITCHES)
  <2> DEFINE S == MEMORY_SWITCHES
  <2>1. \A s : Neat(s, PLACEMENT_PART) => Only(s, S) = <<>>
    <3> TAKE s
    <3> HAVE Neat(s, PLACEMENT_PART)
    <3>1. MEMORY_SWITCHES \subseteq Flags /\ MEMORY_SWITCHES \cap PLACEMENT_PART = {}
      BY FlagsAssumption DEF MEMORY_SWITCHES, PLACEMENT_PART
    <3>2. s \in Seq(Text) /\ \A k \in DOMAIN s : s[k] \notin S
      BY <3>1 DEF Neat, ToSet
    <3> QED BY <3>2, OnlyIs
  <2>2. Only(b, S) = <<>> /\ Only(bq, S) = <<>>
    BY <1>2, <2>1
  <2>3. /\ Typed(a) /\ Typed(b) /\ Typed(bq) /\ Typed(c) /\ Typed(d) /\ Typed(e)
        /\ Typed(f) /\ Typed(g) /\ Typed(h) /\ Typed(i) /\ Typed(j)
    BY <1>5, NeatTyped DEF Typed
  <2> HIDE DEF S
  <2>4. Only(v, S) = Joined(Only(a, S), Only(b, S), Only(c, S), Only(d, S), Only(e, S),
                            Only(f, S), Only(g, S), Only(h, S), Only(i, S), Only(j, S))
    BY <1>3, <2>3, TenOnly
  <2>5. Only(w, S) = Joined(Only(a, S), Only(bq, S), Only(c, S), Only(d, S), Only(e, S),
                            Only(f, S), Only(g, S), Only(h, S), Only(i, S), Only(j, S))
    BY <1>4, <2>3, TenOnly
  <2> QED BY <2>2, <2>4, <2>5 DEF S
<1> QED BY <1>6, <1>7 DEF v, w

\* A replay differs in how the load flags are spelled.
LEMMA RestIsReplayed ==
  ASSUME NEW def, NEW context, NEW mode, NEW p, NEW q, Buildable(def, context, p), Buildable(def, context, q),
         \A field \in KEPT : p[field] = q[field],
         p.n_gpu_layers = q.n_gpu_layers, p.n_cpu_moe = q.n_cpu_moe, ~q.auto_fit,
         Has(OwnVector(def, context, mode, p), "-ngl")
  PROVE  LET v == OwnVector(def, context, mode, p)
             w == OwnVector(def, context, mode, q)
         IN /\ WithoutLoadFlags(w) = WithoutLoadFlags(v)
            /\ LocksMemory(w) <=> LocksMemory(v)
            /\ MapsMemory(w) <=> MapsMemory(v)
<1> DEFINE v == OwnVector(def, context, mode, p)
           w == OwnVector(def, context, mode, q)
<1>1. /\ ServerArgs(PATH, context, q) = ServerArgs(PATH, context, p)
      /\ BatchArgs(q) = BatchArgs(p) /\ AttentionArgs(def, q) = AttentionArgs(def, p)
      /\ CachePart(def, q) = CachePart(def, p) /\ PromptArgs(def, q) = PromptArgs(def, p)
      /\ SpeculationPart(def, q, mode) = SpeculationPart(def, p, mode)
      /\ q.mlock = p.mlock /\ q.no_mmap = p.no_mmap
  BY RestIsKept
<1>2. Placement(def, q) = Placement(def, p)
  BY <1>1, PlacementReplayed
<1>3. WithoutLoadFlags(v) =
        Joined(ServerArgs(PATH, context, p), Placement(def, p), <<>>, BatchArgs(p), AttentionArgs(def, p),
               CachePart(def, p), PromptArgs(def, p), SpeculationPart(def, p, mode), <<>>, <<>>)
  BY OwnWithout
<1>4. WithoutLoadFlags(w) =
        Joined(ServerArgs(PATH, context, q), Placement(def, q), <<>>, BatchArgs(q), AttentionArgs(def, q),
               CachePart(def, q), PromptArgs(def, q), SpeculationPart(def, q, mode), <<>>, <<>>)
  BY OwnWithout
<1>5. WithoutLoadFlags(w) = WithoutLoadFlags(v)
  <2> HIDE DEF v, w
  <2> QED BY <1>1, <1>2, <1>3, <1>4
<1>6. /\ LocksMemory(v) <=> UnwrapOr(Or(p.mlock, def.mlock), FALSE)
      /\ MapsMemory(v) <=> ~UnwrapOr(Or(p.no_mmap, def.no_mmap), FALSE)
  BY LoadIsMeant
<1>7. /\ LocksMemory(w) <=> UnwrapOr(Or(q.mlock, def.mlock), FALSE)
      /\ MapsMemory(w) <=> ~UnwrapOr(Or(q.no_mmap, def.no_mmap), FALSE)
  BY LoadIsMeant
<1> HIDE DEF v, w
<1>8. (LocksMemory(w) <=> LocksMemory(v)) /\ (MapsMemory(w) <=> MapsMemory(v))
  BY <1>1, <1>6, <1>7
<1> QED BY <1>5, <1>8 DEF v, w

-----------------------------------------------------------------------------
(* What the fitter is given, one token at a time.                              *)

\* How each of the first tokens is read.
Reads(b, s, N) == b = [i \in 1..N |-> IF i = 1 THEN "flag" ELSE Token(b[i - 1], s[i - 1]).next]

Keeps(b, s) == [i \in DOMAIN s |-> IF Token(b[i], s[i]).kept THEN <<s[i]>> ELSE <<>>]

\* How what comes next is read.
After(b, s) == IF s = <<>> THEN "flag" ELSE Token(b[Len(s)], s[Len(s)]).next

LEMMA ReadsExist ==
  ASSUME NEW s, NEW N \in Nat
  PROVE  \E b : Reads(b, s, N)
<1> DEFINE S == {n \in Nat : \E b : Reads(b, s, n)}
<1>1. 0 \in S
  <2>1. Reads(<<>>, s, 0)
    BY DEF Reads
  <2> QED BY <2>1
<1>2. ASSUME NEW n \in Nat, n \in S PROVE n + 1 \in S
  <2>1. PICK b : Reads(b, s, n)
    BY <1>2
  <2> DEFINE c == [i \in 1..(n + 1) |-> IF i = n + 1 THEN (IF i = 1 THEN "flag" ELSE Token(b[i - 1], s[i - 1]).next)
                                        ELSE b[i]]
  <2>2. \A i \in 1..n : b[i] = IF i = 1 THEN "flag" ELSE Token(b[i - 1], s[i - 1]).next
    BY <2>1 DEF Reads
  <2>3. \A i \in 1..(n + 1) : c[i] = IF i = 1 THEN "flag" ELSE Token(c[i - 1], s[i - 1]).next
    BY <2>2
  <2>4. c = [i \in 1..(n + 1) |-> c[i]]
    OBVIOUS
  <2>5. c = [i \in 1..(n + 1) |-> IF i = 1 THEN "flag" ELSE Token(c[i - 1], s[i - 1]).next]
    <3> HIDE DEF c
    <3> QED BY <2>3, <2>4
  <2>6. Reads(c, s, n + 1)
    BY <2>5 DEF Reads
  <2> QED BY <2>6
<1>3. Nat \subseteq S
  <2> HIDE DEF S
  <2> QED BY <1>1, <1>2, AllNumbers
<1> QED BY <1>3

LEMMA FitIs ==
  ASSUME NEW s, NEW margin, Len(s) \in Nat
  PROVE  \E b : Reads(b, s, Len(s)) /\ FitParamsArgs(s, margin) = FlattenSeq(Keeps(b, s)) \o <<"--fit-target", margin>>
<1> DEFINE b == CHOOSE c : Reads(c, s, Len(s))
<1>1. FitParamsArgs(s, margin) = FlattenSeq(Keeps(b, s)) \o <<"--fit-target", margin>>
  BY Zenon DEF FitParamsArgs, Reads, Keeps
<1>2. Reads(b, s, Len(s))
  BY ReadsExist
<1> QED BY <1>1, <1>2

\* Every flag that is kept with a value has one.
Follows(s) == \A i \in DOMAIN s : s[i] \in MEMORY_FLAGS_WITH_VALUE /\ i + 1 \in DOMAIN s => s[i + 1] \notin Flags

\* What is kept says of the memory what the vector says.
Alike(k, s, next) ==
  /\ k \in Seq(Text)
  /\ next = "value" <=> \E f \in MEMORY_FLAGS_WITH_VALUE : EndsIn(s, f)
  /\ \A f \in MEMORY_FLAGS_WITH_VALUE : (EndsIn(k, f) <=> EndsIn(s, f)) /\ Values(k, f) = Values(s, f)
  /\ Only(k, MEMORY_SWITCHES) = Only(s, MEMORY_SWITCHES)
  /\ ToSet(k) \cap Flags \subseteq MEMORY_FLAGS_WITH_VALUE \cup MEMORY_SWITCHES

LEMMA TokenIs ==
  ASSUME NEW before, NEW x
  PROVE  /\ before = "value" => Token(before, x).kept /\ Token(before, x).next # "value"
         /\ before # "value" => /\ Token(before, x).kept <=> x \in MEMORY_FLAGS_WITH_VALUE \cup MEMORY_SWITCHES
                                /\ Token(before, x).next = "value" <=> x \in MEMORY_FLAGS_WITH_VALUE
<1>1. /\ MEMORY_FLAGS_WITH_VALUE \cap MEMORY_SWITCHES = {}
      /\ MEMORY_FLAGS_WITH_VALUE \subseteq Flags /\ MEMORY_SWITCHES \subseteq Flags
  <2>1. MEMORY_FLAGS_WITH_VALUE \cap MEMORY_SWITCHES = {}
    BY DEF MEMORY_FLAGS_WITH_VALUE, MEMORY_SWITCHES
  <2> QED BY <2>1, FlagsAssumption
<1>2. CASE before = "value"
  BY <1>2 DEF Token
<1>3. CASE before # "value" /\ x \in MEMORY_FLAGS_WITH_VALUE
  BY <1>1, <1>3 DEF Token, IsFlag
<1>4. CASE before # "value" /\ x \in MEMORY_SWITCHES
  BY <1>1, <1>4 DEF Token, IsFlag
<1>5. CASE before # "value" /\ x \notin MEMORY_FLAGS_WITH_VALUE \cup MEMORY_SWITCHES
  BY <1>5 DEF Token, IsFlag
<1> QED BY <1>2, <1>3, <1>4, <1>5

\* One token more is kept or not, and either way they stay alike.
LEMMA AlikeMore ==
  ASSUME NEW s \in Seq(Text), NEW x \in Text, NEW k, NEW before, Alike(k, s, before),
         \A f \in MEMORY_FLAGS_WITH_VALUE : EndsIn(s, f) => x \notin Flags
  PROVE  LET t == Token(before, x)
         IN Alike(k \o (IF t.kept THEN <<x>> ELSE <<>>), Append(s, x), t.next)
<1> DEFINE t == Token(before, x)
           r == Append(s, x)
           y == IF t.kept THEN <<x>> ELSE <<>>
           l == k \o y
           M == MEMORY_FLAGS_WITH_VALUE
<1>1. k \in Seq(Text) /\ r \in Seq(Text)
  BY DEF Alike
<1>2. IF t.kept THEN l = Append(k, x) ELSE l = k
  <2>1. \A a \in Seq(Text) : a \o <<>> = a /\ a \o <<x>> = Append(a, x)
    OBVIOUS
  <2> QED BY <1>1, <2>1
<1>3. M \subseteq Flags /\ MEMORY_SWITCHES \subseteq Flags /\ M \cap MEMORY_SWITCHES = {}
  <2>1. M \subseteq Flags /\ MEMORY_SWITCHES \subseteq Flags
    BY FlagsAssumption
  <2>2. M \cap MEMORY_SWITCHES = {}
    BY DEF MEMORY_FLAGS_WITH_VALUE, MEMORY_SWITCHES
  <2> QED BY <2>1, <2>2
<1>4. before = "value" => x \notin Flags
  BY DEF Alike
<1>5. \A f : (EndsIn(r, f) <=> x = f) /\ (EndsIn(Append(k, x), f) <=> x = f)
  <2>1. \A a \in Seq(Text) : Append(a, x) # <<>> /\ Append(a, x)[Len(Append(a, x))] = x
    OBVIOUS
  <2> QED BY <1>1, <2>1 DEF EndsIn
<1>6. l \in Seq(Text)
  BY <1>1, <1>2
<1> HIDE DEF y, l
<1>7. t.next = "value" <=> x \in M
  BY <1>3, <1>4, TokenIs
<1>8. t.kept <=> before = "value" \/ x \in M \cup MEMORY_SWITCHES
  BY TokenIs
<1> HIDE DEF t, r
<1>9. t.next = "value" <=> \E f \in M : EndsIn(r, f)
  BY <1>5, <1>7
<1>10. ASSUME NEW f \in M PROVE (EndsIn(l, f) <=> EndsIn(r, f)) /\ Values(l, f) = Values(r, f)
  <2>1. /\ EndsIn(k, f) <=> EndsIn(s, f)
        /\ Values(k, f) = Values(s, f)
        /\ EndsIn(s, f) => before = "value"
    BY DEF Alike
  <2>2. Values(r, f) = IF EndsIn(s, f) THEN Append(Values(s, f), x) ELSE Values(s, f)
    BY ValuesMore DEF r
  <2>3. Values(Append(k, x), f) = IF EndsIn(k, f) THEN Append(Values(k, f), x) ELSE Values(k, f)
    BY <1>1, ValuesMore
  <2>4. CASE t.kept
    BY <1>2, <1>5, <2>1, <2>2, <2>3, <2>4
  <2>5. CASE ~t.kept
    BY <1>2, <1>5, <1>8, <2>1, <2>2, <2>5
  <2> QED BY <2>4, <2>5
<1>11. Only(l, MEMORY_SWITCHES) = Only(r, MEMORY_SWITCHES)
  <2>1. Only(k, MEMORY_SWITCHES) = Only(s, MEMORY_SWITCHES)
    BY DEF Alike
  <2>2. Only(r, MEMORY_SWITCHES) =
          IF x \in MEMORY_SWITCHES THEN Append(Only(s, MEMORY_SWITCHES), x) ELSE Only(s, MEMORY_SWITCHES)
    BY OnlyMore DEF r
  <2>3. Only(Append(k, x), MEMORY_SWITCHES) =
          IF x \in MEMORY_SWITCHES THEN Append(Only(k, MEMORY_SWITCHES), x) ELSE Only(k, MEMORY_SWITCHES)
    BY <1>1, OnlyMore
  <2> QED BY <1>2, <1>8, <2>1, <2>2, <2>3
<1>12. ToSet(l) \cap Flags \subseteq M \cup MEMORY_SWITCHES
  <2>1. ToSet(k) \cap Flags \subseteq M \cup MEMORY_SWITCHES
    BY DEF Alike
  <2>2. ToSet(Append(k, x)) = ToSet(k) \cup {x}
    BY <1>1, SetOfMore
  <2> QED BY <1>2, <1>4, <1>8, <2>1, <2>2
<1> QED BY <1>6, <1>9, <1>10, <1>11, <1>12 DEF Alike, t, r, l, y

LEMMA AlikeAll ==
  \A s \in Seq(Text) : \A b : Follows(s) /\ Reads(b, s, Len(s)) => Alike(FlattenSeq(Keeps(b, s)), s, After(b, s))
<1> DEFINE S == {s \in Seq(Text) : \A b : Follows(s) /\ Reads(b, s, Len(s)) => Alike(FlattenSeq(Keeps(b, s)), s, After(b, s))}
<1>1. <<>> \in S
  <2>1. \A b : Keeps(b, <<>>) = <<>> /\ After(b, <<>>) = "flag"
    BY DEF Keeps, After
  <2>2. \A f : ~EndsIn(<<>>, f)
    BY DEF EndsIn
  <2>3. ToSet(<<>>) = {} /\ <<>> \in Seq(Text)
    BY DEF ToSet
  <2>4. Alike(<<>>, <<>>, "flag")
    BY <2>2, <2>3 DEF Alike
  <2> QED BY <2>1, <2>3, <2>4, FlattenNone
<1>2. ASSUME NEW s \in Seq(Text), NEW x \in Text, s \in S PROVE Append(s, x) \in S
  <2> DEFINE r == Append(s, x)
  <2>1. r \in Seq(Text)
    OBVIOUS
  <2>2. SUFFICES ASSUME NEW b, Follows(r), Reads(b, r, Len(r))
                 PROVE  Alike(FlattenSeq(Keeps(b, r)), r, After(b, r))
    BY <2>1
  <2>3. PICK N \in Nat : /\ Len(s) = N /\ DOMAIN s = 1..N /\ Len(r) = N + 1 /\ DOMAIN r = 1..(N + 1) /\ r[N + 1] = x
                         /\ \A i \in 1..N : r[i] = s[i] /\ s[i] \in Text
    OBVIOUS
  <2>4. r # <<>> /\ (s = <<>> <=> N = 0)
    <3> HIDE DEF r
    <3> QED BY <2>1, <2>3
  <2> HIDE DEF r
  <2> DEFINE c == [i \in 1..N |-> b[i]]
             before == b[N + 1]
             y == IF Token(before, x).kept THEN <<x>> ELSE <<>>
             p == Keeps(c, s)
             q == Keeps(b, r)
  <2>5. \A i \in 1..(N + 1) : b[i] = IF i = 1 THEN "flag" ELSE Token(b[i - 1], r[i - 1]).next
    BY <2>2, <2>3 DEF Reads
  <2>6. Reads(c, s, N)
    <3>1. \A i \in 1..N : c[i] = IF i = 1 THEN "flag" ELSE Token(c[i - 1], s[i - 1]).next
      <4>1. SUFFICES ASSUME NEW i \in 1..N PROVE c[i] = IF i = 1 THEN "flag" ELSE Token(c[i - 1], s[i - 1]).next
        OBVIOUS
      <4>2. CASE i = 1
        BY <2>5, <4>2
      <4>3. CASE i # 1
        <5>1. i - 1 \in 1..N
          BY <4>3
        <5>2. c[i] = b[i] /\ c[i - 1] = b[i - 1] /\ r[i - 1] = s[i - 1]
          BY <2>3, <5>1
        <5>3. b[i] = Token(b[i - 1], r[i - 1]).next
          BY <2>5, <4>3
        <5> QED BY <4>3, <5>2, <5>3
      <4> QED BY <4>2, <4>3
    <3>2. c = [i \in 1..N |-> c[i]]
      OBVIOUS
    <3> HIDE DEF c
    <3>3. c = [i \in 1..N |-> IF i = 1 THEN "flag" ELSE Token(c[i - 1], s[i - 1]).next]
      BY <3>1, <3>2
    <3> QED BY <3>3 DEF Reads
  <2>7. Follows(s)
    BY <2>2, <2>3 DEF Follows
  <2>8. Alike(FlattenSeq(p), s, After(c, s))
    BY <1>2, <2>3, <2>6, <2>7
  <2>9. before = After(c, s)
    <3>1. CASE N = 0
      BY <2>3, <2>4, <2>5, <3>1 DEF After
    <3>2. CASE N # 0
      <4>1. N \in 1..N /\ N + 1 \in 1..(N + 1) /\ N + 1 # 1 /\ (N + 1) - 1 = N
        BY <3>2
      <4>2. b[N + 1] = Token(b[N], r[N]).next /\ c[N] = b[N] /\ r[N] = s[N]
        BY <2>3, <2>5, <4>1
      <4> HIDE DEF c
      <4> QED BY <2>3, <2>4, <3>2, <4>2 DEF After
    <3> QED BY <3>1, <3>2
  <2>10. \A f \in MEMORY_FLAGS_WITH_VALUE : EndsIn(s, f) => x \notin Flags
    <3>1. SUFFICES ASSUME NEW f \in MEMORY_FLAGS_WITH_VALUE, EndsIn(s, f) PROVE x \notin Flags
      OBVIOUS
    <3>2. N # 0 /\ N \in 1..(N + 1) /\ N + 1 \in 1..(N + 1) /\ s[N] = f /\ r[N] = f
      BY <2>3, <2>4, <3>1 DEF EndsIn
    <3> QED BY <2>2, <2>3, <3>2 DEF Follows
  <2>11. y \in Seq(Text)
    OBVIOUS
  <2>12. p \in Seq(Seq(Text)) /\ Len(p) = N
    <3>1. \A i \in 1..N : p[i] \in Seq(Text)
      BY <2>3 DEF Keeps
    <3>2. p = [i \in 1..N |-> p[i]]
      BY <2>3 DEF Keeps
    <3> HIDE DEF p
    <3> QED BY <3>1, <3>2
  <2>13. q = Append(p, y)
    <3>1. DOMAIN q = 1..(N + 1) /\ q = [i \in DOMAIN q |-> q[i]]
      BY <2>3 DEF Keeps
    <3>2. \A i \in 1..N : q[i] = p[i]
      BY <2>3 DEF Keeps
    <3>3. q[N + 1] = y
      BY <2>3 DEF Keeps
    <3> HIDE DEF p, q, y, c
    <3> QED BY <2>11, <2>12, <3>1, <3>2, <3>3, OneMore
  <2>14. FlattenSeq(q) = FlattenSeq(p) \o y
    <3> HIDE DEF p, q, y
    <3> QED BY <2>11, <2>12, <2>13, FlattenMore
  <2>15. After(b, r) = Token(before, x).next
    BY <2>3, <2>4 DEF After
  <2>16. Alike(FlattenSeq(p), s, before)
    BY <2>8, <2>9, Zenon
  <2> HIDE DEF p, q, c, before
  <2>17. Alike(FlattenSeq(p) \o y, Append(s, x), Token(before, x).next)
    BY <2>10, <2>16, AlikeMore
  <2>18. Alike(FlattenSeq(q), r, After(b, r))
    BY <2>14, <2>15, <2>17, Zenon DEF r
  <2> QED BY <2>18 DEF q
<1>3. Seq(Text) \subseteq S
  <2> HIDE DEF S
  <2> QED BY <1>1, <1>2, AllSequences
<1> QED BY <1>3

\* The fitter is given what the vector says of the memory, and the margin.
LEMMA FitSees ==
  ASSUME NEW s, Neat(s, Flags)
  PROVE  LET k == FitParamsArgs(s, MARGIN)
         IN /\ \A f \in MEMORY_FLAGS_WITH_VALUE : Values(k, f) = Values(s, f)
            /\ Only(k, MEMORY_SWITCHES) = Only(s, MEMORY_SWITCHES)
            /\ ToSet(k) \cap Flags \subseteq MEMORY_FLAGS_WITH_VALUE \cup MEMORY_SWITCHES \cup {"--fit-target"}
            /\ Values(k, "--fit-target") = <<MARGIN>>
<1>1. s \in Seq(Text) /\ GivesValues(s) /\ Len(s) \in Nat
  <2>1. s \in Seq(Text) /\ GivesValues(s)
    BY DEF Neat
  <2> QED BY <2>1, LenProperties
<1>2. Follows(s)
  BY <1>1 DEF Follows, GivesValues, VALUED
<1>3. PICK b : Reads(b, s, Len(s)) /\ FitParamsArgs(s, MARGIN) = FlattenSeq(Keeps(b, s)) \o <<"--fit-target", MARGIN>>
  BY <1>1, FitIs
<1> DEFINE k == FlattenSeq(Keeps(b, s))
           m == <<"--fit-target", MARGIN>>
<1>4. Alike(k, s, After(b, s))
  BY <1>1, <1>2, <1>3, AlikeAll
<1> HIDE DEF k
<1>5. "--fit-target" \in Flags /\ MARGIN \in Word /\ "--fit-target" \in Text /\ MARGIN \in Text
  <2>1. "--fit-target" \in Flags
    BY FlagsAssumption DEF SERVER_FLAGS
  <2>2. MARGIN \in Word
    BY WordsAssumption DEF WRITTEN
  <2> QED BY <2>1, <2>2, WordsAssumption DEF Word
<1>6. "--fit-target" \notin MEMORY_FLAGS_WITH_VALUE \cup MEMORY_SWITCHES
  BY DEF MEMORY_FLAGS_WITH_VALUE, MEMORY_SWITCHES
<1>7. k \in Seq(Text) /\ m \in Seq(Text) /\ ToSet(m) = {"--fit-target", MARGIN}
  <2>1. k \in Seq(Text)
    BY <1>4 DEF Alike
  <2>2. m \in Seq(Text)
    <3> HIDE DEF m
    <3> QED BY <1>5 DEF m
  <2> QED BY <2>1, <2>2, SetOfTwo
<1>8. \A f : Values(m, f) = IF f = "--fit-target" THEN <<MARGIN>> ELSE <<>>
  BY <1>5, ValuesOfPair
<1>9. ASSUME NEW f \in MEMORY_FLAGS_WITH_VALUE PROVE Values(k \o m, f) = Values(s, f)
  <2>1. ~EndsIn(s, f)
    <3>1. f \in VALUED
      BY DEF VALUED
    <3> QED BY <3>1, NeatEnds
  <2>2. ~EndsIn(k, f) /\ Values(k, f) = Values(s, f)
    BY <1>4, <2>1 DEF Alike
  <2> HIDE DEF m
  <2>3. Values(k \o m, f) = Values(k, f) \o Values(m, f)
    BY <1>7, <2>2, ValuesJoined
  <2>4. Values(m, f) = <<>>
    BY <1>6, <1>8
  <2>5. Values(k, f) \in Seq(Text)
    BY <1>7, ValuesTyped
  <2> QED BY <2>2, <2>3, <2>4, <2>5, NothingJoined
<1>10. Only(k \o m, MEMORY_SWITCHES) = Only(s, MEMORY_SWITCHES)
  <2>1. Only(k, MEMORY_SWITCHES) = Only(s, MEMORY_SWITCHES)
    BY <1>4 DEF Alike
  <2>2. Only(m, MEMORY_SWITCHES) = <<>>
    <3>1. MEMORY_SWITCHES \subseteq Flags
      BY FlagsAssumption
    <3>2. "--fit-target" \notin MEMORY_SWITCHES /\ MARGIN \notin MEMORY_SWITCHES
      BY <1>5, <1>6, <3>1 DEF Word
    <3>3. \A i \in DOMAIN m : m[i] \notin MEMORY_SWITCHES
      <4>1. \A i \in DOMAIN m : m[i] \in ToSet(m)
        BY DEF ToSet
      <4> HIDE DEF m
      <4> QED BY <1>7, <3>2, <4>1
    <3> HIDE DEF m
    <3> QED BY <1>7, <3>3, OnlyIs
  <2> HIDE DEF m
  <2>3. Only(k \o m, MEMORY_SWITCHES) = Only(k, MEMORY_SWITCHES) \o Only(m, MEMORY_SWITCHES)
    BY <1>7, OnlyJoined
  <2>4. Only(k, MEMORY_SWITCHES) \in Seq(Text)
    BY <1>7, OnlyTyped
  <2> QED BY <2>1, <2>2, <2>3, <2>4, NothingJoined
<1>11. ToSet(k \o m) \cap Flags \subseteq MEMORY_FLAGS_WITH_VALUE \cup MEMORY_SWITCHES \cup {"--fit-target"}
  <2>1. ToSet(k) \cap Flags \subseteq MEMORY_FLAGS_WITH_VALUE \cup MEMORY_SWITCHES
    BY <1>4 DEF Alike
  <2> HIDE DEF m
  <2>2. ToSet(k \o m) = ToSet(k) \cup ToSet(m)
    BY <1>7, SetOfJoined
  <2>3. MARGIN \notin Flags
    BY <1>5 DEF Word
  <2> QED BY <1>7, <2>1, <2>2, <2>3
<1>12. Values(k \o m, "--fit-target") = <<MARGIN>>
  <2>1. "--fit-target" \notin ToSet(k)
    BY <1>4, <1>5, <1>6 DEF Alike
  <2>2. ~EndsIn(k, "--fit-target")
    <3>1. \A a \in Seq(Text) : a # <<>> => Len(a) \in DOMAIN a
      OBVIOUS
    <3> QED BY <1>7, <2>1, <3>1 DEF EndsIn, ToSet
  <2> HIDE DEF m
  <2>3. Values(k \o m, "--fit-target") = Values(k, "--fit-target") \o Values(m, "--fit-target")
    BY <1>7, <2>2, ValuesJoined
  <2>4. Values(k, "--fit-target") = <<>>
    BY <1>7, <2>1, ValuesWithout
  <2>5. Values(m, "--fit-target") = <<MARGIN>>
    BY <1>8
  <2>6. <<MARGIN>> \in Seq(Text)
    BY <1>5
  <2> QED BY <2>3, <2>4, <2>5, <2>6, NothingJoined
<1> QED BY <1>3, <1>9, <1>10, <1>11, <1>12 DEF k

-----------------------------------------------------------------------------
(* The inductive invariant: what the parameters, the vector, the fitter's      *)
(* question and the stored tuning are at each step of a launch.                *)

\* The parameters of a launch of a request.
Fits(g, P) ==
  /\ DOMAIN P = DOMAIN Defaults /\ TypedParams(P)
  /\ \A field \in KEPT : P[field] = g.params[field]

VectorOf(g, P) == Vector(g.def, ContextOf(g.def, g.context), g.mode, PATH, P)

\* Parameters with which the vector could be built.
Runs(g, P) ==
  LET context == ContextOf(g.def, g.context)
  IN /\ Fits(g, P) /\ Buildable(g.def, context, P) /\ context > 0
     /\ ContextKey(g.context) \in DOMAIN g.def.contexts => context = g.def.contexts[ContextKey(g.context)]
     /\ KvTypes(g.def, P) \subseteq MAINLINE_KV_TYPES \cup (IF g.mode = "turboquant" THEN TURBO_KV_TYPES ELSE {})

\* They are for this build.
IsFor(b, P) ==
  /\ P.load_flags = LoadFlagsOf(FromHelp(b.help))
  /\ P.auto_fit => FromHelp(b.help).fit

Sees(k, v) ==
  /\ \A flag \in MEMORY_FLAGS_WITH_VALUE : Values(k, flag) = Values(v, flag)
  /\ Only(k, MEMORY_SWITCHES) = Only(v, MEMORY_SWITCHES)
  /\ ToSet(k) \cap Flags \subseteq MEMORY_FLAGS_WITH_VALUE \cup MEMORY_SWITCHES \cup {"--fit-target"}
  /\ Values(k, "--fit-target") = <<MARGIN>>

\* The parameters have the placement of the fitter.
IsPlaced(placed, P) ==
  placed # <<>> =>
    /\ placed.gpu_layers \in Numbers /\ NCpuMoe(placed) \in Numbers /\ NCpuMoe(placed) \in Nat
    /\ P.n_gpu_layers = Some(placed.gpu_layers) /\ P.n_cpu_moe = Some(NCpuMoe(placed))

\* The overrides are those of the parameters.
Holds(overrides, P) ==
  \A field \in TUNABLE : overrides[field] = IF field = "swa_full" THEN Some(P.swa_full) ELSE P[field]

\* The parameters replay what was stored.
Replays(g, stored, P) ==
  \E Q : /\ Runs(g, Q) /\ stored.argv = VectorOf(g, Q)
         /\ P.n_gpu_layers = Q.n_gpu_layers /\ P.n_cpu_moe = Q.n_cpu_moe /\ ~P.auto_fit

Request == given \in Requests /\ build \in Builds
Control == pc \in {"select", "validate", "help", "build", "built", "fitting", "place", "launched", "stored",
                   "rebuild", "replayed", "failed"}
Before == pc \in {"select", "validate", "help"} => params = given.params
Nothing ==
  /\ pc \in {"select", "validate", "help", "build"} => argv = <<>> /\ fit_args = <<>>
  /\ pc \in {"select", "validate", "help", "build", "built", "fitting"} => placement = <<>>
Valid == pc \notin {"select", "validate", "failed"} => ValidateModelDef(given.def)
Ready ==
  pc \notin {"select", "validate", "help", "failed"} => Fits(given, params) /\ IsFor(build, params)
SomeVector == argv # <<>> => \E P : Runs(given, P) /\ argv = VectorOf(given, P)
ThisVector ==
  pc \in {"built", "fitting", "launched", "stored", "replayed"} =>
    Runs(given, params) /\ argv = VectorOf(given, params)
Asked ==
  pc = "place" => \E P : Runs(given, P) /\ argv = VectorOf(given, P) /\ P.load_flags = params.load_flags
Seen == pc \in {"fitting", "place", "launched"} => Sees(fit_args, argv)
Answered == pc \in {"place", "launched"} => IsPlaced(placement, params)
Tuned == pc = "stored" => store.argv = argv /\ Holds(store.overrides, params)
Again == pc \in {"rebuild", "replayed"} => Replays(given, store, params)

LaunchInv ==
  /\ Request /\ Control /\ Before /\ Nothing /\ Valid /\ Ready /\ SomeVector /\ ThisVector /\ Asked
  /\ Seen /\ Answered /\ Tuned /\ Again

-----------------------------------------------------------------------------

LEMMA RequestIs ==
  ASSUME NEW g \in Requests
  PROVE  /\ TypedDef(g.def) /\ g.def.contexts \in [DOMAIN g.def.contexts -> Numbers]
         /\ DOMAIN g.params = DOMAIN Defaults
         /\ \A field \in NUMERIC : IsOption(g.params[field], Numbers)
         /\ \A field \in TEXTUAL : IsOption(g.params[field], Word)
         /\ \A field \in {"mlock", "no_mmap"} : IsOption(g.params[field], BOOLEAN)
         /\ IsOption(g.params.chat_template_override,
                     [flag : {"--chat-template", "--chat-template-file"}, value : Word])
         /\ IsExtra(g.params.extra_args)
         /\ g.build \in Builds
<1>1. TypedDef(g.def)
  BY RequestsAssumption DEF TypedDef
<1>2. DOMAIN g.params = DOMAIN Defaults
  <2>1. g.params = [field \in DOMAIN Defaults |-> g.params[field]]
    BY RequestsAssumption
  <2> QED BY <2>1, Zenon
<1> QED BY <1>1, <1>2, RequestsAssumption

LEMMA FieldsAre ==
  /\ KEPT \cup {"load_flags", "auto_fit", "fit_target_mib", "n_gpu_layers", "n_cpu_moe"} = DOMAIN Defaults
  /\ NUMERIC \subseteq KEPT \cup {"n_gpu_layers", "n_cpu_moe", "fit_target_mib"}
  /\ TEXTUAL \cup {"mlock", "no_mmap", "chat_template_override", "extra_args", "swa_full"} \subseteq KEPT
  /\ {"load_flags", "auto_fit", "fit_target_mib", "n_gpu_layers", "n_cpu_moe"} \cap KEPT = {}
  /\ TUNABLE \subseteq KEPT \cup {"n_gpu_layers", "n_cpu_moe"}
  /\ {"n_gpu_layers", "n_cpu_moe", "swa_full"} \subseteq TUNABLE
<1>1. KEPT \cup {"load_flags", "auto_fit", "fit_target_mib", "n_gpu_layers", "n_cpu_moe"} = DOMAIN Defaults
  BY DEF KEPT, Defaults
<1>2. NUMERIC \subseteq KEPT \cup {"n_gpu_layers", "n_cpu_moe", "fit_target_mib"}
  BY DEF KEPT, NUMERIC
<1>3. TEXTUAL \cup {"mlock", "no_mmap", "chat_template_override", "extra_args", "swa_full"} \subseteq KEPT
  BY DEF KEPT, TEXTUAL
<1>4. {"load_flags", "auto_fit", "fit_target_mib", "n_gpu_layers", "n_cpu_moe"} \cap KEPT = {}
  BY DEF KEPT
<1>5. TUNABLE \subseteq KEPT \cup {"n_gpu_layers", "n_cpu_moe"}
  BY DEF KEPT, TUNABLE
<1>6. {"n_gpu_layers", "n_cpu_moe", "swa_full"} \subseteq TUNABLE
  BY DEF TUNABLE
<1> QED BY <1>1, <1>2, <1>3, <1>4, <1>5, <1>6

\* Parameters that keep those of the request fit it, if the others are typed.
LEMMA FitsWhen ==
  ASSUME NEW g \in Requests, NEW P, DOMAIN P = DOMAIN Defaults, \A field \in KEPT : P[field] = g.params[field],
         P.load_flags \in {"Legacy", "LoadMode"}, IsOption(P.fit_target_mib, Numbers),
         IsOption(P.n_gpu_layers, Numbers), IsOption(P.n_cpu_moe, Numbers)
  PROVE  Fits(g, P)
<1>1. \A field \in NUMERIC : IsOption(P[field], Numbers)
  <2>1. SUFFICES ASSUME NEW field \in NUMERIC PROVE IsOption(P[field], Numbers)
    OBVIOUS
  <2>2. CASE field \in KEPT
    <3>1. IsOption(g.params[field], Numbers) /\ P[field] = g.params[field]
      BY <2>2, RequestIs
    <3> QED BY <3>1
  <2>3. CASE field \in {"n_gpu_layers", "n_cpu_moe", "fit_target_mib"}
    BY <2>3
  <2> QED BY <2>2, <2>3, FieldsAre
<1>2. \A field \in TEXTUAL : IsOption(P[field], Word)
  <2>1. SUFFICES ASSUME NEW field \in TEXTUAL PROVE IsOption(P[field], Word)
    OBVIOUS
  <2>2. field \in KEPT
    BY FieldsAre
  <2>3. IsOption(g.params[field], Word) /\ P[field] = g.params[field]
    BY <2>2, RequestIs
  <2> QED BY <2>3
<1>3. {"mlock", "no_mmap", "chat_template_override", "extra_args"} \subseteq KEPT
  BY FieldsAre
<1>4. /\ P.mlock = g.params.mlock /\ P.no_mmap = g.params.no_mmap
      /\ P.chat_template_override = g.params.chat_template_override /\ P.extra_args = g.params.extra_args
  BY <1>3
<1>5. \A field \in {"mlock", "no_mmap"} : IsOption(P[field], BOOLEAN)
  BY <1>4, RequestIs
<1>6. /\ IsOption(P.chat_template_override, [flag : {"--chat-template", "--chat-template-file"}, value : Word])
      /\ IsExtra(P.extra_args)
  BY <1>4, RequestIs
<1>7. TypedParams(P)
  BY <1>1, <1>2, <1>5, <1>6 DEF TypedParams
<1> QED BY <1>7 DEF Fits

\* What is built is the vector of the parameters.
LEMMA BuildRuns ==
  ASSUME NEW g \in Requests, ValidateModelDef(g.def), NEW P, Fits(g, P),
         BuildArgs(g.def, g.context, g.mode, PATH, P).error = "none"
  PROVE  Runs(g, P) /\ BuildArgs(g.def, g.context, g.mode, PATH, P).argv = VectorOf(g, P)
<1>1. TypedDef(g.def) /\ g.def.contexts \in [DOMAIN g.def.contexts -> Numbers] /\ TypedParams(P)
  BY RequestIs DEF Fits
<1> QED BY <1>1, BuildIs DEF Runs, VectorOf

\* The answer of the fitter is a number of layers and one of blocks.
LEMMA AnswerIs ==
  ASSUME NEW answer \in Answers, ParseFitOutput(answer).error = "none"
  PROVE  LET placed == ParseFitOutput(answer)
         IN placed.gpu_layers \in Numbers /\ NCpuMoe(placed) \in Numbers /\ NCpuMoe(placed) \in Nat
<1>1. /\ ParseFitOutput(answer).gpu_layers \in Numbers /\ NCpuMoe(ParseFitOutput(answer)) \in Numbers
      /\ IsFiniteSet(answer.overrides)
  BY AnswersAssumption
<1>2. ParseFitOutput(answer).cpu_expert_blocks = CpuBlocks(answer.overrides)
  BY DEF ParseFitOutput
<1>3. IsFiniteSet(CpuBlocks(answer.overrides))
  <2> DEFINE some == {e \in answer.overrides : e[2] = "CPU"}
  <2>1. IsFiniteSet(some)
    BY <1>1, FS_Subset
  <2> HIDE DEF some
  <2>2. IsFiniteSet({entry[1] : entry \in some})
    <3> DEFINE blocks == {entry[1] : entry \in some}
               first == [entry \in some |-> entry[1]]
    <3>1. first \in [some -> blocks] /\ \A block \in blocks : \E entry \in some : first[entry] = block
      OBVIOUS
    <3> HIDE DEF blocks, first
    <3>2. first \in Surjection(some, blocks)
      BY <3>1 DEF Surjection
    <3>3. IsFiniteSet(blocks)
      BY <2>1, <3>2, FS_Surjection
    <3> QED BY <3>3 DEF blocks
  <2> QED BY <2>2 DEF some, CpuBlocks
<1>4. NCpuMoe(ParseFitOutput(answer)) \in Nat
  BY <1>2, <1>3, FS_CardinalityType DEF NCpuMoe
<1> QED BY <1>1, <1>4

\* At the start nothing is built.
LEMMA LaunchStarts == Init => LaunchInv
<1> SUFFICES ASSUME Init PROVE LaunchInv
  OBVIOUS
<1>1. Request
  BY RequestIs DEF Init, Request
<1>2. Control /\ Before /\ Nothing /\ Valid /\ Ready /\ SomeVector /\ ThisVector /\ Asked /\ Seen /\ Answered /\ Tuned /\ Again
  BY DEF Init, Control, Before, Nothing, Valid, Ready, SomeVector, ThisVector, Asked, Seen, Answered, Tuned, Again
<1> QED BY <1>1, <1>2 DEF LaunchInv

LEMMA FailureKeeps == LaunchInv /\ (\E why : Fails(why)) => LaunchInv'
<1> SUFFICES ASSUME LaunchInv, NEW why, Fails(why) PROVE LaunchInv'
  OBVIOUS
<1>1. pc' = "failed" /\ UNCHANGED <<given, build, chosen, params, argv, fit_args, placement, store>>
  BY DEF Fails
<1>2. Request' /\ SomeVector'
  BY <1>1 DEF LaunchInv, Request, SomeVector
<1>3. (Control /\ Before /\ Nothing /\ Valid /\ Ready /\ ThisVector /\ Asked /\ Seen /\ Answered /\ Tuned /\ Again)'
  BY <1>1 DEF Control, Before, Nothing, Valid, Ready, ThisVector, Asked, Seen, Answered, Tuned, Again
<1> QED BY <1>2, <1>3 DEF LaunchInv

LEMMA SelectionKeeps == LaunchInv /\ SelectTheQuant => LaunchInv'
<1> SUFFICES ASSUME LaunchInv, SelectTheQuant PROVE LaunchInv'
  OBVIOUS
<1>1. CASE \E why : Fails(why)
  BY <1>1, FailureKeeps
<1>2. CASE ~\E why : Fails(why)
  <2>1. pc = "select" /\ pc' = "validate" /\ UNCHANGED <<given, build, error, params, argv, fit_args, placement, store>>
    BY <1>2 DEF SelectTheQuant
  <2>2. Request' /\ Before' /\ Nothing' /\ SomeVector'
    BY <2>1 DEF LaunchInv, Request, Before, Nothing, SomeVector
  <2>3. (Control /\ Valid /\ Ready /\ ThisVector /\ Asked /\ Seen /\ Answered /\ Tuned /\ Again)'
    BY <2>1 DEF Control, Valid, Ready, ThisVector, Asked, Seen, Answered, Tuned, Again
  <2> QED BY <2>2, <2>3 DEF LaunchInv
<1> QED BY <1>1, <1>2

LEMMA ValidationKeeps == LaunchInv /\ Validate => LaunchInv'
<1> SUFFICES ASSUME LaunchInv, Validate PROVE LaunchInv'
  OBVIOUS
<1>1. CASE \E why : Fails(why)
  BY <1>1, FailureKeeps
<1>2. CASE ~\E why : Fails(why)
  <2>1. /\ pc = "validate" /\ pc' = "help" /\ ValidateModelDef(given.def)
        /\ UNCHANGED <<given, build, error, chosen, params, argv, fit_args, placement, store>>
    BY <1>2 DEF Validate
  <2>2. Request' /\ Before' /\ Nothing' /\ SomeVector'
    BY <2>1 DEF LaunchInv, Request, Before, Nothing, SomeVector
  <2>3. Valid'
    BY <2>1 DEF Valid
  <2>4. (Control /\ Ready /\ ThisVector /\ Asked /\ Seen /\ Answered /\ Tuned /\ Again)'
    BY <2>1 DEF Control, Ready, ThisVector, Asked, Seen, Answered, Tuned, Again
  <2> QED BY <2>2, <2>3, <2>4 DEF LaunchInv
<1> QED BY <1>1, <1>2

LEMMA HelpKeeps == LaunchInv /\ ReadHelp => LaunchInv'
<1> SUFFICES ASSUME LaunchInv, ReadHelp PROVE LaunchInv'
  OBVIOUS
<1> DEFINE capabilities == FromHelp(build.help)
<1>1. /\ pc = "help" /\ pc' = "build"
      /\ params' = [params EXCEPT !.load_flags = LoadFlagsOf(capabilities), !.auto_fit = capabilities.fit]
      /\ UNCHANGED <<given, build, error, chosen, argv, fit_args, placement, store>>
  BY DEF ReadHelp
<1>2. given \in Requests /\ params = given.params
  BY <1>1 DEF LaunchInv, Request, Before
<1>3. DOMAIN params = DOMAIN Defaults
  BY <1>2, RequestIs
<1>4. "load_flags" \in DOMAIN params /\ "auto_fit" \in DOMAIN params
  BY <1>3, FieldsAre
<1>5. /\ DOMAIN params' = DOMAIN Defaults
      /\ params'.load_flags = LoadFlagsOf(capabilities) /\ params'.auto_fit = capabilities.fit
      /\ \A field \in DOMAIN Defaults \ {"load_flags", "auto_fit"} : params'[field] = params[field]
  <2> HIDE DEF capabilities
  <2> QED BY <1>1, <1>3, <1>4
<1>6. \A field \in KEPT \cup {"fit_target_mib", "n_gpu_layers", "n_cpu_moe"} : params'[field] = given.params[field]
  <2>1. KEPT \cup {"fit_target_mib", "n_gpu_layers", "n_cpu_moe"} \subseteq DOMAIN Defaults \ {"load_flags", "auto_fit"}
    BY FieldsAre
  <2> QED BY <1>2, <1>5, <2>1
<1>7. /\ IsOption(params'.fit_target_mib, Numbers) /\ IsOption(params'.n_gpu_layers, Numbers)
      /\ IsOption(params'.n_cpu_moe, Numbers)
  <2>1. {"fit_target_mib", "n_gpu_layers", "n_cpu_moe"} \subseteq NUMERIC
    BY DEF NUMERIC
  <2>2. /\ IsOption(given.params.fit_target_mib, Numbers) /\ IsOption(given.params.n_gpu_layers, Numbers)
        /\ IsOption(given.params.n_cpu_moe, Numbers)
    BY <1>2, <2>1, RequestIs
  <2> QED BY <1>6, <2>2
<1>8. params'.load_flags \in {"Legacy", "LoadMode"}
  BY <1>5 DEF LoadFlagsOf
<1>9. Fits(given, params')
  BY <1>2, <1>5, <1>6, <1>7, <1>8, FitsWhen
<1>10. IsFor(build, params')
  BY <1>5 DEF IsFor
<1>11. Ready'
  BY <1>1, <1>9, <1>10 DEF Ready
<1>12. Request' /\ Nothing' /\ SomeVector' /\ Valid'
  BY <1>1 DEF LaunchInv, Request, Nothing, SomeVector, Valid
<1>13. (Control /\ Before /\ ThisVector /\ Asked /\ Seen /\ Answered /\ Tuned /\ Again)'
  BY <1>1 DEF Control, Before, ThisVector, Asked, Seen, Answered, Tuned, Again
<1> QED BY <1>11, <1>12, <1>13 DEF LaunchInv

LEMMA BuildKeeps ==
  LaunchInv /\ (Build("build", "built") \/ Build("place", "launched") \/ Build("rebuild", "replayed")) => LaunchInv'
<1> SUFFICES ASSUME LaunchInv, NEW from, NEW to, Build(from, to),
                    <<from, to>> \in {<<"build", "built">>, <<"place", "launched">>, <<"rebuild", "replayed">>}
             PROVE  LaunchInv'
  BY Zenon
<1>1. CASE \E why : Fails(why)
  BY <1>1, FailureKeeps
<1>2. CASE ~\E why : Fails(why)
  <2> DEFINE built == BuildArgs(given.def, given.context, given.mode, PATH, params)
  <2>1. /\ pc = from /\ pc' = to /\ built.error = "none" /\ argv' = built.argv
        /\ UNCHANGED <<given, build, error, chosen, params, fit_args, placement, store>>
    BY <1>2 DEF Build
  <2>2. \/ from = "build" /\ to = "built"
        \/ from = "place" /\ to = "launched"
        \/ from = "rebuild" /\ to = "replayed"
    OBVIOUS
  <2>3. /\ given \in Requests /\ ValidateModelDef(given.def) /\ Fits(given, params) /\ IsFor(build, params)
    BY <2>1, <2>2 DEF LaunchInv, Request, Valid, Ready
  <2>4. Runs(given, params) /\ argv' = VectorOf(given, params)
    BY <2>1, <2>3, BuildRuns
  <2>5. Request' /\ Valid' /\ Ready'
    BY <2>1, <2>2, <2>3 DEF LaunchInv, Request, Valid, Ready
  <2>6. SomeVector' /\ ThisVector'
    BY <2>1, <2>4 DEF SomeVector, ThisVector
  <2>7. (Control /\ Before /\ Asked /\ Tuned)'
    BY <2>1, <2>2 DEF Control, Before, Asked, Tuned
  <2>8. Nothing' /\ Answered' /\ Again'
    BY <2>1, <2>2 DEF LaunchInv, Nothing, Answered, Again
  <2>9. Seen'
    <3>1. SUFFICES ASSUME from = "place" PROVE Sees(fit_args, argv')
      BY <2>1, <2>2 DEF Seen
    <3>2. PICK P : Runs(given, P) /\ argv = VectorOf(given, P) /\ P.load_flags = params.load_flags
      BY <2>1, <3>1 DEF LaunchInv, Asked
    <3>3. Sees(fit_args, argv)
      BY <2>1, <3>1 DEF LaunchInv, Seen
    <3>4. \A field \in KEPT : P[field] = params[field]
      BY <2>4, <3>2 DEF Runs, Fits
    <3>5. /\ \A flag \in MEMORY_FLAGS_WITH_VALUE : Values(VectorOf(given, P), flag) = Values(VectorOf(given, params), flag)
          /\ Only(VectorOf(given, P), MEMORY_SWITCHES) = Only(VectorOf(given, params), MEMORY_SWITCHES)
      BY <2>4, <3>2, <3>4, MemoryIsKept DEF Runs, VectorOf
    <3> QED BY <2>4, <3>2, <3>3, <3>5 DEF Sees
  <2> QED BY <2>5, <2>6, <2>7, <2>8, <2>9 DEF LaunchInv
<1> QED BY <1>1, <1>2

LEMMA AskKeeps == LaunchInv /\ AskFitter => LaunchInv'
<1> SUFFICES ASSUME LaunchInv, AskFitter PROVE LaunchInv'
  OBVIOUS
<1>1. /\ pc = "built" /\ pc' = "fitting" /\ fit_args' = FitParamsArgs(argv, MARGIN)
      /\ UNCHANGED <<given, build, error, chosen, params, argv, placement, store>>
  BY DEF AskFitter
<1>2. Runs(given, params) /\ argv = VectorOf(given, params)
  BY <1>1 DEF LaunchInv, ThisVector
<1>3. Neat(argv, Flags)
  BY <1>2, VectorEnds DEF Runs, VectorOf
<1>4. Sees(fit_args', argv')
  BY <1>1, <1>3, FitSees DEF Sees
<1>5. Request' /\ Nothing' /\ Valid' /\ Ready' /\ SomeVector' /\ ThisVector'
  BY <1>1 DEF LaunchInv, Request, Nothing, Valid, Ready, SomeVector, ThisVector
<1>6. (Control /\ Before /\ Asked /\ Answered /\ Tuned /\ Again)'
  BY <1>1 DEF Control, Before, Asked, Answered, Tuned, Again
<1>7. Seen'
  BY <1>4 DEF Seen
<1> QED BY <1>5, <1>6, <1>7 DEF LaunchInv

LEMMA AnswerKeeps ==
  ASSUME NEW answer \in Answers
  PROVE  LaunchInv /\ FitterAnswers(answer) => LaunchInv'
<1> SUFFICES ASSUME LaunchInv, FitterAnswers(answer) PROVE LaunchInv'
  OBVIOUS
<1> DEFINE parsed == ParseFitOutput(answer)
<1>1. pc = "fitting" /\ UNCHANGED <<given, build, error, chosen, argv, fit_args, store>>
  BY DEF FitterAnswers
<1>2. /\ given \in Requests /\ ValidateModelDef(given.def) /\ Fits(given, params) /\ IsFor(build, params)
      /\ Runs(given, params) /\ argv = VectorOf(given, params) /\ placement = <<>> /\ Sees(fit_args, argv)
  BY <1>1 DEF LaunchInv, Request, Valid, Ready, ThisVector, Nothing, Seen
<1>3. Request' /\ SomeVector'
  BY <1>1 DEF LaunchInv, Request, SomeVector
<1>4. CASE parsed.error # "none"
  <2>1. pc' = "launched" /\ params' = params /\ placement' = placement
    BY <1>4 DEF FitterAnswers
  <2>2. (Control /\ Before /\ Nothing /\ Valid /\ Asked /\ Tuned /\ Again)'
    BY <1>1, <1>2, <2>1 DEF Control, Before, Nothing, Valid, Asked, Tuned, Again
  <2>3. Ready' /\ ThisVector' /\ Seen'
    BY <1>1, <1>2, <2>1 DEF Ready, ThisVector, Seen
  <2>4. Answered'
    BY <1>2, <2>1 DEF Answered, IsPlaced
  <2> QED BY <1>3, <2>2, <2>3, <2>4 DEF LaunchInv
<1>5. CASE parsed.error = "none"
  <2>1. /\ pc' = "place" /\ placement' = parsed
        /\ params' = [params EXCEPT !.n_gpu_layers = Some(parsed.gpu_layers), !.n_cpu_moe = Some(NCpuMoe(parsed))]
    BY <1>5 DEF FitterAnswers
  <2>2. parsed.gpu_layers \in Numbers /\ NCpuMoe(parsed) \in Numbers /\ NCpuMoe(parsed) \in Nat
    BY <1>5, AnswerIs
  <2>3. DOMAIN params = DOMAIN Defaults
    BY <1>2 DEF Fits
  <2>4. "n_gpu_layers" \in DOMAIN params /\ "n_cpu_moe" \in DOMAIN params
    BY <2>3, FieldsAre
  <2> HIDE DEF parsed
  <2>5. /\ DOMAIN params' = DOMAIN Defaults
        /\ params'.n_gpu_layers = Some(parsed.gpu_layers) /\ params'.n_cpu_moe = Some(NCpuMoe(parsed))
        /\ \A field \in DOMAIN Defaults \ {"n_gpu_layers", "n_cpu_moe"} : params'[field] = params[field]
    BY <2>1, <2>3, <2>4
  <2>6. \A field \in KEPT \cup {"fit_target_mib", "load_flags", "auto_fit"} : params'[field] = params[field]
    <3>1. KEPT \cup {"fit_target_mib", "load_flags", "auto_fit"} \subseteq DOMAIN Defaults \ {"n_gpu_layers", "n_cpu_moe"}
      BY FieldsAre
    <3> QED BY <2>5, <3>1
  <2>7. params'.fit_target_mib = params.fit_target_mib /\ params'.load_flags = params.load_flags
        /\ params'.auto_fit = params.auto_fit
    BY <2>6
  <2>8. \A n \in Numbers : IsOption(Some(n), Numbers)
    <3>1. \A n : Some(n)[1] = n
      BY DEF Some
    <3> QED BY <3>1 DEF IsOption
  <2>9. Fits(given, params')
    <3>1. params.load_flags \in {"Legacy", "LoadMode"} /\ IsOption(params.fit_target_mib, Numbers)
      <4>1. "fit_target_mib" \in NUMERIC
        BY DEF NUMERIC
      <4> QED BY <1>2, <4>1 DEF Fits, TypedParams
    <3>2. \A field \in KEPT : params'[field] = given.params[field]
      BY <1>2, <2>6 DEF Fits
    <3> QED BY <1>2, <2>2, <2>5, <2>7, <2>8, <3>1, <3>2, FitsWhen
  <2>10. IsFor(build, params')
    BY <1>2, <2>7 DEF IsFor
  <2>11. Ready' /\ Seen'
    BY <1>1, <1>2, <2>9, <2>10 DEF Ready, Seen
  <2>12. Asked'
    BY <1>1, <1>2, <2>7 DEF Asked
  <2>13. Answered'
    BY <2>1, <2>2, <2>5 DEF Answered, IsPlaced
  <2>14. (Control /\ Before /\ Nothing /\ Valid /\ ThisVector /\ Tuned /\ Again)'
    BY <1>1, <1>2, <2>1 DEF Control, Before, Nothing, Valid, ThisVector, Tuned, Again
  <2> QED BY <1>3, <2>11, <2>12, <2>13, <2>14 DEF LaunchInv
<1> QED BY <1>4, <1>5

LEMMA StoreKeeps == LaunchInv /\ Store => LaunchInv'
<1> SUFFICES ASSUME LaunchInv, Store PROVE LaunchInv'
  OBVIOUS
<1> DEFINE overrides == [field \in TUNABLE |-> IF field = "swa_full" THEN Some(params.swa_full) ELSE params[field]]
<1>1. /\ pc = "launched" /\ pc' = "stored" /\ store' = [argv |-> argv, overrides |-> overrides]
      /\ UNCHANGED <<given, build, error, chosen, params, argv, fit_args, placement>>
  BY DEF Store
<1>2. Holds(overrides, params)
  BY DEF Holds
<1> HIDE DEF overrides
<1>3. store'.argv = argv /\ store'.overrides = overrides
  BY <1>1
<1>4. Tuned'
  BY <1>1, <1>2, <1>3 DEF Tuned
<1>5. Request' /\ Nothing' /\ Valid' /\ Ready' /\ SomeVector' /\ ThisVector'
  BY <1>1 DEF LaunchInv, Request, Nothing, Valid, Ready, SomeVector, ThisVector
<1>6. (Control /\ Before /\ Asked /\ Seen /\ Answered /\ Again)'
  BY <1>1 DEF Control, Before, Asked, Seen, Answered, Again
<1> QED BY <1>4, <1>5, <1>6 DEF LaunchInv

LEMMA ReplayKeeps == LaunchInv /\ Replay => LaunchInv'
<1> SUFFICES ASSUME LaunchInv, Replay PROVE LaunchInv'
  OBVIOUS
<1> DEFINE tuned == ToLaunchParams(store.overrides)
<1>1. /\ pc = "stored" /\ pc' = "rebuild" /\ build' \in Builds
      /\ params' = [field \in DOMAIN Defaults |->
                      CASE field = "load_flags" -> LoadFlagsOf(FromHelp(build'.help))
                        [] field \in TUNABLE \cup {"auto_fit", "fit_target_mib"} -> tuned[field]
                        [] OTHER -> given.params[field]]
      /\ UNCHANGED <<given, error, chosen, argv, fit_args, placement, store>>
  BY DEF Replay
<1>2. /\ given \in Requests /\ ValidateModelDef(given.def) /\ Fits(given, params)
      /\ Runs(given, params) /\ argv = VectorOf(given, params)
      /\ store.argv = argv /\ Holds(store.overrides, params)
  BY <1>1 DEF LaunchInv, Request, Valid, Ready, ThisVector, Tuned
<1>3. /\ TUNABLE \subseteq DOMAIN Defaults /\ "load_flags" \notin TUNABLE
      /\ {"auto_fit", "fit_target_mib"} \subseteq DOMAIN Defaults /\ "swa_full" \in TUNABLE
      /\ {"auto_fit", "fit_target_mib"} \cap TUNABLE = {}
  BY FieldsAre
<1>4. Defaults.auto_fit = FALSE /\ Defaults.fit_target_mib = None
  BY DEF Defaults
<1>5. /\ \A field \in TUNABLE : tuned[field] = params[field]
      /\ tuned.auto_fit = FALSE /\ tuned.fit_target_mib = None
  <2>1. \A field \in TUNABLE \ {"swa_full"} : tuned[field] = store.overrides[field]
    BY <1>3 DEF ToLaunchParams
  <2>2. tuned.swa_full = UnwrapOr(store.overrides.swa_full, FALSE)
    BY <1>3 DEF ToLaunchParams
  <2>3. tuned.auto_fit = FALSE /\ tuned.fit_target_mib = None
    <3>1. "auto_fit" # "swa_full" /\ "fit_target_mib" # "swa_full"
      OBVIOUS
    <3> QED BY <1>3, <1>4, <3>1 DEF ToLaunchParams
  <2>4. \A field \in TUNABLE \ {"swa_full"} : store.overrides[field] = params[field]
    BY <1>2 DEF Holds
  <2>5. store.overrides.swa_full = Some(params.swa_full)
    BY <1>2, <1>3 DEF Holds
  <2>6. \A v : UnwrapOr(Some(v), FALSE) = v
    BY DEF UnwrapOr, Some, None
  <2> QED BY <2>1, <2>2, <2>3, <2>4, <2>5, <2>6
<1> HIDE DEF tuned
<1>6. /\ DOMAIN params' = DOMAIN Defaults
      /\ params'.load_flags = LoadFlagsOf(FromHelp(build'.help))
      /\ \A field \in TUNABLE \cup {"auto_fit", "fit_target_mib"} : params'[field] = tuned[field]
      /\ \A field \in DOMAIN Defaults \ (TUNABLE \cup {"auto_fit", "fit_target_mib", "load_flags"}) :
           params'[field] = given.params[field]
  <2>1. DOMAIN params' = DOMAIN Defaults
    BY <1>1
  <2>2. "load_flags" \in DOMAIN Defaults
    BY FieldsAre
  <2>3. params'.load_flags = LoadFlagsOf(FromHelp(build'.help))
    BY <1>1, <1>3, <2>2
  <2>4. \A field \in TUNABLE \cup {"auto_fit", "fit_target_mib"} : params'[field] = tuned[field]
    BY <1>1, <1>3
  <2>5. \A field \in DOMAIN Defaults \ (TUNABLE \cup {"auto_fit", "fit_target_mib", "load_flags"}) :
          params'[field] = given.params[field]
    BY <1>1
  <2> QED BY <2>1, <2>3, <2>4, <2>5
<1>7. \A field \in KEPT : params'[field] = given.params[field]
  <2>1. SUFFICES ASSUME NEW field \in KEPT PROVE params'[field] = given.params[field]
    OBVIOUS
  <2>2. CASE field \in TUNABLE
    BY <1>2, <1>5, <1>6, <2>2 DEF Fits
  <2>3. CASE field \notin TUNABLE
    <3>1. field \in DOMAIN Defaults \ (TUNABLE \cup {"auto_fit", "fit_target_mib", "load_flags"})
      BY <2>3, FieldsAre
    <3> QED BY <1>6, <3>1
  <2> QED BY <2>2, <2>3
<1>8. /\ params'.n_gpu_layers = params.n_gpu_layers /\ params'.n_cpu_moe = params.n_cpu_moe
      /\ ~params'.auto_fit /\ params'.fit_target_mib = None
  <2>1. "n_gpu_layers" \in TUNABLE /\ "n_cpu_moe" \in TUNABLE
    BY FieldsAre
  <2> QED BY <1>5, <1>6, <2>1
<1>9. Fits(given, params')
  <2>1. IsOption(params.n_gpu_layers, Numbers) /\ IsOption(params.n_cpu_moe, Numbers)
    <3>1. "n_gpu_layers" \in NUMERIC /\ "n_cpu_moe" \in NUMERIC
      BY DEF NUMERIC
    <3> QED BY <1>2, <3>1 DEF Fits, TypedParams
  <2>2. params'.load_flags \in {"Legacy", "LoadMode"}
    BY <1>6 DEF LoadFlagsOf
  <2>3. IsOption(None, Numbers)
    BY DEF IsOption
  <2> QED BY <1>2, <1>6, <1>7, <1>8, <2>1, <2>2, <2>3, FitsWhen
<1>10. IsFor(build', params')
  BY <1>6, <1>8 DEF IsFor
<1>11. Replays(given, store, params')
  BY <1>2, <1>8 DEF Replays
<1>12. Request' /\ SomeVector'
  BY <1>1 DEF LaunchInv, Request, SomeVector
<1>13. Ready' /\ Valid' /\ Again'
  BY <1>1, <1>2, <1>9, <1>10, <1>11 DEF Ready, Valid, Again
<1>14. (Control /\ Before /\ Nothing /\ ThisVector /\ Asked /\ Seen /\ Answered /\ Tuned)'
  BY <1>1 DEF Control, Before, Nothing, ThisVector, Asked, Seen, Answered, Tuned
<1> QED BY <1>12, <1>13, <1>14 DEF LaunchInv

LEMMA LaunchStep == LaunchInv /\ [Next]_vars => LaunchInv'
<1> SUFFICES ASSUME LaunchInv, [Next]_vars PROVE LaunchInv'
  OBVIOUS
<1>1. CASE SelectTheQuant
  BY <1>1, SelectionKeeps
<1>2. CASE Validate
  BY <1>2, ValidationKeeps
<1>3. CASE ReadHelp
  BY <1>3, HelpKeeps
<1>4. CASE Build("build", "built") \/ Build("place", "launched") \/ Build("rebuild", "replayed")
  BY <1>4, BuildKeeps
<1>5. CASE AskFitter
  BY <1>5, AskKeeps
<1>6. CASE \E answer \in Answers : FitterAnswers(answer)
  BY <1>6, AnswerKeeps
<1>7. CASE Store
  BY <1>7, StoreKeeps
<1>8. CASE Replay
  BY <1>8, ReplayKeeps
<1>9. CASE UNCHANGED vars
  BY <1>9 DEF vars, LaunchInv, Request, Control, Before, Nothing, Valid, Ready, SomeVector, ThisVector, Asked, Seen,
              Answered, Tuned, Again
<1> QED BY <1>1, <1>2, <1>3, <1>4, <1>5, <1>6, <1>7, <1>8, <1>9 DEF Next

\* At every place of a launch: the parameters are the call's but for the load
\* flags, the right to place and the placement; the vector is the one those
\* parameters are built into; what the fitter and the store hold is of that
\* vector (build_llama_server_args of args.rs, fit_params_args of fit.rs,
\* to_launch_params of tuner.rs).
THEOREM LaunchInvariant == Spec => []LaunchInv
<1>1. Init => LaunchInv
  BY LaunchStarts
<1>2. LaunchInv /\ [Next]_vars => LaunchInv'
  BY LaunchStep
<1> QED BY <1>1, <1>2, PTL DEF Spec

-----------------------------------------------------------------------------
(* What follows from the invariant.                                            *)

LEMMA BuildIsTold ==
  ASSUME NEW b \in Builds
  PROVE  /\ FromHelp(b.help).load_mode => "--load-mode" \in b.accepts
         /\ ~FromHelp(b.help).load_mode => {"--mlock", "--no-mmap"} \subseteq b.accepts
         /\ FromHelp(b.help).fit => "--fit" \in b.accepts
<1>1. FromHelp(b.help).load_mode = ListsOption(b.help, "--load-mode") /\ FromHelp(b.help).fit = ListsOption(b.help, "--fit")
  BY DEF FromHelp
<1> QED BY <1>1, BuildsAssumption

LEMMA FirstPart ==
  ASSUME NEW T, NEW s \in Seq(T), NEW t \in Seq(T)
  PROVE  SubSeq(s \o t, 1, Len(s \o t) - Len(t)) = s
<1>1. Len(s \o t) - Len(t) = Len(s) /\ Len(s) \in Nat
  OBVIOUS
<1>2. \A i \in 1..Len(s) : (s \o t)[i] = s[i]
  OBVIOUS
<1>3. SubSeq(s \o t, 1, Len(s)) = s
  BY <1>1, <1>2
<1> QED BY <1>1, <1>3

\* A vector of the launch is what the launch writes itself, then the extra arguments.
LEMMA VectorSplits ==
  ASSUME NEW P, Runs(given, P)
  PROVE  LET v == VectorOf(given, P)
         IN /\ Own(v) = OwnVector(given.def, ContextOf(given.def, given.context), given.mode, P)
            /\ v = Own(v) \o Extras /\ EndsInExtras(v)
            /\ Extras = given.def.extra_args \o P.extra_args
            /\ Neat(Own(v), Flags) /\ Neat(Extras, Flags)
<1> DEFINE v == VectorOf(given, P)
           own == OwnVector(given.def, ContextOf(given.def, given.context), given.mode, P)
<1>1. Extras = given.def.extra_args \o P.extra_args
  <2>1. "extra_args" \in KEPT
    BY FieldsAre
  <2> QED BY <2>1 DEF Runs, Fits, Extras
<1>2. v = own \o Extras /\ Neat(own, Flags) /\ Neat(Extras, Flags)
  <2> HIDE DEF v, own
  <2> QED BY <1>1, VectorEnds DEF Runs, VectorOf, v, own
<1> HIDE DEF v, own
<1>3. own \in Seq(Text) /\ Extras \in Seq(Text)
  BY <1>2, NeatTyped
<1>4. Own(v) = own
  <2> HIDE DEF Extras
  <2> QED BY <1>2, <1>3, FirstPart DEF Own
<1> QED BY <1>1, <1>2, <1>4 DEF v, own, EndsInExtras

LEMMA VectorAccepted == LaunchInv => BuildAccepts
<1> DEFINE def == given.def
           context == ContextOf(given.def, given.context)
           kv == ResolveKvTypes(def, params.kv_k, params.kv_v)
           own == Own(argv)
<1> SUFFICES ASSUME LaunchInv, pc \in {"built", "launched", "replayed"}
             PROVE  /\ ToSet(own) \cap LOAD_FLAGS \subseteq build.accepts
                    /\ ToSet(Values(own, "--cache-type-k") \o Values(own, "--cache-type-v"))
                         \subseteq {"f16", "q8_0", "q4_0"}
                                     \cup (IF given.mode = "turboquant" THEN {"turbo3", "turbo4"} ELSE {})
                    /\ given.mode = "turboquant" =>
                         \A type \in ToSet(Values(own, "--spec-type")) : Lower(type) \notin {"draft-mtp", "mtp", "nextn"}
                    /\ LocksMemory(own) <=> UnwrapOr(Or(given.params.mlock, given.def.mlock), FALSE)
                    /\ MapsMemory(own) <=> ~UnwrapOr(Or(given.params.no_mmap, given.def.no_mmap), FALSE)
  BY DEF BuildAccepts
<1>1. /\ build \in Builds /\ IsFor(build, params) /\ Runs(given, params) /\ argv = VectorOf(given, params)
  BY DEF LaunchInv, Request, Ready, ThisVector
<1>2. Buildable(def, context, params) /\ own = OwnVector(def, context, given.mode, params)
  BY <1>1, VectorSplits DEF Runs
<1>3. params.mlock = given.params.mlock /\ params.no_mmap = given.params.no_mmap
  <2>1. "mlock" \in KEPT /\ "no_mmap" \in KEPT
    BY FieldsAre
  <2> QED BY <1>1, <2>1 DEF Runs, Fits
<1> HIDE DEF context, kv, own
<1>4. /\ LocksMemory(own) <=> UnwrapOr(Or(params.mlock, def.mlock), FALSE)
      /\ MapsMemory(own) <=> ~UnwrapOr(Or(params.no_mmap, def.no_mmap), FALSE)
      /\ ToSet(own) \cap LOAD_FLAGS \subseteq
           IF params.load_flags = "LoadMode" THEN {"--load-mode"} ELSE {"--mlock", "--no-mmap"}
  BY <1>2, LoadIsMeant
<1>5. ToSet(own) \cap LOAD_FLAGS \subseteq build.accepts
  <2>1. params.load_flags = IF FromHelp(build.help).load_mode THEN "LoadMode" ELSE "Legacy"
    BY <1>1 DEF IsFor, LoadFlagsOf
  <2>2. CASE FromHelp(build.help).load_mode
    BY <1>1, <1>4, <2>1, <2>2, BuildIsTold
  <2>3. CASE ~FromHelp(build.help).load_mode
    BY <1>1, <1>4, <2>1, <2>3, BuildIsTold
  <2> QED BY <2>2, <2>3
<1>6. ToSet(Values(own, "--cache-type-k") \o Values(own, "--cache-type-v"))
        \subseteq {"f16", "q8_0", "q4_0"} \cup (IF given.mode = "turboquant" THEN {"turbo3", "turbo4"} ELSE {})
  <2>1. Values(own, "--cache-type-k") = <<Lower(kv.k)>> /\ Values(own, "--cache-type-v") = <<Lower(kv.v)>>
    BY <1>2, CacheIsSaid DEF kv
  <2>2. ToSet(<<Lower(kv.k)>> \o <<Lower(kv.v)>>) = ToSet(<<Lower(kv.k)>>) \cup ToSet(<<Lower(kv.v)>>)
    <3> DEFINE T == {Lower(kv.k), Lower(kv.v)}
    <3>1. <<Lower(kv.k)>> \in Seq(T) /\ <<Lower(kv.v)>> \in Seq(T)
      OBVIOUS
    <3> HIDE DEF T
    <3> QED BY <3>1, SetOfJoined
  <2>3. ToSet(Values(own, "--cache-type-k") \o Values(own, "--cache-type-v")) = {Lower(kv.k), Lower(kv.v)}
    <3>1. ToSet(<<Lower(kv.k)>>) = {Lower(kv.k)} /\ ToSet(<<Lower(kv.v)>>) = {Lower(kv.v)}
      BY SetOfOne
    <3> QED BY <2>1, <2>2, <3>1
  <2>4. KvTypes(def, params) \subseteq MAINLINE_KV_TYPES \cup (IF given.mode = "turboquant" THEN TURBO_KV_TYPES ELSE {})
    BY <1>1 DEF Runs
  <2>5. KvTypes(def, params) = {Lower(kv.k), Lower(kv.v)}
    BY DEF KvTypes, kv
  <2> QED BY <2>3, <2>4, <2>5 DEF MAINLINE_KV_TYPES, TURBO_KV_TYPES
<1>7. given.mode = "turboquant" =>
        \A type \in ToSet(Values(own, "--spec-type")) : Lower(type) \notin {"draft-mtp", "mtp", "nextn"}
  <2>1. Values(own, "--spec-type") = Values(SpeculationPart(def, params, given.mode), "--spec-type")
    BY <1>2, SpeculationIsSaid
  <2>2. TypedParams(params) /\ TypedDef(def)
    BY <1>2 DEF Buildable
  <2>3. given.mode = "turboquant" =>
          \A type \in ToSet(Values(Speculation(def, params, given.mode).argv, "--spec-type")) : Lower(type) \notin MTP_SPEC_TYPES
    BY <2>2, SpeculationSays
  <2> QED BY <2>1, <2>3 DEF SpeculationPart, MTP_SPEC_TYPES
<1> QED BY <1>3, <1>4, <1>5, <1>6, <1>7

LEMMA VectorPlaced == LaunchInv => PlacedByOneParty
<1> SUFFICES ASSUME LaunchInv, pc \in {"built", "launched", "replayed"}
             PROVE  /\ ~Has(Own(argv), "-ngl") =>
                         ToSet(argv) \cap (PLACEMENT_FLAGS \cup {"--cpu-moe", "-cmoe"}) = {} /\ "--fit" \in build.accepts
                    /\ Has(Own(argv), "-ngl") => ~Has(Own(argv), "--fit-target")
  BY DEF PlacedByOneParty
<1> DEFINE own == OwnVector(given.def, ContextOf(given.def, given.context), given.mode, params)
           extras == given.def.extra_args \o params.extra_args
<1>1. /\ build \in Builds /\ IsFor(build, params) /\ Runs(given, params) /\ argv = VectorOf(given, params)
  BY DEF LaunchInv, Request, Ready, ThisVector
<1>2. Own(argv) = own /\ argv = own \o extras
  <2> HIDE DEF own, extras
  <2> QED BY <1>1, VectorSplits DEF own, extras
<1>3. /\ ~Has(own, "-ngl") => params.auto_fit /\ ToSet(own \o extras) \cap PLACEMENT_ARGS = {}
      /\ Has(own, "-ngl") => ~Has(own, "--fit-target")
  <2>1. Buildable(given.def, ContextOf(given.def, given.context), params)
    BY <1>1 DEF Runs
  <2> QED BY <2>1, PlacementIsOnes
<1>4. PLACEMENT_ARGS = PLACEMENT_FLAGS \cup {"--cpu-moe", "-cmoe"}
  BY DEF PLACEMENT_FLAGS, PLACEMENT_ARGS
<1> HIDE DEF own, extras
<1>5. params.auto_fit => "--fit" \in build.accepts
  BY <1>1, BuildIsTold DEF IsFor
<1> QED BY <1>2, <1>3, <1>4, <1>5

LEMMA VectorSpeculates == LaunchInv => OneSpeculationEngine
<1> SUFFICES ASSUME LaunchInv PROVE OneSpeculationEngine
  OBVIOUS
<1>1. CASE argv = <<>>
  <2>1. Own(argv) = <<>>
    <3>1. Extras \in Seq(Text) /\ Len(Extras) \in Nat
      <4>1. IsExtra(given.def.extra_args) /\ IsExtra(given.params.extra_args)
        BY RequestIs DEF LaunchInv, Request, TypedDef
      <4>2. given.def.extra_args \in Seq(Text) /\ given.params.extra_args \in Seq(Text)
        BY <4>1 DEF IsExtra
      <4>3. \A a, b \in Seq(Text) : a \o b \in Seq(Text) /\ Len(a \o b) \in Nat
        OBVIOUS
      <4> QED BY <4>2, <4>3 DEF Extras
    <3> HIDE DEF Extras
    <3> QED BY <1>1, <3>1 DEF Own
  <2>2. Len(<<>>) <= 1 /\ ToSet(<<>>) = {}
    BY DEF ToSet
  <2> QED BY <2>1, <2>2, ValuesNone DEF OneSpeculationEngine, Has
<1>2. CASE argv # <<>>
  <2>1. PICK P : Runs(given, P) /\ argv = VectorOf(given, P)
    BY <1>2 DEF LaunchInv, SomeVector
  <2> DEFINE own == Own(argv)
  <2>2. /\ Values(own, "--spec-type") = Values(SpeculationPart(given.def, P, given.mode), "--spec-type")
        /\ Has(own, "--spec-draft-model") <=> Has(SpeculationPart(given.def, P, given.mode), "--spec-draft-model")
    BY <2>1, VectorSplits, SpeculationIsSaid DEF Runs
  <2>3. TypedParams(P) /\ TypedDef(given.def)
    BY <2>1 DEF Runs, Buildable
  <2>4. /\ Len(Values(Speculation(given.def, P, given.mode).argv, "--spec-type")) <= 1
        /\ Has(Speculation(given.def, P, given.mode).argv, "--spec-draft-model") =>
             Values(Speculation(given.def, P, given.mode).argv, "--spec-type") = <<"draft-simple">>
    BY <2>3, SpeculationSays
  <2> HIDE DEF own
  <2>5. /\ Len(Values(own, "--spec-type")) <= 1
        /\ Has(own, "--spec-draft-model") => Values(own, "--spec-type") = <<"draft-simple">>
    BY <2>2, <2>4 DEF SpeculationPart
  <2> QED BY <2>5 DEF OneSpeculationEngine, own
<1> QED BY <1>1, <1>2

LEMMA VectorClosed == LaunchInv /\ argv # <<>> => EndsInExtras(argv)
<1> SUFFICES ASSUME LaunchInv, argv # <<>> PROVE EndsInExtras(argv)
  OBVIOUS
<1>1. PICK P : Runs(given, P) /\ argv = VectorOf(given, P)
  BY DEF LaunchInv, SomeVector
<1> QED BY <1>1, VectorSplits

\* What the launch writes suits its build: the build takes the flags and the
\* types that are in it, one party places the model, and one engine speculates.
\* The extra arguments of the model and of the call, whatever they are, stand
\* after it as they were given, and are all that can say otherwise
\* (build_llama_server_args of args.rs, from_help of capabilities.rs).
THEOREM LaunchIsCoherent == Spec => []VectorIsCoherent
<1>1. LaunchInv => VectorIsCoherent
  <2> HIDE DEF LaunchInv
  <2> QED BY VectorAccepted, VectorPlaced, VectorSpeculates, VectorClosed DEF VectorIsCoherent
<1> QED BY <1>1, LaunchInvariant, PTL

LEMMA PlacementLaunched == LaunchInv => PlacementIsKept
<1> DEFINE layers == placement.gpu_layers
           moe == NCpuMoe(placement)
           byHand == ToSet(Extras) \cap PLACEMENT_ARGS # {}
           Kept(line) ==
             /\ layers > 0 => Values(line, "-ngl") = <<Decimal[layers]>>
             /\ layers <= 0 => Values(line, "-ngl") \in {<<>>, <<Decimal[UnwrapOr(given.def.n_gpu_layers, 999)]>>}
             /\ Values(line, "--n-cpu-moe") = IF moe = 0 THEN <<>> ELSE <<Decimal[moe]>>
             /\ ToSet(line) \cap PLACEMENT_ARGS \subseteq {"-ngl", "--n-cpu-moe"}
<1> SUFFICES ASSUME LaunchInv, pc = "launched", placement # <<>>
             PROVE  Kept(Own(argv)) /\ (~byHand => Kept(argv))
  <2> HIDE DEF Kept, byHand
  <2>1. Kept(Own(argv)) /\ (~byHand => Kept(argv)) =>
          \A line \in {Own(argv)} \cup (IF byHand THEN {} ELSE {argv}) : Kept(line)
    OBVIOUS
  <2> QED BY <2>1 DEF PlacementIsKept, Kept, byHand
<1> DEFINE placed == Placement(given.def, params)
           own == Own(argv)
<1>1. Runs(given, params) /\ argv = VectorOf(given, params) /\ IsPlaced(placement, params)
  BY DEF LaunchInv, ThisVector, Answered
<1>2. /\ layers \in Numbers /\ moe \in Numbers /\ moe \in Nat
      /\ params.n_gpu_layers = Some(layers) /\ params.n_cpu_moe = Some(moe)
  BY <1>1 DEF IsPlaced
<1>3. TypedParams(params) /\ TypedDef(given.def)
  BY <1>1 DEF Runs, Buildable
<1>4. argv = own \o Extras /\ Neat(own, Flags) /\ Neat(Extras, Flags)
  BY <1>1, VectorSplits
<1>5. /\ \A flag \in {"-ngl", "--n-cpu-moe"} : Values(own, flag) = Values(placed, flag)
      /\ ToSet(own) \cap PLACEMENT_ARGS \subseteq {"-ngl", "--n-cpu-moe"}
  <2> DEFINE context == ContextOf(given.def, given.context)
  <2>1. own = OwnVector(given.def, context, given.mode, params) /\ Buildable(given.def, context, params)
    BY <1>1, VectorSplits DEF Runs
  <2> HIDE DEF placed, own, context
  <2> QED BY <2>1, PlacementIsSaid DEF placed
<1> HIDE DEF layers, moe, own
<1>6. /\ layers > 0 => Values(placed, "-ngl") = <<Decimal[layers]>>
      /\ layers <= 0 => Values(placed, "-ngl") \in {<<>>, <<Decimal[UnwrapOr(given.def.n_gpu_layers, 999)]>>}
      /\ Values(placed, "--n-cpu-moe") = IF moe = 0 THEN <<>> ELSE <<Decimal[moe]>>
  BY <1>2, <1>3, PlacementGiven
<1> HIDE DEF placed
<1>7. Kept(own)
  BY <1>5, <1>6
<1>8. ASSUME ~byHand PROVE Kept(argv)
  <2>1. \A flag \in {"-ngl", "--n-cpu-moe"} : flag \in PLACEMENT_ARGS /\ flag \in VALUED
    BY DEF PLACEMENT_ARGS, VALUED
  <2>2. own \in Seq(Text) /\ Extras \in Seq(Text)
    BY <1>4, NeatTyped
  <2>3. ASSUME NEW flag \in {"-ngl", "--n-cpu-moe"} PROVE Values(argv, flag) = Values(own, flag)
    <3>1. flag \notin ToSet(Extras) /\ flag \in VALUED
      BY <1>8, <2>1
    <3> HIDE DEF Extras
    <3>2. Values(Extras, flag) = <<>>
      BY <2>2, <3>1, ValuesWithout
    <3>3. Values(argv, flag) = Values(own, flag) \o Values(Extras, flag)
      BY <1>4, <3>1, ValuesOfJoined
    <3>4. Values(own, flag) \in Seq(Text)
      BY <2>2, ValuesTyped
    <3> QED BY <3>2, <3>3, <3>4, NothingJoined
  <2>4. ToSet(argv) = ToSet(own) \cup ToSet(Extras)
    BY <1>4, <2>2, SetOfJoined
  <2>5. ToSet(argv) \cap PLACEMENT_ARGS \subseteq {"-ngl", "--n-cpu-moe"}
    BY <1>5, <1>8, <2>4
  <2> HIDE DEF byHand
  <2> QED BY <1>7, <2>3, <2>5
<1> QED BY <1>7, <1>8 DEF own

\* The fitter is asked about the launch, flag by flag and switch by switch, and
\* what it answers is launched: a placement on some layers as it was answered,
\* one on every layer or on none with the model's own count, with every layer or
\* by the server, and the experts as they were answered. Only an extra argument
\* places the model otherwise (fit_params_args of fit.rs, the placement of
\* args.rs).
THEOREM LaunchIsFitted == Spec => []FitIsUsed
<1>1. LaunchInv => FitterSeesTheLaunch
  BY DEF LaunchInv, Seen, Sees, FitterSeesTheLaunch
<1>2. LaunchInv => FitIsUsed
  BY <1>1, PlacementLaunched DEF FitIsUsed
<1> QED BY <1>2, LaunchInvariant, PTL

LEMMA ReplayIsTheSame == LaunchInv => ReplayIsFaithful
<1> DEFINE own == Own(argv)
           measured == Own(store.argv)
<1> SUFFICES ASSUME LaunchInv, pc = "replayed", Has(measured, "-ngl")
             PROVE  /\ WithoutLoadFlags(own) = WithoutLoadFlags(measured)
                    /\ LocksMemory(own) <=> LocksMemory(measured)
                    /\ MapsMemory(own) <=> MapsMemory(measured)
                    /\ EndsInExtras(argv) /\ EndsInExtras(store.argv)
  BY DEF ReplayIsFaithful
<1>1. Runs(given, params) /\ argv = VectorOf(given, params) /\ Replays(given, store, params)
  BY DEF LaunchInv, ThisVector, Again
<1>2. PICK Q : /\ Runs(given, Q) /\ store.argv = VectorOf(given, Q)
               /\ params.n_gpu_layers = Q.n_gpu_layers /\ params.n_cpu_moe = Q.n_cpu_moe /\ ~params.auto_fit
  BY <1>1 DEF Replays
<1>3. \A field \in KEPT : Q[field] = params[field]
  BY <1>1, <1>2 DEF Runs, Fits
<1> DEFINE context == ContextOf(given.def, given.context)
<1>4. own = OwnVector(given.def, context, given.mode, params) /\ EndsInExtras(argv)
  BY <1>1, VectorSplits
<1>5. measured = OwnVector(given.def, context, given.mode, Q) /\ EndsInExtras(store.argv)
  BY <1>2, VectorSplits
<1>6. Buildable(given.def, context, params) /\ Buildable(given.def, context, Q)
  BY <1>1, <1>2 DEF Runs
<1> HIDE DEF own, measured, context
<1>7. /\ WithoutLoadFlags(own) = WithoutLoadFlags(measured)
      /\ LocksMemory(own) <=> LocksMemory(measured)
      /\ MapsMemory(own) <=> MapsMemory(measured)
  BY <1>2, <1>3, <1>4, <1>5, <1>6, RestIsReplayed
<1> QED BY <1>4, <1>5, <1>7

\* A stored tuning is replayed as it was measured, on any build: the launch
\* writes the same arguments up to how the load flags are spelled, which mean the
\* same, and the same extra arguments follow (to_launch_params of tuner.rs).
THEOREM ReplayRunsWhatWasMeasured == Spec => []ReplayIsFaithful
<1> QED BY ReplayIsTheSame, LaunchInvariant, PTL


-----------------------------------------------------------------------------
(* Which quant is matched.                                                     *)

LEMMA OnlySet ==
  ASSUME NEW T, NEW S
  PROVE  \A s \in Seq(T) : ToSet(Only(s, S)) = ToSet(s) \cap S
<1> DEFINE A == {s \in Seq(T) : ToSet(Only(s, S)) = ToSet(s) \cap S}
<1>1. <<>> \in A
  <2>1. <<>> \in Seq(T) /\ ToSet(<<>>) = {}
    BY DEF ToSet
  <2> QED BY <2>1, OnlyNone
<1>2. ASSUME NEW s \in Seq(T), NEW x \in T, s \in A PROVE Append(s, x) \in A
  <2>1. Only(Append(s, x), S) = (IF x \in S THEN Append(Only(s, S), x) ELSE Only(s, S)) /\ Only(s, S) \in Seq(T)
    BY OnlyMore
  <2>2. ToSet(Append(s, x)) = ToSet(s) \cup {x}
    BY SetOfMore
  <2>3. ToSet(Append(Only(s, S), x)) = ToSet(Only(s, S)) \cup {x}
    BY <2>1, SetOfMore
  <2>4. ToSet(Only(s, S)) = ToSet(s) \cap S /\ Append(s, x) \in Seq(T)
    BY <1>2
  <2>5. ToSet(Only(Append(s, x), S)) = ToSet(Append(s, x)) \cap S
    BY <2>1, <2>2, <2>3, <2>4
  <2> QED BY <2>4, <2>5
<1>3. Seq(T) \subseteq A
  <2> HIDE DEF A
  <2> QED BY <1>1, <1>2, AllSequences
<1> QED BY <1>3

Distinct(s) == \A i, j \in DOMAIN s : s[i] = s[j] => i = j

LEMMA DistinctMore ==
  ASSUME NEW T, NEW s \in Seq(T), NEW x \in T
  PROVE  Distinct(Append(s, x)) <=> Distinct(s) /\ x \notin ToSet(s)
<1> DEFINE r == Append(s, x)
<1>1. PICK N \in Nat : /\ DOMAIN s = 1..N /\ DOMAIN r = 1..(N + 1) /\ r[N + 1] = x
                       /\ \A i \in 1..N : r[i] = s[i]
  OBVIOUS
<1> HIDE DEF r
<1>2. ToSet(s) = {s[i] : i \in 1..N}
  BY <1>1 DEF ToSet
<1>3. ASSUME Distinct(r) PROVE Distinct(s) /\ x \notin ToSet(s)
  <2>1. Distinct(s)
    BY <1>1, <1>3 DEF Distinct
  <2>2. ASSUME x \in ToSet(s) PROVE FALSE
    <3>1. PICK i \in 1..N : s[i] = x
      BY <1>2, <2>2
    <3>2. r[i] = r[N + 1] /\ i \in DOMAIN r /\ N + 1 \in DOMAIN r
      BY <1>1, <3>1
    <3>3. i = N + 1
      BY <1>3, <3>2 DEF Distinct
    <3> QED BY <3>3
  <2> QED BY <2>1, <2>2
<1>4. ASSUME Distinct(s), x \notin ToSet(s) PROVE Distinct(r)
  <2>1. \A i \in 1..N : s[i] # x
    BY <1>2, <1>4
  <2>2. SUFFICES ASSUME NEW i \in 1..(N + 1), NEW j \in 1..(N + 1), r[i] = r[j] PROVE i = j
    BY <1>1 DEF Distinct
  <2>3. CASE i \in 1..N /\ j \in 1..N
    BY <1>1, <1>4, <2>2, <2>3 DEF Distinct
  <2>4. CASE i = N + 1 /\ j \in 1..N
    BY <1>1, <2>1, <2>2, <2>4
  <2>5. CASE i \in 1..N /\ j = N + 1
    BY <1>1, <2>1, <2>2, <2>5
  <2> QED BY <2>3, <2>4, <2>5
<1> QED BY <1>3, <1>4 DEF r

LEMMA OnlyDistinct ==
  ASSUME NEW T, NEW S
  PROVE  \A s \in Seq(T) : Distinct(s) => Distinct(Only(s, S))
<1> DEFINE A == {s \in Seq(T) : Distinct(s) => Distinct(Only(s, S))}
<1>1. <<>> \in A
  <2>1. <<>> \in Seq(T) /\ Distinct(<<>>)
    BY DEF Distinct
  <2> QED BY <2>1, OnlyNone
<1>2. ASSUME NEW s \in Seq(T), NEW x \in T, s \in A PROVE Append(s, x) \in A
  <2>1. Only(Append(s, x), S) = (IF x \in S THEN Append(Only(s, S), x) ELSE Only(s, S)) /\ Only(s, S) \in Seq(T)
    BY OnlyMore
  <2>2. Distinct(Append(s, x)) <=> Distinct(s) /\ x \notin ToSet(s)
    BY DistinctMore
  <2>3. Distinct(Append(Only(s, S), x)) <=> Distinct(Only(s, S)) /\ x \notin ToSet(Only(s, S))
    BY <2>1, DistinctMore
  <2>4. ToSet(Only(s, S)) = ToSet(s) \cap S
    BY OnlySet
  <2>5. Append(s, x) \in Seq(T) /\ (Distinct(s) => Distinct(Only(s, S)))
    BY <1>2
  <2> QED BY <2>1, <2>2, <2>3, <2>4, <2>5
<1>3. Seq(T) \subseteq A
  <2> HIDE DEF A
  <2> QED BY <1>1, <1>2, AllSequences
<1> QED BY <1>3

\* The keys that are offered, in their order.
Whole(listing) == {key \in QuantKeys : CompleteBases(listing, key) # {}}
Offered(listing) == Only(KEYS_IN_ORDER, Whole(listing))

LEMMA OfferedIs ==
  ASSUME NEW listing
  PROVE  /\ Offered(listing) \in Seq(QuantKeys) /\ Distinct(Offered(listing))
         /\ ToSet(Offered(listing)) = Whole(listing)
         /\ DOMAIN Offered(listing) = 1..Len(Offered(listing)) /\ Len(Offered(listing)) \in Nat
         /\ QuantCandidates(listing) = [i \in DOMAIN Offered(listing) |-> CandidateOf(listing, Offered(listing)[i])]
<1>1. KEYS_IN_ORDER \in Seq(QuantKeys) /\ Distinct(KEYS_IN_ORDER) /\ QuantKeys \subseteq ToSet(KEYS_IN_ORDER)
  BY KeysAssumption DEF Distinct
<1>2. Offered(listing) \in Seq(QuantKeys)
  BY <1>1, OnlyTyped DEF Offered
<1>3. Distinct(Offered(listing))
  BY <1>1, OnlyDistinct DEF Offered
<1>4. ToSet(Offered(listing)) = Whole(listing)
  <2>1. ToSet(Offered(listing)) = ToSet(KEYS_IN_ORDER) \cap Whole(listing)
    BY <1>1, OnlySet DEF Offered
  <2> QED BY <1>1, <2>1 DEF Whole
<1>5. DOMAIN Offered(listing) = 1..Len(Offered(listing)) /\ Len(Offered(listing)) \in Nat
  BY <1>2, LenProperties
<1>6. QuantCandidates(listing) = [i \in DOMAIN Offered(listing) |-> CandidateOf(listing, Offered(listing)[i])]
  BY Zenon DEF QuantCandidates, Offered, Whole
<1> QED BY <1>2, <1>3, <1>4, <1>5, <1>6

LEMMA CandidateHasKey == \A listing, key : CandidateOf(listing, key).key = key
BY DEF CandidateOf

\* A key that is there whole is matched; its twin if it is not; else nothing.
LEMMA KeyIsMatched ==
  ASSUME NEW listing, NEW key \in QuantKeys
  PROVE  LET candidates == QuantCandidates(listing)
             twin == [key EXCEPT !.imatrix = ~key.imatrix]
             matched == MatchQuant(candidates, key)
         IN /\ matched \subseteq DOMAIN candidates
            /\ key \in Whole(listing) => matched # {} /\ \A i \in matched : candidates[i].key = key
            /\ key \notin Whole(listing) /\ twin \in Whole(listing) =>
                 matched # {} /\ \A i \in matched : candidates[i].key = twin
            /\ key \notin Whole(listing) /\ twin \notin Whole(listing) => matched = {}
<1> DEFINE keys == Offered(listing)
           candidates == QuantCandidates(listing)
           twin == [key EXCEPT !.imatrix = ~key.imatrix]
           exact == {i \in DOMAIN candidates : candidates[i].key = key}
           fuzzy == {i \in DOMAIN candidates : candidates[i].key.quant = key.quant}
<1>1. /\ DOMAIN candidates = DOMAIN keys
      /\ \A i \in DOMAIN keys : candidates[i].key = keys[i] /\ keys[i] \in QuantKeys
      /\ \A i, j \in DOMAIN keys : keys[i] = keys[j] => i = j
      /\ \A k : k \in Whole(listing) <=> \E i \in DOMAIN keys : keys[i] = k
  <2>1. candidates = [i \in DOMAIN keys |-> CandidateOf(listing, keys[i])]
    BY OfferedIs
  <2>2. keys \in Seq(QuantKeys) /\ Distinct(keys) /\ ToSet(keys) = Whole(listing)
    BY OfferedIs
  <2> HIDE DEF candidates, keys
  <2>3. \A i \in DOMAIN keys : candidates[i].key = keys[i]
    BY <2>1, CandidateHasKey
  <2>4. \A i \in DOMAIN keys : keys[i] \in QuantKeys
    BY <2>2
  <2>5. \A k : k \in Whole(listing) <=> \E i \in DOMAIN keys : keys[i] = k
    BY <2>2 DEF ToSet
  <2> QED BY <2>1, <2>2, <2>3, <2>4, <2>5 DEF Distinct
<1>2. MatchQuant(candidates, key) =
        CASE exact # {} -> exact [] exact = {} /\ Cardinality(fuzzy) = 1 -> fuzzy [] OTHER -> {}
  BY Zenon DEF MatchQuant
<1> HIDE DEF candidates, keys
<1>3. exact = {i \in DOMAIN keys : keys[i] = key}
  BY <1>1
<1>4. fuzzy = {i \in DOMAIN keys : keys[i].quant = key.quant}
  BY <1>1
<1>5. twin \in QuantKeys /\ \A k \in QuantKeys : k.quant = key.quant <=> k = key \/ k = twin
  <2>1. key.imatrix \in BOOLEAN /\ key.quant \in QUANT_TOKENS
    BY DEF QuantKeys
  <2>2. \A k \in QuantKeys : k = [imatrix |-> k.imatrix, quant |-> k.quant] /\ k.imatrix \in BOOLEAN
    BY DEF QuantKeys
  <2>3. twin = [imatrix |-> ~key.imatrix, quant |-> key.quant]
    BY DEF QuantKeys
  <2>4. twin.imatrix = ~key.imatrix /\ twin.quant = key.quant /\ twin \in QuantKeys
    <3> HIDE DEF twin
    <3> QED BY <2>1, <2>3 DEF QuantKeys
  <2> HIDE DEF twin
  <2>5. ASSUME NEW k \in QuantKeys PROVE k.quant = key.quant <=> k = key \/ k = twin
    <3>1. CASE k.imatrix = key.imatrix
      <4>1. k.quant = key.quant => k = key
        BY <2>2, <3>1, Zenon
      <4> QED BY <2>4, <4>1
    <3>2. CASE k.imatrix # key.imatrix
      <4>1. k.imatrix = ~key.imatrix
        BY <2>1, <2>2, <3>2
      <4>2. k.quant = key.quant => k = twin
        BY <2>2, <2>3, <4>1, Zenon
      <4> QED BY <2>4, <4>2
    <3> QED BY <3>1, <3>2
  <2> QED BY <2>4, <2>5
<1> HIDE DEF twin, exact, fuzzy
<1>6. CASE key \in Whole(listing)
  <2>1. exact # {}
    BY <1>1, <1>3, <1>6
  <2>2. MatchQuant(candidates, key) = exact
    BY <1>2, <2>1
  <2>3. exact \subseteq DOMAIN candidates /\ \A i \in exact : candidates[i].key = key
    BY <1>1, <1>3
  <2> QED BY <1>6, <2>1, <2>2, <2>3 DEF candidates
<1>7. CASE key \notin Whole(listing)
  <2>1. exact = {}
    BY <1>1, <1>3, <1>7
  <2>2. fuzzy = {i \in DOMAIN keys : keys[i] = twin}
    BY <1>1, <1>4, <1>5, <1>7
  <2>3. CASE twin \in Whole(listing)
    <3>1. PICK i \in DOMAIN keys : keys[i] = twin
      BY <1>1, <2>3
    <3>2. fuzzy = {i}
      BY <1>1, <2>2, <3>1
    <3>3. Cardinality(fuzzy) = 1
      BY <3>2, FS_Singleton
    <3>4. MatchQuant(candidates, key) = fuzzy
      BY <1>2, <2>1, <3>3
    <3>5. fuzzy \subseteq DOMAIN candidates /\ fuzzy # {} /\ \A j \in fuzzy : candidates[j].key = twin
      BY <1>1, <3>1, <3>2
    <3> QED BY <1>7, <2>3, <3>4, <3>5 DEF candidates, twin
  <2>4. CASE twin \notin Whole(listing)
    <3>1. fuzzy = {}
      BY <1>1, <2>2, <2>4
    <3>2. Cardinality(fuzzy) = 0
      BY <3>1, FS_EmptySet
    <3>3. MatchQuant(candidates, key) = {}
      BY <1>2, <2>1, <3>2
    <3> QED BY <1>7, <2>4, <3>3 DEF candidates, twin
  <2> QED BY <2>3, <2>4
<1> QED BY <1>6, <1>7


-----------------------------------------------------------------------------
(* The files of a candidate are its shards, in their order.                    *)

\* The only increasing way from a range to itself is to stay.
LEMMA IncreasingStays ==
  ASSUME NEW n \in Nat, NEW e, \A i \in 1..n : e[i] \in 1..n, \A i, j \in 1..n : i < j => e[i] < e[j]
  PROVE  \A i \in 1..n : e[i] = i
<1> DEFINE Up == {i \in 0..n : i # 0 => e[i] >= i}
           Down == {i \in 0..n : i # 0 => e[n + 1 - i] <= n + 1 - i}
<1>1. \A i \in 1..n : e[i] \in 1..n /\ e[i] \in Int
  OBVIOUS
<1>2. 0..n \subseteq Up
  <2>1. 0 \in Up
    OBVIOUS
  <2>2. ASSUME NEW i \in 1..n, i - 1 \in Up PROVE i \in Up
    <3>1. CASE i = 1
      BY <1>1, <3>1
    <3>2. CASE i # 1
      <4>1. i - 1 \in 1..n /\ i - 1 < i /\ e[i - 1] >= i - 1
        BY <2>2, <3>2
      <4>2. e[i - 1] < e[i]
        BY <4>1
      <4>3. e[i] >= i
        BY <1>1, <4>1, <4>2
      <4> QED BY <4>3
    <3> QED BY <3>1, <3>2
  <2> HIDE DEF Up
  <2> QED BY <2>1, <2>2, UpTo
<1>3. 0..n \subseteq Down
  <2>1. 0 \in Down
    OBVIOUS
  <2>2. ASSUME NEW i \in 1..n, i - 1 \in Down PROVE i \in Down
    <3>1. CASE i = 1
      <4>1. n + 1 - i = n /\ n \in 1..n
        BY <3>1
      <4>2. e[n] <= n
        BY <1>1, <4>1
      <4> QED BY <4>1, <4>2
    <3>2. CASE i # 1
      <4> DEFINE k == n + 1 - i
      <4>1. k \in 1..n /\ k + 1 \in 1..n /\ k < k + 1 /\ n + 1 - (i - 1) = k + 1 /\ i - 1 # 0
        BY <3>2
      <4>2. e[n + 1 - (i - 1)] <= n + 1 - (i - 1)
        BY <2>2, <4>1
      <4>3. e[k + 1] <= k + 1
        BY <4>1, <4>2
      <4>4. e[k] < e[k + 1]
        BY <4>1
      <4>5. e[k] <= k
        <5>1. e[k] \in Int /\ e[k + 1] \in Int
          BY <1>1, <4>1
        <5> HIDE DEF k
        <5> QED BY <4>1, <4>3, <4>4, <5>1
      <4> QED BY <4>5
    <3> QED BY <3>1, <3>2
  <2> HIDE DEF Down
  <2> QED BY <2>1, <2>2, UpTo
<1>4. SUFFICES ASSUME NEW i \in 1..n PROVE e[i] = i
  OBVIOUS
<1>5. e[i] >= i
  BY <1>2
<1>6. e[i] <= i
  <2>1. n + 1 - i \in 1..n /\ n + 1 - i # 0 /\ n + 1 - (n + 1 - i) = i
    OBVIOUS
  <2> DEFINE k == n + 1 - i
  <2>2. e[n + 1 - k] <= n + 1 - k
    BY <1>3, <2>1
  <2> QED BY <2>1, <2>2
<1> QED BY <1>1, <1>5, <1>6

Shard(file) == file.shard = <<>> \/ file.shard \in Nat \X Nat

\* An order of the files exists, so the one that is chosen is one.
LEMMA OrderIs ==
  ASSUME NEW parts, NEW F \in [1..Cardinality(parts) -> parts],
         \A i, j \in DOMAIN F : i < j => F[i] # F[j] /\ ShardIndex(F[i]) <= ShardIndex(F[j])
  PROVE  LET G == InShardOrder(parts)
         IN /\ G \in [1..Cardinality(parts) -> parts]
            /\ \A i, j \in 1..Cardinality(parts) : i < j => G[i] # G[j] /\ ShardIndex(G[i]) <= ShardIndex(G[j])
<1> DEFINE G == InShardOrder(parts)
<1>1. /\ G \in [1..Cardinality(parts) -> parts]
      /\ \A i, j \in DOMAIN G : i < j => G[i] # G[j] /\ ShardIndex(G[i]) <= ShardIndex(G[j])
  <2> DEFINE Ordered(H) == \A i, j \in DOMAIN H : i < j => /\ H[i] # H[j]
                                                          /\ ShardIndex(H[i]) <= ShardIndex(H[j])
             Orders == [1..Cardinality(parts) -> parts]
  <2>1. G = CHOOSE H \in Orders : Ordered(H)
    BY Zenon DEF InShardOrder
  <2>2. F \in Orders /\ Ordered(F)
    OBVIOUS
  <2> HIDE DEF G, Ordered, Orders
  <2>3. G \in Orders /\ Ordered(G)
    BY <2>1, <2>2
  <2> QED BY <2>3 DEF Ordered, Orders
<1> HIDE DEF G
<1>2. DOMAIN G = 1..Cardinality(parts)
  BY <1>1
<1>3. \A i, j \in 1..Cardinality(parts) : i < j => G[i] # G[j] /\ ShardIndex(G[i]) <= ShardIndex(G[j])
  BY <1>1, <1>2
<1> QED BY <1>1, <1>3 DEF G

LEMMA OneFile ==
  ASSUME NEW f, f.shard = <<>>
  PROVE  LET G == InShardOrder({f})
         IN Cardinality({f}) = 1 /\ G \in [1..1 -> {f}] /\ G[1] = f
<1>1. Cardinality({f}) = 1
  BY FS_Singleton
<1> DEFINE F == [i \in 1..1 |-> f]
<1>2. F \in [1..Cardinality({f}) -> {f}] /\ \A i, j \in DOMAIN F : ~(i < j)
  BY <1>1
<1>3. InShardOrder({f}) \in [1..Cardinality({f}) -> {f}]
  <2> HIDE DEF F
  <2> QED BY <1>2, OrderIs
<1> DEFINE G == InShardOrder({f})
<1> HIDE DEF G
<1>4. G \in [1..1 -> {f}]
  BY <1>1, <1>3 DEF G
<1>5. G[1] = f
  BY <1>4
<1> QED BY <1>1, <1>4, <1>5 DEF G

LEMMA ShardsInOrder ==
  ASSUME NEW parts, NEW n \in Nat, \A f \in parts : f.shard \in Nat \X Nat /\ f.shard[2] = n,
         \A f, g \in parts : f.shard[1] = g.shard[1] => f = g, {g.shard[1] : g \in parts} = 1..n
  PROVE  LET G == InShardOrder(parts)
         IN Cardinality(parts) = n /\ G \in [1..n -> parts] /\ \A i \in 1..n : G[i].shard = <<i, n>>
<1> DEFINE G == InShardOrder(parts)
           F == [i \in 1..n |-> CHOOSE g \in parts : g.shard[1] = i]
<1>1. \A i \in 1..n : \E g \in parts : g.shard[1] = i
  <2>1. \A i \in {g.shard[1] : g \in parts} : \E g \in parts : g.shard[1] = i
    OBVIOUS
  <2> QED BY <2>1
<1>2. \A g \in parts : g.shard[1] \in 1..n
  <2>1. \A g \in parts : g.shard[1] \in {h.shard[1] : h \in parts}
    OBVIOUS
  <2> QED BY <2>1
<1>3. \A i \in 1..n : F[i] \in parts /\ F[i].shard[1] = i
  BY <1>1
<1>4. F \in [1..n -> parts]
  <2>1. F = [i \in 1..n |-> F[i]]
    OBVIOUS
  <2> HIDE DEF F
  <2> QED BY <1>3, <2>1
<1>5. Cardinality(parts) = n
  <2> HIDE DEF F
  <2>1. \A i, j \in 1..n : F[i] = F[j] => i = j
    BY <1>3
  <2>2. \A g \in parts : g.shard[1] \in 1..n /\ F[g.shard[1]] = g
    BY <1>2, <1>3
  <2>3. F \in Bijection(1..n, parts)
    <3>1. F \in Injection(1..n, parts)
      BY <1>4, <2>1 DEF Injection, IsInjective
    <3>2. \A g \in parts : \E i \in 1..n : F[i] = g
      BY <2>2
    <3>3. F \in Surjection(1..n, parts)
      BY <1>4, <3>2 DEF Surjection
    <3> QED BY <3>1, <3>3 DEF Bijection
  <2>4. ExistsBijection(1..n, parts)
    BY <2>3 DEF ExistsBijection
  <2> QED BY <2>4, FS_CountingElements
<1>6. \A g \in parts : ShardIndex(g) = g.shard[1]
  <2>1. \A g \in parts : g.shard # <<>>
    <3>1. <<>> \notin Nat \X Nat
      OBVIOUS
    <3> QED BY <3>1
  <2> QED BY <2>1 DEF ShardIndex
<1> HIDE DEF F
<1>7. \A i, j \in DOMAIN F : i < j => F[i] # F[j] /\ ShardIndex(F[i]) <= ShardIndex(F[j])
  BY <1>3, <1>4, <1>6
<1>8. G \in [1..n -> parts] /\ \A i, j \in 1..n : i < j => G[i] # G[j] /\ ShardIndex(G[i]) <= ShardIndex(G[j])
  <2> HIDE DEF G
  <2>1. F \in [1..Cardinality(parts) -> parts]
    BY <1>5, <1>4
  <2> QED BY <1>5, <1>7, <2>1, OrderIs DEF G
<1> HIDE DEF G
<1> DEFINE e == [i \in 1..n |-> G[i].shard[1]]
<1>9. \A i \in 1..n : G[i] \in parts
  BY <1>8
<1>10. \A i \in 1..n : e[i] \in 1..n
  BY <1>2, <1>9
<1>11. \A i, j \in 1..n : i < j => e[i] < e[j]
  <2>1. SUFFICES ASSUME NEW i \in 1..n, NEW j \in 1..n, i < j PROVE G[i].shard[1] < G[j].shard[1]
    OBVIOUS
  <2>2. G[i] # G[j] /\ G[i].shard[1] <= G[j].shard[1] /\ G[i] \in parts /\ G[j] \in parts
    BY <1>6, <1>8, <1>9, <2>1
  <2>3. G[i].shard[1] # G[j].shard[1]
    BY <2>2
  <2>4. G[i].shard[1] \in Int /\ G[j].shard[1] \in Int
    BY <1>2, <2>2
  <2> QED BY <2>2, <2>3, <2>4
<1> HIDE DEF e
<1>12. \A i \in 1..n : e[i] = i
  BY <1>10, <1>11, IncreasingStays
<1>13. ASSUME NEW i \in 1..n PROVE G[i].shard = <<i, n>>
  <2>1. G[i].shard[1] = i
    BY <1>12 DEF e
  <2>2. G[i].shard \in Nat \X Nat /\ G[i].shard[2] = n
    BY <1>9
  <2> QED BY <2>1, <2>2
<1> QED BY <1>5, <1>8, <1>13 DEF G

\* The files of a set that is complete: one without a shard, or shards 1 to n of n.
LEMMA CompleteInOrder ==
  ASSUME NEW parts, \A f \in parts : Shard(f), IsCompleteSet(parts), parts # {}
  PROVE  LET G == InShardOrder(parts)
             n == Cardinality(parts)
         IN /\ n \in Nat /\ n > 0 /\ G \in [1..n -> parts]
            /\ \A i \in 1..n : G[i].shard = <<i, n>> \/ (n = 1 /\ G[i].shard = <<>>)
<1> DEFINE G == InShardOrder(parts)
           n == Cardinality(parts)
<1>1. CASE \E f \in parts : parts = {f} /\ f.shard = <<>>
  <2>1. PICK f \in parts : parts = {f} /\ f.shard = <<>>
    BY <1>1
  <2>2. n = 1 /\ G \in [1..1 -> parts] /\ G[1] = f
    BY <2>1, OneFile
  <2> HIDE DEF G, n
  <2>3. \A i \in 1..n : i = 1
    BY <2>2
  <2>4. G[1].shard = <<>>
    BY <2>1, <2>2
  <2>5. /\ n \in Nat /\ n > 0 /\ G \in [1..n -> parts]
        /\ \A i \in 1..n : G[i].shard = <<i, n>> \/ (n = 1 /\ G[i].shard = <<>>)
    BY <2>2, <2>3, <2>4
  <2> QED BY <2>5 DEF G, n
<1>2. CASE ~\E f \in parts : parts = {f} /\ f.shard = <<>>
  <2>1. /\ \A f \in parts : f.shard # <<>>
        /\ \A f, g \in parts : f.shard[1] = g.shard[1] => f = g
    BY <1>2 DEF IsCompleteSet
  <2>2. PICK f \in parts : (\A g \in parts : g.shard[2] = f.shard[2]) /\ {g.shard[1] : g \in parts} = 1..f.shard[2]
    BY <1>2 DEF IsCompleteSet
  <2>3. \A g \in parts : g.shard \in Nat \X Nat
    BY <2>1 DEF Shard
  <2> DEFINE total == f.shard[2]
  <2>4. total \in Nat /\ \A g \in parts : g.shard \in Nat \X Nat /\ g.shard[2] = total
    BY <2>2, <2>3
  <2>5. {g.shard[1] : g \in parts} = 1..total
    BY <2>2
  <2>6. f.shard[1] \in 1..total
    <3>1. f.shard[1] \in {g.shard[1] : g \in parts}
      OBVIOUS
    <3> QED BY <2>5, <3>1
  <2> HIDE DEF total
  <2>7. n = total /\ G \in [1..total -> parts] /\ \A i \in 1..total : G[i].shard = <<i, total>>
    BY <2>1, <2>4, <2>5, ShardsInOrder
  <2> HIDE DEF G, n
  <2>8. n > 0
    BY <2>4, <2>6, <2>7
  <2>9. /\ n \in Nat /\ n > 0 /\ G \in [1..n -> parts]
        /\ \A i \in 1..n : G[i].shard = <<i, n>> \/ (n = 1 /\ G[i].shard = <<>>)
    BY <2>4, <2>7, <2>8
  <2> QED BY <2>9 DEF G, n
<1> QED BY <1>1, <1>2


-----------------------------------------------------------------------------
(* The candidate of a key: its plainest base, with its files in order.         *)

LEMMA PositionIs ==
  ASSUME NEW segments \in Seq(Text)
  PROVE  QuantPosition(segments) \in 0..Len(segments)
<1> DEFINE positions == {i \in DOMAIN segments : IsQuantToken(segments[i])}
<1>1. PICK N \in Nat : N = Len(segments) /\ DOMAIN segments = 1..N
  BY LenProperties
<1>2. CASE positions = {}
  BY <1>1, <1>2 DEF QuantPosition
<1>3. CASE positions # {}
  <2> DEFINE T == {N - i : i \in positions}
  <2>1. positions \subseteq 1..N
    BY <1>1
  <2> HIDE DEF positions
  <2>2. T \in SUBSET Nat /\ T # {}
    BY <1>3, <2>1
  <2>3. PICK m \in T : \A k \in T : m <= k
    <3> HIDE DEF T
    <3> QED BY <2>2, LeastOf
  <2>4. PICK i \in positions : m = N - i
    OBVIOUS
  <2>5. \A j \in positions : j <= i
    <3>1. SUFFICES ASSUME NEW j \in positions PROVE j <= i
      OBVIOUS
    <3>2. N - j \in T
      OBVIOUS
    <3>3. N - i <= N - j
      BY <2>3, <2>4, <3>2
    <3> QED BY <2>1, <3>3
  <2>6. (CHOOSE k \in positions : \A j \in positions : j <= k) \in positions
    BY <2>5
  <2>7. QuantPosition(segments) = CHOOSE k \in positions : \A j \in positions : j <= k
    BY <1>3 DEF QuantPosition, positions
  <2>8. QuantPosition(segments) \in positions
    BY <2>6, <2>7, Zenon
  <2>9. QuantPosition(segments) \in 1..N
    BY <2>1, <2>8
  <2> HIDE DEF T
  <2> QED BY <1>1, <2>9
<1> QED BY <1>2, <1>3

Listing(listing) == IsFiniteSet(listing) /\ \A file \in listing : IsFile(file)

PlainestOf(bases) == CHOOSE b \in bases : \A other \in bases : QualifierCount(b) <= QualifierCount(other)

LEMMA PlainestIs ==
  ASSUME NEW bases \in SUBSET Seq(Text), bases # {}
  PROVE  PlainestOf(bases) \in bases
<1> DEFINE T == {QualifierCount(b) : b \in bases}
<1>1. \A b \in bases : QualifierCount(b) \in Nat
  <2>1. SUFFICES ASSUME NEW b \in bases PROVE QualifierCount(b) \in Nat
    OBVIOUS
  <2>2. QuantPosition(b) \in 0..Len(b) /\ Len(b) \in Nat
    BY PositionIs, LenProperties
  <2> QED BY <2>2 DEF QualifierCount
<1>2. T \in SUBSET Nat /\ T # {}
  BY <1>1
<1>3. PICK m \in T : \A k \in T : m <= k
  <2> HIDE DEF T
  <2> QED BY <1>2, LeastOf
<1>4. PICK b \in bases : m = QualifierCount(b)
  OBVIOUS
<1>5. \A other \in bases : QualifierCount(b) <= QualifierCount(other)
  BY <1>3, <1>4
<1> QED BY <1>5 DEF PlainestOf

\* What SelectionIsLoadable says of one candidate.
Loadable(listing, candidate) ==
  LET files == candidate.files
      n == Len(files)
  IN /\ n > 0 /\ ToSet(files) \subseteq listing
     /\ \A i \in 1..n : /\ files[i].segments = files[1].segments
                        /\ files[i].segments[1] \notin AUXILIARY_PREFIXES
                        /\ files[i].shard = <<i, n>> \/ (n = 1 /\ files[i].shard = <<>>)
     /\ n <= MAX_SHARD_COUNT =>
          [i \in 1..n |-> [segments |-> files[i].segments, shard |-> files[i].shard]]
            = ShardFilesFromPrimary(files[1])

\* The sizes of files that have one add up to a size.
Adds(f, files, N) == f = [n \in 0..N |-> IF n = 0 THEN 0 ELSE f[n - 1] + files[n].size[1]]

LEMMA AddsExist ==
  ASSUME NEW files, NEW N \in Nat
  PROVE  \E f : Adds(f, files, N)
<1> DEFINE S == {n \in Nat : \E f : Adds(f, files, n)}
<1>1. 0 \in S
  <2> DEFINE f == [n \in 0..0 |-> 0]
  <2>1. f = [n \in 0..0 |-> IF n = 0 THEN 0 ELSE f[n - 1] + files[n].size[1]]
    OBVIOUS
  <2>2. Adds(f, files, 0)
    <3> HIDE DEF f
    <3> QED BY <2>1 DEF Adds
  <2> QED BY <2>2
<1>2. ASSUME NEW n \in Nat, n \in S PROVE n + 1 \in S
  <2>1. PICK f : Adds(f, files, n)
    BY <1>2
  <2> DEFINE g == [i \in 0..(n + 1) |-> IF i = n + 1 THEN f[i - 1] + files[i].size[1] ELSE f[i]]
  <2>2. \A i \in 0..n : f[i] = IF i = 0 THEN 0 ELSE f[i - 1] + files[i].size[1]
    BY <2>1 DEF Adds
  <2>3. \A i \in 0..(n + 1) : g[i] = IF i = 0 THEN 0 ELSE g[i - 1] + files[i].size[1]
    BY <2>2
  <2>4. g = [i \in 0..(n + 1) |-> g[i]]
    OBVIOUS
  <2>5. g = [i \in 0..(n + 1) |-> IF i = 0 THEN 0 ELSE g[i - 1] + files[i].size[1]]
    <3> HIDE DEF g
    <3> QED BY <2>3, <2>4
  <2>6. Adds(g, files, n + 1)
    BY <2>5 DEF Adds
  <2> QED BY <2>6
<1>3. Nat \subseteq S
  <2> HIDE DEF S
  <2> QED BY <1>1, <1>2, AllNumbers
<1> QED BY <1>3

LEMMA SizeIs ==
  ASSUME NEW files, Len(files) \in Nat, DOMAIN files = 1..Len(files), \A i \in DOMAIN files : IsOption(files[i].size, Nat)
  PROVE  TotalSize(files) # <<>> => TotalSize(files)[1] \in Nat
<1> DEFINE N == Len(files)
           f == CHOOSE g : Adds(g, files, N)
<1>1. TotalSize(files) = IF \E i \in DOMAIN files : files[i].size = <<>> THEN <<>> ELSE <<f[N]>>
  BY Zenon DEF TotalSize, Adds
<1>2. Adds(f, files, N)
  BY AddsExist
<1>3. CASE \A i \in DOMAIN files : files[i].size # <<>>
  <2>1. \A i \in 1..N : files[i].size[1] \in Nat
    BY <1>3 DEF IsOption, Some, None
  <2> HIDE DEF f
  <2>2. \A n \in 0..N : f[n] = IF n = 0 THEN 0 ELSE f[n - 1] + files[n].size[1]
    BY <1>2 DEF Adds
  <2> DEFINE S == {n \in 0..N : f[n] \in Nat}
  <2>3. 0 \in S
    BY <2>2
  <2>4. ASSUME NEW n \in 1..N, n - 1 \in S PROVE n \in S
    BY <2>1, <2>2, <2>4
  <2>5. 0..N \subseteq S
    <3> HIDE DEF S
    <3> QED BY <2>3, <2>4, UpTo
  <2> QED BY <1>1, <2>5
<1> HIDE DEF f
<1> QED BY <1>1, <1>3

LEMMA CandidateIs ==
  ASSUME NEW listing, Listing(listing), NEW key, CompleteBases(listing, key) # {}
  PROVE  LET c == CandidateOf(listing, key)
         IN /\ Loadable(listing, c)
            /\ c.total_size # <<>> => c.total_size[1] \in Nat
<1> DEFINE bases == CompleteBases(listing, key)
           base == PlainestOf(bases)
           parts == BaseFiles(listing, base)
           files == InShardOrder(parts)
           n == Cardinality(parts)
           c == CandidateOf(listing, key)
<1>1. c.files = files /\ c.total_size = TotalSize(files)
  <2>1. c = [key |-> key, files |-> files, total_size |-> TotalSize(files)]
    BY Zenon DEF CandidateOf, PlainestOf
  <2> HIDE DEF c, files
  <2> QED BY <2>1
<1>2. bases \subseteq Seq(Text)
  BY DEF CompleteBases, Listing, IsFile
<1>3. base \in bases
  <2> HIDE DEF bases
  <2> QED BY <1>2, PlainestIs DEF bases
<1> HIDE DEF base
<1>4. parts # {} /\ IsCompleteSet(parts)
  BY <1>3 DEF CompleteBases
<1> HIDE DEF bases
<1>5. /\ parts \subseteq listing
      /\ \A f \in parts : /\ f.segments = base /\ f.segments[1] \notin AUXILIARY_PREFIXES
                          /\ Shard(f) /\ IsOption(f.size, Nat)
  BY DEF BaseFiles, IsAuxiliary, Listing, IsFile, Shard
<1> HIDE DEF parts
<1>6. /\ n \in Nat /\ n > 0 /\ files \in [1..n -> parts]
      /\ \A i \in 1..n : files[i].shard = <<i, n>> \/ (n = 1 /\ files[i].shard = <<>>)
  BY <1>4, <1>5, CompleteInOrder
<1> HIDE DEF files, n
<1>7. DOMAIN files = 1..n /\ Len(files) = n /\ \A i \in 1..n : files[i] \in parts
  BY <1>6
<1>8. \A i \in 1..n : /\ files[i].segments = files[1].segments
                      /\ files[i].segments[1] \notin AUXILIARY_PREFIXES
  <2>1. 1 \in 1..n
    BY <1>6
  <2> QED BY <1>5, <1>7, <2>1
<1>9. ToSet(files) \subseteq listing
  BY <1>5, <1>7 DEF ToSet
<1>10. ASSUME n <= MAX_SHARD_COUNT
       PROVE  [i \in 1..n |-> [segments |-> files[i].segments, shard |-> files[i].shard]]
                = ShardFilesFromPrimary(files[1])
  <2>1. 1 \in 1..n /\ (files[1].shard = <<1, n>> \/ (n = 1 /\ files[1].shard = <<>>))
    BY <1>6
  <2>2. CASE n = 1
    <3>1. ~(files[1].shard # <<>> /\ files[1].shard[1] = 1 /\ files[1].shard[2] \in 2..MAX_SHARD_COUNT)
      <4>1. CASE files[1].shard = <<>>
        BY <4>1
      <4>2. CASE files[1].shard = <<1, n>>
        <5>1. files[1].shard[2] = 1
          BY <2>2, <4>2
        <5> QED BY <5>1, ShardAssumption
      <4> QED BY <2>1, <4>1, <4>2
    <3>2. ShardFilesFromPrimary(files[1]) = <<[segments |-> files[1].segments, shard |-> files[1].shard]>>
      BY <3>1 DEF ShardFilesFromPrimary
    <3>3. \A x : [i \in 1..1 |-> x] = <<x>>
      OBVIOUS
    <3> DEFINE Named(i) == [segments |-> files[i].segments, shard |-> files[i].shard]
    <3>4. [i \in 1..n |-> Named(i)] = [i \in 1..1 |-> Named(1)]
      <4> HIDE DEF Named
      <4>1. \A i \in 1..1 : i = 1
        OBVIOUS
      <4> QED BY <2>2, <4>1
    <3>5. [i \in 1..1 |-> Named(1)] = <<Named(1)>>
      BY <3>3, Zenon
    <3> QED BY <3>2, <3>4, <3>5, Zenon
  <2>3. CASE n # 1
    <3>1. files[1].shard = <<1, n>> /\ \A i \in 1..n : files[i].shard = <<i, n>>
      BY <1>6, <2>1, <2>3
    <3>2. files[1].shard # <<>> /\ files[1].shard[1] = 1 /\ files[1].shard[2] = n
      BY <3>1
    <3>3. n \in 2..MAX_SHARD_COUNT
      BY <1>6, <1>10, <2>3, ShardAssumption
    <3>4. ShardFilesFromPrimary(files[1]) = [i \in 1..n |-> [segments |-> files[1].segments, shard |-> <<i, n>>]]
      BY <3>2, <3>3 DEF ShardFilesFromPrimary
    <3>5. \A i \in 1..n : files[i].segments = files[1].segments /\ files[i].shard = <<i, n>>
      BY <1>8, <3>1
    <3>6. [i \in 1..n |-> [segments |-> files[i].segments, shard |-> files[i].shard]]
            = [i \in 1..n |-> [segments |-> files[1].segments, shard |-> <<i, n>>]]
      BY <3>5
    <3> QED BY <3>4, <3>6
  <2> QED BY <2>2, <2>3
<1>11. TotalSize(files) # <<>> => TotalSize(files)[1] \in Nat
  <2>1. \A i \in DOMAIN files : IsOption(files[i].size, Nat)
    BY <1>5, <1>7
  <2> QED BY <1>6, <1>7, <2>1, SizeIs
<1>12. Loadable(listing, c)
  <2> HIDE DEF c
  <2> QED BY <1>1, <1>6, <1>7, <1>8, <1>9, <1>10 DEF Loadable
<1> QED BY <1>1, <1>11, <1>12


-----------------------------------------------------------------------------
(* Which quant is chosen when none is asked for.                               *)

LEMMA LeastPicked ==
  ASSUME NEW S \in SUBSET Nat, S # {}
  PROVE  (CHOOSE i \in S : \A j \in S : i <= j) \in S
<1>1. \E i \in S : \A j \in S : i <= j
  BY LeastOf
<1> QED BY <1>1

\* Which come before one by size, then by position.
Below(s, n, i) == {j \in 1..n : s[j] < s[i] \/ (s[j] = s[i] /\ j < i)}

LEMMA BelowGrows ==
  ASSUME NEW n \in Nat, NEW s, \A i \in 1..n : s[i] \in Nat, NEW i \in 1..n
  PROVE  /\ IsFiniteSet(Below(s, n, i)) /\ Cardinality(Below(s, n, i)) \in 0..(n - 1)
         /\ \A j \in Below(s, n, i) : Cardinality(Below(s, n, j)) < Cardinality(Below(s, n, i))
<1>1. IsFiniteSet(1..n) /\ Cardinality(1..n) = n
  BY FS_Interval
<1>2. \A j \in 1..n : Below(s, n, j) \subseteq 1..n /\ j \notin Below(s, n, j)
  BY DEF Below
<1>3. \A j \in 1..n : IsFiniteSet(Below(s, n, j)) /\ Cardinality(Below(s, n, j)) \in Nat
  BY <1>1, <1>2, FS_Subset, FS_CardinalityType
<1>4. Cardinality(Below(s, n, i)) \in 0..(n - 1)
  <2> DEFINE rest == (1..n) \ {i}
  <2>1. IsFiniteSet(rest) /\ Cardinality(rest) = n - 1
    BY <1>1, FS_RemoveElement
  <2>2. Below(s, n, i) \subseteq rest
    BY <1>2
  <2> HIDE DEF rest
  <2>3. Cardinality(Below(s, n, i)) <= n - 1
    BY <2>1, <2>2, FS_Subset
  <2> QED BY <1>3, <2>3
<1>5. ASSUME NEW j \in Below(s, n, i) PROVE Cardinality(Below(s, n, j)) < Cardinality(Below(s, n, i))
  <2> DEFINE more == Below(s, n, j) \cup {j}
  <2>1. j \in 1..n
    BY <1>2
  <2>2. more \subseteq Below(s, n, i)
    <3>1. s[j] < s[i] \/ (s[j] = s[i] /\ j < i)
      BY DEF Below
    <3>2. SUFFICES ASSUME NEW k \in Below(s, n, j) PROVE k \in Below(s, n, i)
      OBVIOUS
    <3>3. k \in 1..n /\ (s[k] < s[j] \/ (s[k] = s[j] /\ k < j))
      BY DEF Below
    <3>4. s[i] \in Nat /\ s[j] \in Nat /\ s[k] \in Nat
      BY <2>1, <3>3
    <3>5. s[k] < s[i] \/ (s[k] = s[i] /\ k < i)
      BY <2>1, <3>1, <3>3, <3>4
    <3> QED BY <3>3, <3>5 DEF Below
  <2>3. Cardinality(more) = Cardinality(Below(s, n, j)) + 1
    BY <1>2, <1>3, <2>1, FS_AddElement
  <2> HIDE DEF more
  <2>4. Cardinality(more) <= Cardinality(Below(s, n, i))
    BY <1>3, <2>2, FS_Subset
  <2> QED BY <1>3, <2>1, <2>3, <2>4
<1> QED BY <1>3, <1>4, <1>5

LEMMA MiddleExists ==
  ASSUME NEW n \in Nat, n > 0, NEW s, \A i \in 1..n : s[i] \in Nat
  PROVE  \E i \in 1..n : Cardinality(Below(s, n, i)) = n \div 2
<1> DEFINE rank == [i \in 1..n |-> Cardinality(Below(s, n, i))]
           ranks == 0..(n - 1)
<1>1. rank \in [1..n -> ranks]
  BY BelowGrows
<1>2. \A i, j \in 1..n : rank[i] = rank[j] => i = j
  <2>1. SUFFICES ASSUME NEW i \in 1..n, NEW j \in 1..n, i # j PROVE rank[i] # rank[j]
    OBVIOUS
  <2>2. s[i] \in Nat /\ s[j] \in Nat
    OBVIOUS
  <2>3. i \in Below(s, n, j) \/ j \in Below(s, n, i)
    BY <2>1, <2>2 DEF Below
  <2>4. rank[i] \in Int /\ rank[j] \in Int
    BY BelowGrows
  <2>5. rank[i] < rank[j] \/ rank[j] < rank[i]
    BY <2>3, BelowGrows
  <2> QED BY <2>4, <2>5
<1> HIDE DEF rank
<1>3. rank \in Injection(1..n, ranks)
  BY <1>1, <1>2 DEF Injection, IsInjective
<1>4. IsFiniteSet(ranks) /\ Cardinality(ranks) = n /\ Cardinality(1..n) = n
  BY FS_Interval
<1> HIDE DEF ranks
<1>5. rank \in Surjection(1..n, ranks)
  BY <1>3, <1>4, FS_Injection
<1>6. n \div 2 \in ranks
  BY DEF ranks
<1>7. \E i \in 1..n : rank[i] = n \div 2
  BY <1>5, <1>6 DEF Surjection
<1> QED BY <1>7 DEF rank

LEMMA DefaultIsOne ==
  ASSUME NEW candidates, NEW n \in Nat, n > 0, Len(candidates) = n, DOMAIN candidates = 1..n,
         \A i \in 1..n : candidates[i].total_size # <<>> => candidates[i].total_size[1] \in Nat
  PROVE  DefaultIndex(candidates) \in 1..n
<1> DEFINE recommended == {i \in DOMAIN candidates : candidates[i].key.quant = "q4_k_m"}
           sized == \A i \in DOMAIN candidates : candidates[i].total_size # <<>>
           size(i) == candidates[i].total_size[1]
           first == CHOOSE i \in recommended : \A j \in recommended : i <= j
           median == CHOOSE i \in DOMAIN candidates :
                       Cardinality({j \in DOMAIN candidates : size(j) < size(i) \/ (size(j) = size(i) /\ j < i)})
                         = Len(candidates) \div 2
           middle == Len(candidates) \div 2
<1>1. DefaultIndex(candidates) =
        CASE recommended # {} -> first [] recommended = {} /\ sized -> median [] OTHER -> middle + 1
  BY Zenon DEF DefaultIndex
<1>2. CASE recommended # {}
  <2>1. recommended \in SUBSET Nat /\ recommended \subseteq 1..n
    OBVIOUS
  <2>2. first \in recommended
    <3> HIDE DEF recommended
    <3> QED BY <1>2, <2>1, LeastPicked
  <2> HIDE DEF first, recommended
  <2> QED BY <1>1, <1>2, <2>1, <2>2
<1>3. CASE recommended = {} /\ sized
  <2> DEFINE s == [i \in 1..n |-> size(i)]
             InMiddle(i) == Cardinality(Below(s, n, i)) = n \div 2
  <2>1. \A i \in 1..n : s[i] \in Nat /\ s[i] = size(i)
    BY <1>3
  <2>2. \A i \in 1..n :
          {j \in DOMAIN candidates : size(j) < size(i) \/ (size(j) = size(i) /\ j < i)} = Below(s, n, i)
    <3>1. SUFFICES ASSUME NEW i \in 1..n
                   PROVE  {j \in 1..n : size(j) < size(i) \/ (size(j) = size(i) /\ j < i)} = Below(s, n, i)
      OBVIOUS
    <3> HIDE DEF s, size
    <3> QED BY <2>1 DEF Below
  <2>3. \E i \in 1..n : InMiddle(i)
    <3> HIDE DEF s
    <3> QED BY <2>1, MiddleExists
  <2>4. median \in 1..n
    <3> DEFINE Fine(i) == Cardinality({j \in DOMAIN candidates : size(j) < size(i) \/ (size(j) = size(i) /\ j < i)})
                            = Len(candidates) \div 2
    <3>1. PICK i \in 1..n : InMiddle(i)
      BY <2>3
    <3>2. Fine(i)
      BY <2>2, <3>1
    <3>3. median = CHOOSE k \in DOMAIN candidates : Fine(k)
      OBVIOUS
    <3> HIDE DEF Fine, median
    <3> QED BY <3>2, <3>3
  <2> HIDE DEF median, recommended, sized
  <2> QED BY <1>1, <1>3, <2>4
<1>4. CASE recommended = {} /\ ~sized
  <2> HIDE DEF recommended, sized, first, median
  <2>1. DefaultIndex(candidates) = n \div 2 + 1
    BY <1>1, <1>4
  <2> QED BY <2>1
<1> QED BY <1>2, <1>3, <1>4

-----------------------------------------------------------------------------
(* What a launch chose.                                                        *)

LEMMA ChoiceIs ==
  ASSUME NEW listing, Listing(listing), NEW request, IsOption(request, QuantKeys)
  PROVE  LET answer == SelectQuant(QuantCandidates(listing), request)
             key == request[1]
             twin == [key EXCEPT !.imatrix = ~key.imatrix]
         IN /\ answer.error \in {"none", "Unknown", "NoneAvailable"}
            /\ answer.error = "none" => Loadable(listing, answer.candidate)
            /\ request # <<>> /\ CompleteBases(listing, key) # {} =>
                 answer.error = "none" /\ answer.candidate.key = key
            /\ request # <<>> /\ CompleteBases(listing, key) = {} /\ CompleteBases(listing, twin) # {} =>
                 answer.error = "none" /\ answer.candidate.key = twin
            /\ request # <<>> /\ CompleteBases(listing, key) = {} /\ CompleteBases(listing, twin) = {} =>
                 answer.error # "none"
<1> DEFINE candidates == QuantCandidates(listing)
           keys == Offered(listing)
           n == Len(keys)
           key == request[1]
           twin == [key EXCEPT !.imatrix = ~key.imatrix]
           picked == IF request = <<>> THEN {DefaultIndex(candidates)} ELSE MatchQuant(candidates, key)
           choice == CHOOSE i \in picked : TRUE
           answer == SelectQuant(candidates, request)
<1>1. /\ n \in Nat /\ DOMAIN candidates = 1..n /\ Len(candidates) = n
      /\ \A i \in 1..n : Loadable(listing, candidates[i])
      /\ \A i \in 1..n : candidates[i].total_size # <<>> => candidates[i].total_size[1] \in Nat
  <2>1. candidates = [i \in DOMAIN keys |-> CandidateOf(listing, keys[i])]
    BY OfferedIs
  <2>2. n \in Nat /\ DOMAIN keys = 1..n /\ ToSet(keys) = Whole(listing)
    BY OfferedIs
  <2> HIDE DEF keys, candidates, n
  <2>3. \A i \in 1..n : CompleteBases(listing, keys[i]) # {} /\ candidates[i] = CandidateOf(listing, keys[i])
    BY <2>1, <2>2 DEF ToSet, Whole
  <2>4. DOMAIN candidates = 1..n /\ Len(candidates) = n
    BY <2>1, <2>2
  <2>5. ASSUME NEW i \in 1..n
        PROVE  /\ Loadable(listing, candidates[i])
               /\ candidates[i].total_size # <<>> => candidates[i].total_size[1] \in Nat
    <3>1. CompleteBases(listing, keys[i]) # {} /\ candidates[i] = CandidateOf(listing, keys[i])
      BY <2>3
    <3> QED BY <3>1, CandidateIs
  <2> QED BY <2>2, <2>4, <2>5
<1>2. answer =
        CASE candidates = <<>> -> [error |-> "NoneAvailable"]
          [] candidates # <<>> /\ picked = {} -> [error |-> "Unknown"]
          [] OTHER -> [error |-> "none", candidate |-> candidates[choice]]
  BY Zenon DEF SelectQuant
<1>3. candidates = <<>> <=> n = 0
  <2> HIDE DEF candidates, n
  <2>1. candidates = <<>> => Len(candidates) = 0
    OBVIOUS
  <2>2. n = 0 => candidates = <<>>
    <3>1. candidates = [i \in DOMAIN candidates |-> candidates[i]]
      BY OfferedIs DEF candidates
    <3> QED BY <1>1, <3>1
  <2> QED BY <1>1, <2>1, <2>2
<1>4. n # 0 => picked \subseteq 1..n
  <2>1. CASE request = <<>>
    <3> HIDE DEF candidates, n
    <3>1. n # 0 => DefaultIndex(candidates) \in 1..n
      BY <1>1, DefaultIsOne
    <3> QED BY <2>1, <3>1
  <2>2. CASE request # <<>>
    <3>1. key \in QuantKeys
      BY <2>2 DEF IsOption, Some, None
    <3>2. MatchQuant(candidates, key) \subseteq DOMAIN candidates
      <4> HIDE DEF key
      <4> QED BY <3>1, KeyIsMatched
    <3> HIDE DEF candidates, n
    <3> QED BY <1>1, <2>2, <3>2
  <2> QED BY <2>1, <2>2
<1>5. picked # {} => choice \in picked
  <2> HIDE DEF picked
  <2> QED OBVIOUS
<1>6. request # <<>> =>
        /\ key \in QuantKeys /\ twin \in QuantKeys
        /\ CompleteBases(listing, key) # {} => picked # {} /\ \A i \in picked : candidates[i].key = key
        /\ CompleteBases(listing, key) = {} /\ CompleteBases(listing, twin) # {} =>
             picked # {} /\ \A i \in picked : candidates[i].key = twin
        /\ CompleteBases(listing, key) = {} /\ CompleteBases(listing, twin) = {} => picked = {}
  <2>1. SUFFICES ASSUME request # <<>>
                 PROVE  /\ key \in QuantKeys /\ twin \in QuantKeys
                        /\ CompleteBases(listing, key) # {} => picked # {} /\ \A i \in picked : candidates[i].key = key
                        /\ CompleteBases(listing, key) = {} /\ CompleteBases(listing, twin) # {} =>
                             picked # {} /\ \A i \in picked : candidates[i].key = twin
                        /\ CompleteBases(listing, key) = {} /\ CompleteBases(listing, twin) = {} => picked = {}
    OBVIOUS
  <2>2. key \in QuantKeys
    BY <2>1 DEF IsOption, Some, None
  <2>3. twin \in QuantKeys
    <3> HIDE DEF key
    <3> QED BY <2>2 DEF QuantKeys
  <2>4. picked = MatchQuant(candidates, key)
    BY <2>1
  <2>5. /\ key \in Whole(listing) <=> CompleteBases(listing, key) # {}
        /\ twin \in Whole(listing) <=> CompleteBases(listing, twin) # {}
    BY <2>2, <2>3 DEF Whole
  <2> HIDE DEF key
  <2>6. /\ key \in Whole(listing) => MatchQuant(candidates, key) # {} /\ \A i \in MatchQuant(candidates, key) : candidates[i].key = key
        /\ key \notin Whole(listing) /\ twin \in Whole(listing) =>
             MatchQuant(candidates, key) # {} /\ \A i \in MatchQuant(candidates, key) : candidates[i].key = twin
        /\ key \notin Whole(listing) /\ twin \notin Whole(listing) => MatchQuant(candidates, key) = {}
    BY <2>2, KeyIsMatched
  <2> HIDE DEF candidates, twin, picked
  <2> QED BY <2>2, <2>3, <2>4, <2>5, <2>6
<1> HIDE DEF answer, choice, picked, candidates, n, key, twin
<1>7. CASE n = 0
  <2>1. answer.error = "NoneAvailable"
    BY <1>2, <1>3, <1>7
  <2>2. picked # {} => request = <<>> \/ MatchQuant(candidates, key) # {}
    BY DEF picked
  <2>3. request # <<>> => picked = {}
    <3>1. SUFFICES ASSUME request # <<>> PROVE picked = {}
      OBVIOUS
    <3>2. key \in QuantKeys /\ picked = MatchQuant(candidates, key)
      BY <1>6, <3>1 DEF picked
    <3>3. MatchQuant(candidates, key) \subseteq DOMAIN candidates
      BY <3>2, KeyIsMatched DEF candidates
    <3> QED BY <1>1, <1>7, <3>2, <3>3
  <2> QED BY <1>6, <2>1, <2>3 DEF answer, candidates, key, twin
<1>8. CASE n # 0 /\ picked = {}
  <2>1. answer.error = "Unknown"
    BY <1>2, <1>3, <1>8
  <2> QED BY <1>6, <1>8, <2>1 DEF answer, candidates, key, twin
<1>9. CASE n # 0 /\ picked # {}
  <2>1. answer.error = "none" /\ answer.candidate = candidates[choice]
    BY <1>2, <1>3, <1>9
  <2>2. choice \in picked /\ choice \in 1..n
    BY <1>4, <1>5, <1>9
  <2>3. Loadable(listing, answer.candidate)
    BY <1>1, <2>1, <2>2
  <2> QED BY <1>6, <1>9, <2>1, <2>2, <2>3 DEF answer, candidates, key, twin
<1> QED BY <1>7, <1>8, <1>9


\* What was chosen, or why nothing was, stays.
AnswerOf(g) == SelectQuant(QuantCandidates(g.listing), g.quant)

ChoiceInv ==
  /\ given \in Requests
  /\ pc = "select" => chosen = <<>>
  /\ pc # "select" => IF AnswerOf(given).error = "none" THEN chosen = AnswerOf(given).candidate
                      ELSE chosen = <<>> /\ pc = "failed" /\ error = AnswerOf(given).error

LEMMA ChoiceStep == ChoiceInv /\ [Next]_vars => ChoiceInv'
<1> SUFFICES ASSUME ChoiceInv, [Next]_vars PROVE ChoiceInv'
  OBVIOUS
<1>1. CASE SelectTheQuant
  <2>1. pc = "select" /\ given' = given /\ chosen = <<>>
    BY <1>1 DEF SelectTheQuant, Fails, ChoiceInv
  <2>2. IF AnswerOf(given).error # "none" THEN Fails(AnswerOf(given).error)
        ELSE chosen' = AnswerOf(given).candidate /\ pc' = "validate"
    BY <1>1 DEF SelectTheQuant, AnswerOf
  <2>3. CASE AnswerOf(given).error # "none"
    <3>1. pc' = "failed" /\ error' = AnswerOf(given).error /\ chosen' = chosen
      BY <2>2, <2>3 DEF Fails
    <3> QED BY <2>1, <2>3, <3>1 DEF ChoiceInv, AnswerOf
  <2>4. CASE AnswerOf(given).error = "none"
    <3>1. chosen' = AnswerOf(given).candidate /\ pc' = "validate"
      BY <2>2, <2>4
    <3> QED BY <2>1, <2>4, <3>1 DEF ChoiceInv, AnswerOf
  <2> QED BY <2>3, <2>4
<1>2. CASE ~SelectTheQuant /\ ~UNCHANGED vars
  <2>1. /\ pc # "select" /\ pc # "failed" /\ pc' # "select"
        /\ given' = given /\ chosen' = chosen
    <3>1. CASE Validate
      BY <3>1 DEF Validate, Fails
    <3>2. CASE ReadHelp
      BY <3>2 DEF ReadHelp
    <3>3. CASE Build("build", "built") \/ Build("place", "launched") \/ Build("rebuild", "replayed")
      BY <3>3 DEF Build, Fails
    <3>4. CASE AskFitter
      BY <3>4 DEF AskFitter
    <3>5. CASE \E answer \in Answers : FitterAnswers(answer)
      BY <3>5 DEF FitterAnswers
    <3>6. CASE Store
      BY <3>6 DEF Store
    <3>7. CASE Replay
      BY <3>7 DEF Replay
    <3> QED BY <1>2, <3>1, <3>2, <3>3, <3>4, <3>5, <3>6, <3>7 DEF Next
  <2> QED BY <2>1 DEF ChoiceInv, AnswerOf
<1>3. CASE UNCHANGED vars
  BY <1>3 DEF vars, ChoiceInv, AnswerOf
<1> QED BY <1>1, <1>2, <1>3

LEMMA ChoiceInvariant == Spec => []ChoiceInv
<1>1. Init => ChoiceInv
  BY DEF Init, ChoiceInv
<1> QED BY <1>1, ChoiceStep, PTL DEF Spec

LEMMA ListingIs ==
  ASSUME NEW g \in Requests
  PROVE  Listing(g.listing) /\ IsOption(g.quant, QuantKeys)
BY RequestsAssumption DEF Listing

LEMMA SelectionLoads == ChoiceInv => SelectionIsLoadable
<1> SUFFICES ASSUME ChoiceInv, chosen # <<>> PROVE Loadable(given.listing, chosen)
  BY Zenon DEF SelectionIsLoadable, Loadable
<1>1. given \in Requests /\ AnswerOf(given).error = "none" /\ chosen = AnswerOf(given).candidate
  BY DEF ChoiceInv
<1>2. Listing(given.listing) /\ IsOption(given.quant, QuantKeys)
  BY <1>1, ListingIs
<1>3. AnswerOf(given).error = "none" => Loadable(given.listing, AnswerOf(given).candidate)
  BY <1>2, ChoiceIs DEF AnswerOf
<1> QED BY <1>1, <1>3

LEMMA QuantIsHonoured ==
  ASSUME ChoiceInv, given.quant # <<>>, pc # "select"
  PROVE  LET key == given.quant[1]
             twin == [key EXCEPT !.imatrix = ~key.imatrix]
         IN CASE CompleteBases(given.listing, key) # {} -> chosen.key = key
              [] CompleteBases(given.listing, key) = {} /\ CompleteBases(given.listing, twin) # {} ->
                   chosen.key = twin
              [] OTHER -> error \in {"Unknown", "NoneAvailable"}
<1> DEFINE key == given.quant[1]
           twin == [key EXCEPT !.imatrix = ~key.imatrix]
           answer == AnswerOf(given)
<1>1. given \in Requests /\ (IF answer.error = "none" THEN chosen = answer.candidate ELSE error = answer.error)
  BY DEF ChoiceInv
<1>2. Listing(given.listing) /\ IsOption(given.quant, QuantKeys)
  BY <1>1, ListingIs
<1>3. /\ answer.error \in {"none", "Unknown", "NoneAvailable"}
      /\ CompleteBases(given.listing, key) # {} => answer.error = "none" /\ answer.candidate.key = key
      /\ CompleteBases(given.listing, key) = {} /\ CompleteBases(given.listing, twin) # {} =>
           answer.error = "none" /\ answer.candidate.key = twin
      /\ CompleteBases(given.listing, key) = {} /\ CompleteBases(given.listing, twin) = {} => answer.error # "none"
  BY <1>2, ChoiceIs DEF AnswerOf
<1> HIDE DEF answer, twin, key
<1>4. CASE CompleteBases(given.listing, key) # {}
  BY <1>1, <1>3, <1>4 DEF key, twin
<1>5. CASE CompleteBases(given.listing, key) = {} /\ CompleteBases(given.listing, twin) # {}
  BY <1>1, <1>3, <1>5 DEF key, twin
<1>6. CASE CompleteBases(given.listing, key) = {} /\ CompleteBases(given.listing, twin) = {}
  BY <1>1, <1>3, <1>6 DEF key, twin
<1> QED BY <1>4, <1>5, <1>6

LEMMA ContextIsHonoured ==
  ASSUME LaunchInv, argv # <<>>, ContextKey(given.context) \in DOMAIN given.def.contexts
  PROVE  Values(Own(argv), "-c") = <<Decimal[given.def.contexts[ContextKey(given.context)]]>>
<1> DEFINE context == ContextOf(given.def, given.context)
<1>1. PICK P : Runs(given, P) /\ argv = VectorOf(given, P)
  BY DEF LaunchInv, SomeVector
<1>2. /\ Buildable(given.def, context, P) /\ context > 0
      /\ context = given.def.contexts[ContextKey(given.context)]
      /\ Own(argv) = OwnVector(given.def, context, given.mode, P)
  BY <1>1, VectorSplits DEF Runs
<1> HIDE DEF context
<1>3. Values(Own(argv), "-c") = <<Decimal[context]>>
  BY <1>2, ContextIsSaid
<1> QED BY <1>2, <1>3

\* A launch runs what was asked for: files that can be loaded as they were
\* published, the quant exactly when the listing has it whole, its twin only when
\* that is the only one, and a context by its own name before any other reading of
\* it, said once before the extra arguments (quant_candidates and select_quant of quant.rs, resolve_context_key of
\* model.rs).
THEOREM LaunchHonoursTheRequest == Spec => []LaunchIsTheRequest
<1>1. LaunchInv /\ ChoiceInv => LaunchIsTheRequest
  <2> SUFFICES ASSUME LaunchInv, ChoiceInv PROVE LaunchIsTheRequest
    OBVIOUS
  <2>1. SelectionIsLoadable
    BY SelectionLoads
  <2>2. RequestIsHonoured
    <3> HIDE DEF LaunchInv, ChoiceInv
    <3>1. given.quant # <<>> /\ pc # "select" =>
            LET key == given.quant[1]
                twin == [key EXCEPT !.imatrix = ~key.imatrix]
            IN CASE CompleteBases(given.listing, key) # {} -> chosen.key = key
                 [] CompleteBases(given.listing, key) = {} /\ CompleteBases(given.listing, twin) # {} ->
                      chosen.key = twin
                 [] OTHER -> error \in {"Unknown", "NoneAvailable"}
      BY QuantIsHonoured
    <3>2. argv # <<>> /\ ContextKey(given.context) \in DOMAIN given.def.contexts =>
            Values(Own(argv), "-c") = <<Decimal[given.def.contexts[ContextKey(given.context)]]>>
      BY ContextIsHonoured
    <3> QED BY <3>1, <3>2, Zenon DEF RequestIsHonoured
  <2> QED BY <2>1, <2>2 DEF LaunchIsTheRequest
<1> QED BY <1>1, LaunchInvariant, ChoiceInvariant, PTL
=============================================================================
