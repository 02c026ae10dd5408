---------------------------- MODULE QuotingProofs ----------------------------
(***************************************************************************)
(* Proofs about RemoteSpec, for paths of any length and characters: bash   *)
(* reads what Go has quoted as the same path.  Folds and FlattenSeq take   *)
(* an operator or are functions that are chosen, so what they compute is   *)
(* shown place by place, by the least place where it fails.                *)
(***************************************************************************)
EXTENDS RemoteSpec, SearchLemmas, SequenceTheorems, TLAPS

\* The greatest of the first places of a sequence, and those before it.
LEMMA FirstPlaces ==
    ASSUME NEW k \in Nat \ {0}
    PROVE  Max(1..k) = k /\ (1..k) \ {k} = 1..k - 1 /\ 1..k # {}
<1>1. k \in 1..k /\ 1..k # {}
  OBVIOUS
<1>2. Max(1..k) \in 1..k /\ \A i \in 1..k : i <= Max(1..k)
  BY <1>1, LastPlace
<1>3. Max(1..k) = k
  BY <1>1, <1>2
<1>4. (1..k) \ {k} = 1..k - 1
  OBVIOUS
<1> QED
  BY <1>1, <1>3, <1>4

\* h folds the sequence q, whose places it takes the last one first.
IsFold(h, X, b, g, N, q) ==
    /\ h \in [SUBSET (1..N) -> X]
    /\ h[{}] = b
    /\ \A s \in SUBSET (1..N) :
          s # {} => h[s] = g[<<h[s \ {Max(s)}], q[Max(s)]>>]

\* There is such a function.
LEMMA FoldExists ==
    ASSUME NEW X, NEW b \in X, NEW A, NEW g \in [X \X A -> X],
           NEW N \in Nat, NEW q \in [1..N -> A]
    PROVE  \E h : IsFold(h, X, b, g, N, q)
<1> DEFINE Exists == {k \in 0..N : \E h : IsFold(h, X, b, g, k, q)}
<1>1. 0 \in Exists
  <2> DEFINE h == [s \in SUBSET (1..0) |-> b]
  <2>1. SUBSET (1..0) = {{}}
    OBVIOUS
  <2>2. IsFold(h, X, b, g, 0, q)
    BY <2>1 DEF IsFold
  <2> QED
    BY <2>2
<1>2. ASSUME NEW k \in 1..N, k - 1 \in Exists PROVE k \in Exists
  <2>1. k \in 0..N /\ k \in Nat /\ k - 1 \in Nat
    OBVIOUS
  <2>3. PICK h : IsFold(h, X, b, g, k - 1, q)
    BY <1>2
  <2> DEFINE f == [s \in SUBSET (1..k) |->
                     IF k \in s THEN g[<<h[s \ {k}], q[k]>>] ELSE h[s]]
  <2>4. ASSUME NEW s \in SUBSET (1..k)
        PROVE  s \ {k} \in SUBSET (1..k - 1) /\ (k \notin s => s \in SUBSET (1..k - 1))
    BY <2>1
  <2>5. ASSUME NEW s \in SUBSET (1..k) PROVE f[s] \in X
    <3>1. h[s \ {k}] \in X /\ q[k] \in A
      BY <2>1, <2>3, <2>4 DEF IsFold
    <3>2. k \notin s => h[s] \in X
      BY <2>3, <2>4 DEF IsFold
    <3>3. g[<<h[s \ {k}], q[k]>>] \in X
      BY <3>1
    <3>4. f[s] = IF k \in s THEN g[<<h[s \ {k}], q[k]>>] ELSE h[s]
      OBVIOUS
    <3> HIDE DEF f
    <3> QED
      BY <3>2, <3>3, <3>4
  <2>6. f[{}] = b
    BY <2>3 DEF IsFold
  <2>7. ASSUME NEW s \in SUBSET (1..k), s # {}
        PROVE  f[s] = g[<<f[s \ {Max(s)}], q[Max(s)]>>]
    <3>1. Max(s) \in s /\ \A i \in s : i <= Max(s)
      BY <2>1, <2>7, LastPlace
    <3>2. CASE k \in s
      <4>1. Max(s) \in 1..k /\ k <= Max(s)
        BY <3>1, <3>2
      <4>2. Max(s) = k
        BY <2>1, <4>1
      <4>3. f[s] = g[<<h[s \ {k}], q[k]>>]
        BY <3>2
      <4>4. f[s \ {k}] = h[s \ {k}]
        BY <2>4
      <4> QED
        BY <4>2, <4>3, <4>4
    <3>3. CASE k \notin s
      <4>1. s \in SUBSET (1..k - 1)
        BY <2>4, <3>3
      <4>2. h[s] = g[<<h[s \ {Max(s)}], q[Max(s)]>>]
        BY <2>3, <2>7, <4>1 DEF IsFold
      <4>3. f[s] = h[s] /\ f[s \ {Max(s)}] = h[s \ {Max(s)}]
        BY <3>3
      <4> QED
        BY <4>2, <4>3
    <3> QED
      BY <3>2, <3>3
  <2>8. f \in [SUBSET (1..k) -> X]
    BY <2>5
  <2> HIDE DEF f
  <2>9. IsFold(f, X, b, g, k, q)
    BY <2>6, <2>7, <2>8 DEF IsFold
  <2> QED
    BY <2>1, <2>9
<1>3. N \in Exists
  <2> HIDE DEF Exists
  <2>1. \A k \in 1..N : k - 1 \in Exists => k \in Exists
    BY <1>2
  <2>2. 0..N \subseteq Exists
    BY <1>1, <2>1, Upwards
  <2> QED
    BY <2>2
<1> QED
  BY <1>3

\* What bash has read after each character.
ReadState(C) == [word : Seq(C), open : BOOLEAN, escaped : BOOLEAN]

LEMMA UnquoteTyped ==
    ASSUME NEW C, {"\\", "expansion"} \subseteq C, NEW st \in ReadState(C), NEW ch \in C
    PROVE  Unquote(st, ch) \in ReadState(C)
<1>1. <<ch>> \in Seq(C) /\ <<"\\", ch>> \in Seq(C)
  OBVIOUS
<1>2. st.word \in Seq(C)
  BY DEF ReadState
<1>3. /\ st.word \o <<ch>> \in Seq(C) /\ st.word \o <<"\\", ch>> \in Seq(C)
      /\ Append(st.word, ch) \in Seq(C) /\ Append(st.word, "expansion") \in Seq(C)
  BY <1>1, <1>2
<1> QED
  BY <1>3 DEF Unquote, ReadState

\* bash reads a word character by character.
LEMMA ShellWordRead ==
    ASSUME NEW C, {"\\", "expansion"} \subseteq C, NEW w \in Seq(C)
    PROVE  \E st \in [0..Len(w) -> ReadState(C)] :
              /\ st[0] = Unread
              /\ \A k \in 1..Len(w) : st[k] = Unquote(st[k - 1], w[k])
              /\ ShellWord(w) = st[Len(w)].word
<1> DEFINE N == Len(w)
           X == ReadState(C)
           Fold(it) == it = [s \in SUBSET (1..N) |->
                               IF s = {} THEN Unread
                               ELSE Unquote(it[s \ {Max(s)}], w[Max(s)])]
           iter == CHOOSE it : Fold(it)
           g == [x \in X \X C |-> Unquote(x[1], x[2])]
<1>1. N \in Nat /\ DOMAIN w = 1..N /\ w \in [1..N -> C]
  OBVIOUS
<1>2. ShellWord(w) = iter[1..N].word
  BY <1>1 DEF ShellWord, FoldLeft, MapThenFoldSet
<1>3. Unread \in X
  BY DEF Unread, ReadState
<1>4. g \in [X \X C -> X]
  BY UnquoteTyped
<1> HIDE DEF iter
<1>5. PICK h : IsFold(h, X, Unread, g, N, w)
  <2> HIDE DEF N, X, g
  <2> QED
    BY <1>1, <1>3, <1>4, FoldExists
<1>6. Fold(h)
  <2>1. ASSUME NEW s \in SUBSET (1..N), s # {}
        PROVE  h[s] = Unquote(h[s \ {Max(s)}], w[Max(s)])
    <3>1. Max(s) \in s
      BY <1>1, <2>1, LastPlace
    <3>2. h[s \ {Max(s)}] \in X /\ w[Max(s)] \in C
      BY <1>1, <1>5, <3>1 DEF IsFold
    <3> QED
      BY <1>5, <2>1, <3>2 DEF IsFold
  <2> QED
    BY <1>5, <2>1 DEF IsFold
<1>7. Fold(iter)
  BY <1>6 DEF iter
<1> DEFINE st == [k \in 0..N |-> iter[1..k]]
<1>8. iter[{}] = Unread
  BY <1>7
<1>9. ASSUME NEW k \in 1..N PROVE iter[1..k] = Unquote(iter[1..k - 1], w[k])
  <2>1. Max(1..k) = k /\ (1..k) \ {k} = 1..k - 1 /\ 1..k # {}
    BY <1>1, FirstPlaces
  <2>2. 1..k \in SUBSET (1..N)
    BY <1>1
  <2> QED
    BY <1>7, <2>1, <2>2
<1>10. 1..0 = {}
  OBVIOUS
<1>11. \A k \in 0..N : iter[1..k] \in X
  <2> DEFINE Typed == {k \in 0..N : iter[1..k] \in X}
  <2>1. 0 \in Typed
    BY <1>1, <1>3, <1>8, <1>10
  <2>2. ASSUME NEW k \in 1..N, k - 1 \in Typed PROVE k \in Typed
    <3>1. iter[1..k - 1] \in X /\ w[k] \in C /\ k \in 0..N
      BY <1>1, <2>2
    <3> QED
      BY <1>9, <3>1, UnquoteTyped
  <2> HIDE DEF Typed
  <2>3. 0..N \subseteq Typed
    BY <1>1, <2>1, <2>2, Upwards
  <2> QED
    BY <2>3 DEF Typed
<1>12. st \in [0..N -> X]
  BY <1>11
<1>13. st[0] = Unread
  BY <1>1, <1>8, <1>10
<1>14. ASSUME NEW k \in 1..N PROVE st[k] = Unquote(st[k - 1], w[k])
  <2>1. k \in 0..N /\ k - 1 \in 0..N
    BY <1>1
  <2> QED
    BY <1>9, <2>1
<1>15. ShellWord(w) = st[N].word
  BY <1>1, <1>2
<1> HIDE DEF st
<1> QED
  BY <1>12, <1>13, <1>14, <1>15

\* FlattenSeq puts the parts of a sequence together one by one.
LEMMA FlattenSeqBuilt ==
    ASSUME NEW C, NEW parts \in Seq(Seq(C))
    PROVE  \E F \in [0..Len(parts) -> Seq(C)] :
              /\ F[0] = <<>>
              /\ \A k \in 1..Len(parts) : F[k] = F[k - 1] \o parts[k]
              /\ FlattenSeq(parts) = F[Len(parts)]
<1> DEFINE N == Len(parts)
           X == Seq(C)
           g == [x \in X \X X |-> x[1] \o x[2]]
           Flat(f) == f = [i \in 1..N |-> IF i = 1 THEN parts[i] ELSE f[i - 1] \o parts[i]]
           flatten == CHOOSE f : Flat(f)
<1>1. N \in Nat /\ parts \in [1..N -> X] /\ <<>> \in X
  OBVIOUS
<1>2. FlattenSeq(parts) = IF N = 0 THEN parts ELSE flatten[N]
  BY DEF FlattenSeq
<1>3. g \in [X \X X -> X]
  OBVIOUS
<1> HIDE DEF flatten
<1>4. PICK h : IsFold(h, X, <<>>, g, N, parts)
  <2> HIDE DEF N, X, g
  <2> QED
    BY <1>1, <1>3, FoldExists
<1> DEFINE F == [k \in 0..N |-> h[1..k]]
<1>5. F \in [0..N -> X]
  <2>1. \A k \in 0..N : 1..k \in SUBSET (1..N)
    BY <1>1
  <2> QED
    BY <1>4, <2>1 DEF IsFold
<1>6. F[0] = <<>>
  BY <1>1, <1>4 DEF IsFold
<1>7. ASSUME NEW k \in 1..N PROVE F[k] = F[k - 1] \o parts[k]
  <2>1. k \in 0..N /\ k - 1 \in 0..N /\ k \in Nat \ {0} /\ 1..k \in SUBSET (1..N)
    BY <1>1
  <2>2. Max(1..k) = k /\ (1..k) \ {k} = 1..k - 1 /\ 1..k # {}
    BY <2>1, FirstPlaces
  <2>3. h[1..k] = g[<<h[1..k - 1], parts[k]>>]
    BY <1>4, <2>1, <2>2 DEF IsFold
  <2>4. h[1..k - 1] \in X /\ parts[k] \in X
    BY <1>1, <1>5, <2>1
  <2> QED
    BY <2>1, <2>3, <2>4
<1> HIDE DEF F, X
<1>8. CASE N = 0
  <2>1. parts = <<>>
    BY <1>1, <1>8
  <2> QED
    BY <1>1, <1>2, <1>5, <1>6, <1>7, <1>8, <2>1
<1>9. CASE N # 0
  <2> DEFINE G == [i \in 1..N |-> F[i]]
  <2>1. Flat(G)
    <3>1. ASSUME NEW i \in 1..N
          PROVE  G[i] = IF i = 1 THEN parts[i] ELSE G[i - 1] \o parts[i]
      <4>1. CASE i = 1
        <5>1. F[1] = F[1 - 1] \o parts[1] /\ parts[1] \in X
          BY <1>1, <1>7, <4>1
        <5>2. <<>> \o parts[1] = parts[1]
          BY <5>1 DEF X
        <5>3. F[1] = parts[1]
          <6>1. 1 - 1 = 0
            OBVIOUS
          <6> HIDE DEF N
          <6> QED
            BY <1>6, <5>1, <5>2, <6>1, Zenon
        <5> QED
          BY <4>1, <5>3
      <4>2. CASE i # 1
        <5>1. i - 1 \in 1..N
          BY <1>1, <4>2
        <5>2. F[i] = F[i - 1] \o parts[i]
          BY <1>7
        <5> QED
          BY <4>2, <5>1, <5>2
      <4> HIDE DEF G
      <4> QED
        BY <4>1, <4>2
    <3> QED
      BY <3>1
  <2>2. Flat(flatten)
    BY <2>1 DEF flatten
  <2> DEFINE Same == {k \in 0..N : k # 0 => flatten[k] = F[k]}
  <2>3. 0 \in Same
    BY <1>1
  <2>4. ASSUME NEW k \in 1..N, k - 1 \in Same PROVE k \in Same
    <3>1. flatten[k] = IF k = 1 THEN parts[k] ELSE flatten[k - 1] \o parts[k]
      BY <2>2
    <3>2. F[k] = F[k - 1] \o parts[k] /\ parts[k] \in X
      BY <1>1, <1>7
    <3>3. k = 1 => F[k - 1] = <<>>
      BY <1>6
    <3>4. k # 1 => flatten[k - 1] = F[k - 1]
      BY <2>4
    <3>5. k \in 0..N
      BY <1>1
    <3>6. <<>> \o parts[k] = parts[k]
      BY <3>2 DEF X
    <3>7. flatten[k] = F[k]
      <4> HIDE DEF N
      <4> QED
        BY <3>1, <3>2, <3>3, <3>4, <3>6, Zenon
    <3> QED
      BY <3>5, <3>7
  <2>5. 0..N \subseteq Same
    <3> HIDE DEF Same
    <3>1. \A k \in 1..N : k - 1 \in Same => k \in Same
      BY <2>4
    <3> QED
      BY <1>1, <2>3, <3>1, Upwards
  <2>6. flatten[N] = F[N]
    <3>1. N \in Same
      <4> HIDE DEF N, Same
      <4> QED
        BY <1>1, <2>5
    <3> QED
      BY <1>9, <3>1
  <2> QED
    BY <1>2, <1>5, <1>6, <1>7, <1>9, <2>6 DEF X
<1> QED
  BY <1>8, <1>9

-----------------------------------------------------------------------------
\* A sequence starts with another.
StartsWith(whole, part) ==
    Len(part) <= Len(whole) /\ \A j \in 1..Len(part) : whole[j] = part[j]

\* What is put together of parts starts with what was put together of the first.
LEMMA FlattenSeqGrows ==
    ASSUME NEW C, NEW n \in Nat, NEW parts \in [1..n -> Seq(C)],
           NEW F \in [0..n -> Seq(C)],
           \A k \in 1..n : F[k] = F[k - 1] \o parts[k],
           NEW i \in 0..n
    PROVE  StartsWith(F[n], F[i])
<1> DEFINE P == {k \in 0..n : i <= k => StartsWith(F[k], F[i])}
<1>1. 0 \in P
  <2>1. i <= 0 => i = 0
    OBVIOUS
  <2>2. Len(F[i]) \in Nat
    OBVIOUS
  <2> QED
    BY <2>1, <2>2 DEF StartsWith
<1>2. ASSUME NEW k \in 1..n, k - 1 \in P PROVE k \in P
  <2>1. k \in 0..n /\ k - 1 \in 0..n
    OBVIOUS
  <2>2. F[k] \in Seq(C) /\ F[k - 1] \in Seq(C) /\ F[i] \in Seq(C) /\ parts[k] \in Seq(C)
    BY <2>1
  <2>3. F[k] = F[k - 1] \o parts[k]
    OBVIOUS
  <2>4. Len(F[k - 1]) <= Len(F[k]) /\ \A j \in 1..Len(F[k - 1]) : F[k][j] = F[k - 1][j]
    BY <2>2, <2>3
  <2>5. CASE i <= k - 1
    <3>1. StartsWith(F[k - 1], F[i])
      BY <1>2, <2>5
    <3>2. Len(F[i]) \in Nat /\ Len(F[k - 1]) \in Nat /\ Len(F[k]) \in Nat
      BY <2>2
    <3> QED
      BY <2>1, <2>4, <3>1, <3>2 DEF StartsWith
  <2>6. CASE i = k
    BY <2>1, <2>2, <2>6 DEF StartsWith
  <2>7. CASE k < i
    BY <2>1, <2>7
  <2> QED
    BY <2>1, <2>5, <2>6, <2>7
<1>3. n \in P
  <2> HIDE DEF P
  <2>1. \A k \in 1..n : k - 1 \in P => k \in P
    BY <1>2
  <2>2. 0..n \subseteq P
    BY <1>1, <2>1, Upwards
  <2> QED
    BY <2>2
<1> QED
  BY <1>3

\* The characters that quoting is about are different.
LEMMA QuotingCharacters ==
    /\ DoubleQuote # "\\"
    /\ {DoubleQuote, "\\"} \cap (Expanding \cup Unprinted) = {}
<1>1. /\ DoubleQuote # "\\" /\ DoubleQuote # "$" /\ DoubleQuote # Backquote
      /\ DoubleQuote # "\n" /\ DoubleQuote # "\t"
  BY Zenon DEF DoubleQuote, Backquote
<1>2. "\\" # "$" /\ "\\" # Backquote /\ "\\" # "\n" /\ "\\" # "\t"
  BY Zenon DEF Backquote
<1> QED
  BY <1>1, <1>2 DEF Expanding, Unprinted

\* What bash makes of a character within quotes.
Inside(word) == [word |-> word, open |-> TRUE, escaped |-> FALSE]

LEMMA UnquoteInside ==
    ASSUME NEW word, NEW ch
    PROVE  /\ Unquote(Unread, DoubleQuote) = Inside(<<>>)
           /\ ch \notin {DoubleQuote, "\\"} \cup Expanding =>
                 Unquote(Inside(word), ch) = Inside(Append(word, ch))
           /\ ch \in {DoubleQuote, "\\"} =>
                 Unquote(Unquote(Inside(word), "\\"), ch) = Inside(word \o <<ch>>)
           /\ Unquote(Inside(word), DoubleQuote).word = word
<1>1. Unquote(Unread, DoubleQuote) = Inside(<<>>)
  BY QuotingCharacters DEF Unquote, Unread, Inside
<1>2. Unquote(Inside(word), "\\") = [word |-> word, open |-> TRUE, escaped |-> TRUE]
  BY QuotingCharacters DEF Unquote, Inside
<1>3. ASSUME ch \in {DoubleQuote, "\\"}
      PROVE  Unquote([word |-> word, open |-> TRUE, escaped |-> TRUE], ch)
               = Inside(word \o <<ch>>)
  BY <1>3 DEF Unquote, Inside
<1>4. ASSUME ch \notin {DoubleQuote, "\\"} \cup Expanding
      PROVE  Unquote(Inside(word), ch) = Inside(Append(word, ch))
  BY <1>4 DEF Unquote, Inside
<1>5. Unquote(Inside(word), DoubleQuote).word = word
  BY QuotingCharacters DEF Unquote, Inside
<1> QED
  BY <1>1, <1>2, <1>3, <1>4, <1>5

\* w is u between two characters a.
Encloses(w, u, a) ==
    /\ Len(w) = Len(u) + 2 /\ Len(u) \in Nat
    /\ w[1] = a /\ w[Len(u) + 2] = a
    /\ \A j \in 1..Len(u) : w[j + 1] = u[j]

LEMMA Enclosed ==
    ASSUME NEW C, NEW u \in Seq(C), NEW a \in C
    PROVE  /\ <<a>> \o u \o <<a>> \in Seq(C)
           /\ Encloses(<<a>> \o u \o <<a>>, u, a)
<1>1. <<a>> \in Seq(C)
  OBVIOUS
<1> DEFINE v == <<a>> \o u
<1>2. /\ v \in Seq(C) /\ Len(v) = Len(u) + 1 /\ Len(u) \in Nat /\ v[1] = a
      /\ \A j \in 1..Len(u) : v[j + 1] = u[j]
  BY <1>1
<1> HIDE DEF v
<1> DEFINE w == v \o <<a>>
<1>3. w \in Seq(C) /\ Encloses(w, u, a)
  BY <1>1, <1>2 DEF Encloses
<1> QED
  BY <1>3 DEF v

\* A path is quoted so that bash reads the same path, unless it has a
\* character that starts an expansion or that Go does not print.
THEOREM QuotedPath ==
    ASSUME NEW S, NEW s \in Seq(S), Range(s) \cap (Expanding \cup Unprinted) = {}
    PROVE  ShellWord(shellQuote(s)) = s
<1> DEFINE C == S \cup {DoubleQuote, "\\", "n", "expansion"}
           n == Len(s)
           E == [i \in DOMAIN s |-> Escape(s[i])]
<1>1. n \in Nat /\ DOMAIN s = 1..n /\ s \in Seq(C)
  OBVIOUS
<1>2. \A i \in 1..n : s[i] \in C /\ s[i] \notin Expanding /\ s[i] \notin Unprinted
  BY <1>1 DEF Range
<1>3. \A i \in 1..n : E[i] = IF s[i] \in {DoubleQuote, "\\"} THEN <<"\\", s[i]>> ELSE <<s[i]>>
  BY <1>1, <1>2 DEF Escape, Unprinted
<1>4. E \in [1..n -> Seq(C)] /\ E \in Seq(Seq(C)) /\ Len(E) = n
  <2>1. ASSUME NEW i \in 1..n PROVE E[i] \in Seq(C)
    <3>1. <<"\\", s[i]>> \in Seq(C) /\ <<s[i]>> \in Seq(C)
      BY <1>2
    <3> QED
      BY <1>3, <3>1
  <2>2. E \in [1..n -> Seq(C)]
    <3>1. E = [i \in 1..n |-> E[i]]
      BY <1>1
    <3> HIDE DEF E
    <3> QED
      BY <2>1, <3>1
  <2> HIDE DEF E
  <2> QED
    BY <1>1, <2>2
<1> HIDE DEF E
<1>5. PICK F \in [0..n -> Seq(C)] :
         /\ F[0] = <<>>
         /\ \A k \in 1..n : F[k] = F[k - 1] \o E[k]
         /\ FlattenSeq(E) = F[n]
  <2>1. \E F \in [0..Len(E) -> Seq(C)] :
           /\ F[0] = <<>>
           /\ \A k \in 1..Len(E) : F[k] = F[k - 1] \o E[k]
           /\ FlattenSeq(E) = F[Len(E)]
    <3> HIDE DEF C, n
    <3> QED
      BY <1>4, FlattenSeqBuilt
  <2> HIDE DEF C, n
  <2> QED
    BY <1>4, <2>1, Zenon
<1> DEFINE w == <<DoubleQuote>> \o F[n] \o <<DoubleQuote>>
<1>6. shellQuote(s) = w
  BY <1>1, <1>5 DEF shellQuote, E
<1>7. n \in 0..n /\ 0 \in 0..n
  BY <1>1
<1>8. /\ w \in Seq(C) /\ Len(w) = Len(F[n]) + 2 /\ Len(F[n]) \in Nat
      /\ w[1] = DoubleQuote /\ w[Len(F[n]) + 2] = DoubleQuote
      /\ \A j \in 1..Len(F[n]) : w[j + 1] = F[n][j]
  <2>1. F[n] \in Seq(C) /\ DoubleQuote \in C
    BY <1>5, <1>7
  <2>2. w \in Seq(C) /\ Encloses(w, F[n], DoubleQuote)
    <3> HIDE DEF C, n
    <3> QED
      BY <2>1, Enclosed
  <2> QED
    BY <2>2 DEF Encloses
<1> HIDE DEF w
<1>9. PICK st \in [0..Len(w) -> ReadState(C)] :
         /\ st[0] = Unread
         /\ \A k \in 1..Len(w) : st[k] = Unquote(st[k - 1], w[k])
         /\ ShellWord(w) = st[Len(w)].word
  BY <1>8, ShellWordRead
<1> HIDE DEF C
<1> DEFINE P == {i \in 0..n : st[Len(F[i]) + 1] = Inside(SubSeq(s, 1, i))}
<1>10. 0 \in P
  <2>1. Len(F[0]) = 0 /\ SubSeq(s, 1, 0) = <<>>
    BY <1>1, <1>5
  <2>2. 1 \in 1..Len(w)
    BY <1>8
  <2>3. st[1] = Unquote(Unread, DoubleQuote)
    BY <1>8, <1>9, <2>2
  <2>4. Unquote(Unread, DoubleQuote) = Inside(<<>>)
    BY UnquoteInside
  <2>5. st[Len(F[0]) + 1] = st[1]
    BY <2>1
  <2> QED
    BY <1>7, <2>1, <2>3, <2>4, <2>5
<1>11. ASSUME NEW i \in 1..n, i - 1 \in P PROVE i \in P
  <2> DEFINE l == Len(F[i - 1])
             ch == s[i]
  <2>1. i \in 0..n /\ i - 1 \in 0..n
    BY <1>1
  <2>2. /\ F[i - 1] \in Seq(C) /\ F[i] \in Seq(C) /\ E[i] \in Seq(C)
        /\ l \in Nat /\ Len(F[i]) \in Nat
    <3>1. F[i - 1] \in Seq(C) /\ F[i] \in Seq(C) /\ E[i] \in Seq(C)
      BY <1>4, <2>1
    <3> QED
      BY <3>1
  <2>3. Len(F[i]) <= Len(F[n]) /\ \A j \in 1..Len(F[i]) : F[n][j] = F[i][j]
    <3>1. n \in Nat /\ E \in [1..n -> Seq(C)] /\ i \in 0..n
          /\ \A k \in 1..n : F[k] = F[k - 1] \o E[k]
      BY <1>1, <1>4, <1>5, <2>1
    <3>2. StartsWith(F[n], F[i])
      <4> HIDE DEF n
      <4> QED
        BY <3>1, FlattenSeqGrows
    <3> QED
      BY <3>2 DEF StartsWith
  <2>4. \A j \in 1..Len(F[i]) : j + 1 \in 1..Len(w) /\ w[j + 1] = F[i][j]
                                /\ st[j + 1] = Unquote(st[j], F[i][j])
    <3>1. ASSUME NEW j \in 1..Len(F[i])
          PROVE  j + 1 \in 1..Len(w) /\ (j + 1) - 1 = j /\ w[j + 1] = F[i][j]
      BY <1>8, <2>2, <2>3
    <3> QED
      BY <1>9, <3>1
  <2>5. st[l + 1] = Inside(SubSeq(s, 1, i - 1))
    BY <1>11
  <2>6. /\ SubSeq(s, 1, i - 1) \o <<ch>> = SubSeq(s, 1, i)
        /\ Append(SubSeq(s, 1, i - 1), ch) = SubSeq(s, 1, i)
    BY <1>1
  <2>7. F[i] = F[i - 1] \o E[i]
    BY <1>5
  <2> HIDE DEF l, ch
  <2>8. CASE ch \in {DoubleQuote, "\\"}
    <3>1. E[i] = <<"\\", ch>>
      BY <1>3, <2>8 DEF ch
    <3>2. Len(F[i]) = l + 2 /\ F[i][l + 1] = "\\" /\ F[i][l + 2] = ch
      BY <2>2, <2>7, <3>1 DEF l
    <3>3. st[l + 2] = Unquote(st[l + 1], "\\") /\ st[l + 3] = Unquote(st[l + 2], ch)
      BY <2>2, <2>4, <3>2
    <3>4. Unquote(Unquote(Inside(SubSeq(s, 1, i - 1)), "\\"), ch)
            = Inside(SubSeq(s, 1, i - 1) \o <<ch>>)
      BY <2>8, UnquoteInside
    <3>5. st[l + 3] = Inside(SubSeq(s, 1, i))
      BY <2>5, <2>6, <3>3, <3>4
    <3> QED
      BY <2>1, <2>2, <3>2, <3>5
  <2>9. CASE ch \notin {DoubleQuote, "\\"}
    <3>1. E[i] = <<ch>>
      BY <1>3, <2>9 DEF ch
    <3>2. Len(F[i]) = l + 1 /\ F[i][l + 1] = ch
      BY <2>2, <2>7, <3>1 DEF l
    <3>3. st[l + 2] = Unquote(st[l + 1], ch)
      BY <2>2, <2>4, <3>2
    <3>4. ch \notin Expanding
      BY <1>2 DEF ch
    <3>5. Unquote(Inside(SubSeq(s, 1, i - 1)), ch)
            = Inside(Append(SubSeq(s, 1, i - 1), ch))
      BY <2>9, <3>4, UnquoteInside
    <3>6. st[l + 2] = Inside(SubSeq(s, 1, i))
      BY <2>5, <2>6, <3>3, <3>5
    <3> QED
      BY <2>1, <2>2, <3>2, <3>6
  <2> QED
    BY <2>8, <2>9
<1>12. n \in P
  <2> HIDE DEF P
  <2>1. \A k \in 1..n : k - 1 \in P => k \in P
    BY <1>11
  <2>2. 0..n \subseteq P
    BY <1>1, <1>10, <2>1, Upwards
  <2> QED
    BY <1>7, <2>2
<1>13. st[Len(w)] = Unquote(Inside(SubSeq(s, 1, n)), DoubleQuote)
  <2>1. st[Len(F[n]) + 1] = Inside(SubSeq(s, 1, n))
    BY <1>12
  <2>2. Len(w) \in 1..Len(w) /\ Len(w) - 1 = Len(F[n]) + 1
    BY <1>8
  <2> QED
    BY <1>8, <1>9, <2>1, <2>2
<1>14. st[Len(w)].word = SubSeq(s, 1, n)
  BY <1>13, UnquoteInside
<1> QED
  BY <1>1, <1>6, <1>9, <1>14
===============================================================================
