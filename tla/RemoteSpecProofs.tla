---------------------------- MODULE RemoteSpecProofs ----------------------------
(***************************************************************************)
(* Proofs about RemoteSpec, for remote arguments of any length: what Parse *)
(* finds in them.                                                          *)
(***************************************************************************)
EXTENDS RemoteSpec, SearchLemmas, SequenceTheorems, TLAPS

\* The characters from one place to another.
LEMMA Part ==
    ASSUME NEW s \in Chars, NEW a \in 1..Len(s) + 1, NEW b \in a - 1..Len(s)
    PROVE  /\ SubSeq(s, a, b) \in Chars /\ Len(SubSeq(s, a, b)) = b - a + 1
           /\ \A i \in 1..b - a + 1 : SubSeq(s, a, b)[i] = s[a + i - 1]
           /\ \A p \in a..b : s[p] = SubSeq(s, a, b)[p - a + 1]
           /\ Range(SubSeq(s, a, b)) = {s[p] : p \in a..b}
<1>1. Len(s) \in Nat /\ \A i \in 1..Len(s) : s[i] \in Character
  BY DEF Chars
<1>2. a \in Int /\ b \in Int /\ \A i \in a..b : s[i] \in Character
  BY <1>1
<1>3. /\ SubSeq(s, a, b) \in Seq(Character)
      /\ Len(SubSeq(s, a, b)) = IF a <= b THEN b - a + 1 ELSE 0
      /\ \A i \in 1..b - a + 1 : SubSeq(s, a, b)[i] = s[a + i - 1]
  BY <1>2, SubSeqProperties
<1> DEFINE t == SubSeq(s, a, b)
<1>4. Len(t) = b - a + 1
  BY <1>1, <1>3
<1>5. t \in Chars /\ DOMAIN t = 1..b - a + 1
  BY <1>3, <1>4 DEF Chars
<1>6. \A p \in a..b : p - a + 1 \in 1..b - a + 1 /\ a + (p - a + 1) - 1 = p
  BY <1>1
<1>7. \A p \in a..b : s[p] = t[p - a + 1]
  BY <1>3, <1>6
<1>8. \A i \in 1..b - a + 1 : a + i - 1 \in a..b
  BY <1>1
<1> HIDE DEF t
<1>9. Range(t) = {s[p] : p \in a..b}
  <2>1. \A i \in DOMAIN t : t[i] \in {s[p] : p \in a..b}
    BY <1>3, <1>5, <1>8 DEF t
  <2>2. \A p \in a..b : s[p] \in {t[i] : i \in DOMAIN t}
    BY <1>5, <1>6, <1>7
  <2> QED
    BY <2>1, <2>2 DEF Range
<1> QED
  BY <1>3, <1>4, <1>5, <1>7, <1>9 DEF t

\* Sequences of characters are equal if their characters are.
LEMMA SameChars ==
    ASSUME NEW s \in Chars, NEW t \in Chars, Len(s) = Len(t),
           \A i \in 1..Len(s) : s[i] = t[i]
    PROVE  s = t
BY SeqEqual DEF Chars

\* SelectInSeq and SelectLastInSeq when they look for a character.
FirstOf(s, c) == LET I == {i \in 1..Len(s) : s[i] = c} IN IF I # {} THEN Min(I) ELSE 0
LastOf(s, c)  == LET I == {i \in 1..Len(s) : s[i] = c} IN IF I # {} THEN Max(I) ELSE 0

\* FirstOf is the first place of a character, 0 if it has none.
LEMMA FirstFound ==
    ASSUME NEW s \in Chars, NEW c
    PROVE  \/ FirstOf(s, c) = 0 /\ \A i \in 1..Len(s) : s[i] # c
           \/ /\ FirstOf(s, c) \in 1..Len(s) /\ s[FirstOf(s, c)] = c
              /\ \A i \in 1..FirstOf(s, c) - 1 : s[i] # c
<1> DEFINE I == {i \in 1..Len(s) : s[i] = c}
<1>1. Len(s) \in Nat /\ I \in SUBSET (1..Len(s))
  BY DEF Chars
<1>2. CASE I = {}
  BY <1>2 DEF FirstOf
<1>3. CASE I # {}
  <2>1. Min(I) \in I /\ \A i \in I : Min(I) <= i
    BY <1>1, <1>3, FirstPlace
  <2>2. \A i \in 1..Min(I) - 1 : s[i] # c
    BY <1>1, <2>1
  <2>3. FirstOf(s, c) = Min(I)
    BY <1>3 DEF FirstOf
  <2> QED
    BY <2>1, <2>2, <2>3
<1> QED
  BY <1>2, <1>3

\* LastOf is its last place.
LEMMA LastFound ==
    ASSUME NEW s \in Chars, NEW c
    PROVE  \/ LastOf(s, c) = 0 /\ \A i \in 1..Len(s) : s[i] # c
           \/ /\ LastOf(s, c) \in 1..Len(s) /\ s[LastOf(s, c)] = c
              /\ \A i \in LastOf(s, c) + 1..Len(s) : s[i] # c
<1> DEFINE I == {i \in 1..Len(s) : s[i] = c}
<1>1. Len(s) \in Nat /\ I \in SUBSET (1..Len(s))
  BY DEF Chars
<1>2. CASE I = {}
  BY <1>2 DEF LastOf
<1>3. CASE I # {}
  <2>1. Max(I) \in I /\ \A i \in I : i <= Max(I)
    BY <1>1, <1>3, LastPlace
  <2>2. \A i \in Max(I) + 1..Len(s) : s[i] # c
    BY <1>1, <2>1
  <2>3. LastOf(s, c) = Max(I)
    BY <1>3 DEF LastOf
  <2> QED
    BY <2>1, <2>2, <2>3
<1> QED
  BY <1>2, <1>3

-----------------------------------------------------------------------------
\* What is trimmed stays as it is when it is trimmed again.
LEMMA Trimmed ==
    ASSUME NEW s \in Chars
    PROVE  /\ TrimSpace(s) \in Chars
           /\ TrimSpace(TrimSpace(s)) = TrimSpace(s)
<1> DEFINE Kept(u) == {i \in DOMAIN u : u[i] \notin Space}
           t == TrimSpace(s)
<1>0. \A u \in Chars : Len(u) \in Nat /\ DOMAIN u = 1..Len(u)
  BY DEF Chars
<1>1. \A u : TrimSpace(u) = IF Kept(u) = {} THEN <<>> ELSE SubSeq(u, Min(Kept(u)), Max(Kept(u)))
  BY DEF TrimSpace
<1>2. \A u \in Chars : Kept(u) \in SUBSET (1..Len(u))
  BY <1>0
<1>3. ASSUME NEW u \in Chars, Kept(u) # {}
      PROVE  /\ Min(Kept(u)) \in Kept(u) /\ \A i \in Kept(u) : Min(Kept(u)) <= i
             /\ Max(Kept(u)) \in Kept(u) /\ \A i \in Kept(u) : i <= Max(Kept(u))
  BY <1>0, <1>2, <1>3, FirstPlace, LastPlace
<1>4. CASE Kept(s) = {}
  <2>1. Kept(<<>>) = {}
    OBVIOUS
  <2>2. t = <<>>
    BY <1>1, <1>4
  <2> QED
    BY <1>1, <2>1, <2>2, EmptySeq DEF Chars
<1>5. CASE Kept(s) # {}
  <2> DEFINE a == Min(Kept(s))
             b == Max(Kept(s))
  <2>1. /\ a \in 1..Len(s) /\ b \in 1..Len(s) /\ a <= b
        /\ s[a] \notin Space /\ s[b] \notin Space
    BY <1>0, <1>2, <1>3, <1>5
  <2>2. t = SubSeq(s, a, b)
    BY <1>1, <1>5
  <2> HIDE DEF a, b, t
  <2>3. a \in 1..Len(s) + 1 /\ b \in a - 1..Len(s) /\ 1 \in 1..b - a + 1
        /\ b - a + 1 \in 1..b - a + 1 /\ a + 1 - 1 = a /\ a + (b - a + 1) - 1 = b
    BY <1>0, <2>1
  <2>4. /\ t \in Chars /\ Len(t) = b - a + 1
        /\ t[1] = s[a] /\ t[Len(t)] = s[b]
    BY <2>2, <2>3, Part
  <2>5. 1 \in Kept(t) /\ Len(t) \in Kept(t)
    BY <1>0, <2>1, <2>3, <2>4
  <2>6. Min(Kept(t)) = 1 /\ Max(Kept(t)) = Len(t)
    <3>1. Kept(t) \in SUBSET (1..Len(t)) /\ Len(t) \in Nat
      BY <1>0, <1>2, <2>4
    <3>2. /\ Min(Kept(t)) \in Kept(t) /\ Min(Kept(t)) <= 1
          /\ Max(Kept(t)) \in Kept(t) /\ Len(t) <= Max(Kept(t))
      BY <1>3, <2>4, <2>5
    <3> QED
      BY <3>1, <3>2
  <2>7. TrimSpace(t) = t
    BY <1>1, <2>4, <2>5, <2>6, SubSeqFull DEF Chars
  <2> QED
    BY <2>4, <2>7 DEF t
<1> QED
  BY <1>4, <1>5

-----------------------------------------------------------------------------
\* A remote that is divided at a place of it, or at none, is one of the code's,
\* or an error.
LEMMA DivideTyped ==
    ASSUME NEW raw \in Chars, NEW slash \in 0..Len(raw)
    PROVE  /\ Divide(raw, slash) \in SpecState
           /\ Divide(raw, slash) # Malformed => Divide(raw, slash).raw = raw
           /\ Divide(raw, slash).raw = <<>> => Divide(raw, slash) = NoRemote
<1> DEFINE address == IF slash = 0 THEN raw ELSE SubSeq(raw, 1, slash - 1)
           path    == SubSeq(raw, Len(address) + 1, Len(raw))
           at      == LastOf(address, "@")
           host    == SubSeq(address, at + 1, Len(address))
           colon   == LastOf(host, ":")
           port    == SubSeq(host, colon + 1, Len(host))
           target  == SubSeq(address, 1, at + colon - 1)
<1>1. Divide(raw, slash) =
        IF raw = <<>> THEN NoRemote
        ELSE IF address = <<>> THEN Malformed
        ELSE IF colon > 1 /\ isDigits(port) THEN Remote(raw, target, port, path)
        ELSE Remote(raw, address, <<>>, path)
  BY DEF Divide, SelectLastInSeq, LastOf
<1>2. \A s \in Chars : Len(s) \in Nat
  BY DEF Chars
<1>3. address \in Chars /\ Len(address) \in 0..Len(raw)
  <2>1. CASE slash = 0
    BY <1>2, <2>1
  <2>2. CASE slash # 0
    <3>1. 1 \in 1..Len(raw) + 1 /\ slash - 1 \in 1 - 1..Len(raw)
          /\ (slash - 1) - 1 + 1 \in 0..Len(raw)
      BY <1>2, <2>2
    <3> QED
      BY <2>2, <3>1, Part
  <2> QED
    BY <2>1, <2>2
<1>4. path \in Chars
  <2>1. Len(address) + 1 \in 1..Len(raw) + 1 /\ Len(raw) \in (Len(address) + 1) - 1..Len(raw)
    BY <1>2, <1>3
  <2> QED
    BY <2>1, Part
<1> HIDE DEF address, path
<1>5. at \in 0..Len(address)
  BY <1>2, <1>3, LastFound
<1> HIDE DEF at
<1>6. host \in Chars /\ Len(host) = Len(address) - at
  <2>1. at + 1 \in 1..Len(address) + 1 /\ Len(address) \in (at + 1) - 1..Len(address)
        /\ Len(address) - (at + 1) + 1 = Len(address) - at
    BY <1>2, <1>3, <1>5
  <2> QED
    BY <1>3, <2>1, Part
<1> HIDE DEF host
<1>7. colon \in 0..Len(host)
  BY <1>2, <1>6, LastFound
<1> HIDE DEF colon
<1>8. port \in Chars
  <2>1. colon + 1 \in 1..Len(host) + 1 /\ Len(host) \in (colon + 1) - 1..Len(host)
    BY <1>2, <1>6, <1>7
  <2> QED
    BY <1>6, <2>1, Part
<1>9. colon > 1 => target \in Chars
  <2>1. colon > 1 => 1 \in 1..Len(address) + 1 /\ at + colon - 1 \in 1 - 1..Len(address)
    BY <1>2, <1>3, <1>5, <1>6, <1>7
  <2> QED
    BY <1>3, <2>1, Part
<1> HIDE DEF port, target
<1>10. <<>> \in Chars /\ <<"/">> \in Chars
  <2>1. "/" \in Character
    BY CharacterAssumption
  <2> QED
    BY <2>1, EmptySeq DEF Chars
<1>11. \A s, t, u, v \in Chars :
          /\ Remote(s, t, u, v) \in SpecState /\ Remote(s, t, u, v).raw = s
  BY DEF Remote, SpecState
<1>12. NoRemote.raw = <<>> /\ Malformed.raw # <<>>
  BY DEF NoRemote, Malformed, Remote
<1>13. NoRemote \in SpecState /\ Malformed \in SpecState
  BY <1>10, <1>11 DEF NoRemote, Malformed
<1>14. \A s, t, u, v \in Chars : s # <<>> =>
          /\ Remote(s, t, u, v) \in SpecState
          /\ Remote(s, t, u, v).raw = s /\ Remote(s, t, u, v).raw # <<>>
  BY <1>11, ZenonT(40)
<1>15. CASE raw = <<>>
  BY <1>1, <1>15, <1>12, <1>13
<1>16. CASE raw # <<>> /\ address = <<>>
  BY <1>1, <1>16, <1>12, <1>13
<1>17. CASE raw # <<>> /\ address # <<>> /\ colon > 1 /\ isDigits(port)
  <2>1. Divide(raw, slash) = Remote(raw, target, port, path)
    BY <1>1, <1>17
  <2> QED
    BY <1>17, <1>4, <1>8, <1>9, <1>14, <2>1
<1>18. CASE raw # <<>> /\ address # <<>> /\ ~(colon > 1 /\ isDigits(port))
  <2>1. Divide(raw, slash) = Remote(raw, address, <<>>, path)
    BY <1>1, <1>18
  <2> QED
    BY <1>18, <1>3, <1>4, <1>10, <1>14, <2>1, SMTT(30)
<1> QED
  BY <1>15, <1>16, <1>17, <1>18

\* What Parse returns depends on the trimmed text only, which it keeps.
LEMMA ParseTyped ==
    ASSUME NEW arg \in Chars
    PROVE  /\ Parse(arg) \in SpecState
           /\ Parse(arg) # Malformed => Parse(arg).raw = TrimSpace(arg)
           /\ Parse(arg).raw = <<>> => Parse(arg) = NoRemote
<1>1. TrimSpace(arg) \in Chars
  BY Trimmed
<1>2. Len(TrimSpace(arg)) \in Nat
  BY <1>1 DEF Chars
<1>3. FirstOf(TrimSpace(arg), "/") \in 0..Len(TrimSpace(arg))
  BY <1>1, <1>2, FirstFound
<1>4. Parse(arg) = Divide(TrimSpace(arg), FirstOf(TrimSpace(arg), "/"))
  BY DEF Parse, SelectInSeq, FirstOf
<1> QED
  BY <1>1, <1>3, <1>4, DivideTyped

\* What it returns can be read again from the text it keeps.
LEMMA ParseAgain ==
    ASSUME NEW arg \in Chars, Parse(arg) # Malformed
    PROVE  Parse(arg) = Divide(Parse(arg).raw, FirstOf(Parse(arg).raw, "/"))
<1>1. Parse(arg) = Divide(TrimSpace(arg), FirstOf(TrimSpace(arg), "/"))
  BY DEF Parse, SelectInSeq, FirstOf
<1> QED
  BY <1>1, ParseTyped

-----------------------------------------------------------------------------
(***************************************************************************)
(* The grammar.                                                            *)
(***************************************************************************)
\* A part of a part.
LEMMA SubPart ==
    ASSUME NEW s \in Chars, NEW a \in 1..Len(s) + 1, NEW b \in a - 1..Len(s),
           NEW c \in 1..b - a + 2, NEW d \in c - 1..b - a + 1
    PROVE  SubSeq(SubSeq(s, a, b), c, d) = SubSeq(s, a + c - 1, a + d - 1)
<1> DEFINE t == SubSeq(s, a, b)
           u == SubSeq(t, c, d)
           v == SubSeq(s, a + c - 1, a + d - 1)
<1>1. Len(s) \in Nat
  BY DEF Chars
<1>2. /\ t \in Chars /\ Len(t) = b - a + 1
      /\ \A p \in 1..b - a + 1 : t[p] = s[a + p - 1]
  BY Part
<1> HIDE DEF t
<1>3. c \in 1..Len(t) + 1 /\ d \in c - 1..Len(t)
  BY <1>1, <1>2
<1>4. /\ u \in Chars /\ Len(u) = d - c + 1
      /\ \A p \in 1..d - c + 1 : u[p] = t[c + p - 1]
  BY <1>2, <1>3, Part
<1>5. a + c - 1 \in 1..Len(s) + 1 /\ a + d - 1 \in (a + c - 1) - 1..Len(s)
      /\ (a + d - 1) - (a + c - 1) + 1 = d - c + 1
  BY <1>1
<1>6. /\ v \in Chars /\ Len(v) = d - c + 1
      /\ \A p \in 1..d - c + 1 : v[p] = s[(a + c - 1) + p - 1]
  BY <1>5, Part, ZenonT(40)
<1> HIDE DEF u, v
<1>7. \A p \in 1..d - c + 1 : /\ c + p - 1 \in 1..b - a + 1
                              /\ a + (c + p - 1) - 1 = (a + c - 1) + p - 1
  BY <1>1
<1>8. \A p \in 1..Len(u) : u[p] = v[p]
  BY <1>2, <1>4, <1>6, <1>7
<1>9. u = v
  BY <1>4, <1>6, <1>8, SameChars
<1> QED
  BY <1>9 DEF t, u, v

\* A trimmed text that is a user, a host, a port and a path, which end at the
\* places i, j, k and the end, is divided there.
LEMMA DividedThere ==
    ASSUME NEW raw \in Chars, TrimSpace(raw) = raw,
           NEW i \in 0..Len(raw), NEW j \in i..Len(raw), NEW k \in j..Len(raw),
           IsUser(SubSeq(raw, 1, i)), IsHost(SubSeq(raw, i + 1, j)),
           IsPort(SubSeq(raw, j + 1, k)), IsPath(SubSeq(raw, k + 1, Len(raw)))
    PROVE  Parse(raw) = Remote(raw, SubSeq(raw, 1, j), SubSeq(raw, j + 2, k),
                               SubSeq(raw, k + 1, Len(raw)))
<1> DEFINE n == Len(raw)
<1>0. n \in Nat /\ i \in Nat /\ j \in Nat /\ k \in Nat /\ i <= j /\ j <= k /\ k <= n
  BY DEF Chars
<1>a. \A s \in Chars : (s = <<>>) <=> (Len(s) = 0)
  BY EmptySeq DEF Chars
\* What stands where.
<1>1. i = 0 \/ (i > 1 /\ raw[i] = "@" /\ \A p \in 1..i : raw[p] # "/")
  <2> DEFINE s == SubSeq(raw, 1, i)
  <2>1. 1 \in 1..n + 1 /\ i \in 1 - 1..n /\ i - 1 + 1 = i
    BY <1>0
  <2>2. /\ s \in Chars /\ Len(s) = i /\ \A p \in 1..i : s[p] = raw[1 + p - 1]
        /\ Range(s) = {raw[p] : p \in 1..i}
    BY <2>1, Part, ZenonT(40)
  <2> HIDE DEF s
  <2>3. i # 0 => Len(s) > 1 /\ s[Len(s)] = "@" /\ "/" \notin Range(s)
    BY <1>a, <2>2 DEF IsUser, Last, s
  <2> QED
    BY <1>0, <2>2, <2>3
<1>2. i < j /\ \A p \in i + 1..j : raw[p] \notin {"@", ":", "/"}
  <2> DEFINE s == SubSeq(raw, i + 1, j)
  <2>1. i + 1 \in 1..n + 1 /\ j \in (i + 1) - 1..n /\ j - (i + 1) + 1 = j - i
    BY <1>0
  <2>2. /\ s \in Chars /\ Len(s) = j - i
        /\ Range(s) = {raw[p] : p \in i + 1..j}
    BY <2>1, Part
  <2> HIDE DEF s
  <2>3. s # <<>> /\ \A c \in Range(s) : c \notin {"@", ":", "/"}
    BY DEF IsHost, s
  <2>4. i < j
    BY <1>0, <1>a, <2>2, <2>3
  <2>5. \A p \in i + 1..j : raw[p] \in Range(s)
    BY <2>2
  <2> QED
    BY <2>3, <2>4, <2>5
<1>3. k = j \/ (k > j + 1 /\ raw[j + 1] = ":" /\ \A p \in j + 2..k : raw[p] \in Digit)
  <2> DEFINE s == SubSeq(raw, j + 1, k)
  <2>1. j + 1 \in 1..n + 1 /\ k \in (j + 1) - 1..n /\ k - (j + 1) + 1 = k - j
    BY <1>0
  <2>2. /\ s \in Chars /\ Len(s) = k - j
        /\ \A p \in 1..k - j : s[p] = raw[(j + 1) + p - 1]
    BY <2>1, Part
  <2> HIDE DEF s
  <2> SUFFICES ASSUME k # j
               PROVE  k > j + 1 /\ raw[j + 1] = ":" /\ \A p \in j + 2..k : raw[p] \in Digit
    OBVIOUS
  <2>3. s # <<>> /\ Head(s) = ":" /\ Tail(s) # <<>> /\ Range(Tail(s)) \subseteq Digit
    <3>1. s # <<>>
      BY <1>0, <1>a, <2>2
    <3>2. IsPort(s)
      BY DEF s
    <3> QED
      BY <3>1, <3>2 DEF IsPort, isDigits
  <2>4. /\ Tail(s) \in Chars /\ Len(Tail(s)) = Len(s) - 1
        /\ \A p \in 1..Len(Tail(s)) : Tail(s)[p] = s[p + 1]
    BY <2>2, <2>3, HeadTailProperties DEF Chars
  <2>5. Head(s) = s[1]
    OBVIOUS
  <2>6. k > j + 1
    BY <1>0, <1>a, <2>2, <2>3, <2>4
  <2>7. raw[j + 1] = ":"
    BY <1>0, <2>2, <2>3, <2>5, <2>6
  <2>8. ASSUME NEW p \in j + 2..k PROVE raw[p] \in Digit
    <3> DEFINE q == p - j - 1
    <3>1. /\ q \in 1..Len(s) - 1 /\ q + 1 \in 1..k - j
          /\ (j + 1) + (q + 1) - 1 = p
      BY <1>0, <2>2
    <3> HIDE DEF q
    <3>2. Tail(s)[q] = raw[p]
      BY <2>2, <2>4, <3>1
    <3>3. q \in DOMAIN Tail(s)
      BY <2>4, <3>1 DEF Chars
    <3>4. Tail(s)[q] \in Range(Tail(s))
      BY <3>3 DEF Range
    <3> QED
      BY <2>3, <3>2, <3>4
  <2> QED
    BY <2>6, <2>7, <2>8
<1>4. k = n \/ raw[k + 1] = "/"
  <2> DEFINE s == SubSeq(raw, k + 1, n)
  <2>1. k + 1 \in 1..n + 1 /\ n \in (k + 1) - 1..n /\ n - (k + 1) + 1 = n - k
    BY <1>0
  <2>2. /\ s \in Chars /\ Len(s) = n - k
        /\ \A p \in 1..n - k : s[p] = raw[(k + 1) + p - 1]
    BY <2>1, Part, ZenonT(40)
  <2> HIDE DEF s
  <2>3. s # <<>> => Head(s) = "/" /\ Head(s) = s[1]
    BY DEF IsPath, s
  <2> QED
    BY <1>0, <1>a, <2>2, <2>3
<1>5. \A p \in 1..k : raw[p] # "/"
  <2>1. "/" \notin Digit
    BY DEF Digit
  <2>2. \A p \in 1..k : p \in 1..i \/ p \in i + 1..j \/ p = j + 1 \/ p \in j + 2..k
    BY <1>0
  <2> QED
    BY <1>0, <1>1, <1>2, <1>3, <2>1, <2>2
\* How Parse divides it.
<1> DEFINE slash   == FirstOf(raw, "/")
           address == IF slash = 0 THEN raw ELSE SubSeq(raw, 1, slash - 1)
           path    == SubSeq(raw, Len(address) + 1, Len(raw))
           at      == LastOf(address, "@")
           host    == SubSeq(address, at + 1, Len(address))
           colon   == LastOf(host, ":")
           port    == SubSeq(host, colon + 1, Len(host))
           target  == SubSeq(address, 1, at + colon - 1)
<1>6. Parse(raw) =
        IF raw = <<>> THEN NoRemote
        ELSE IF address = <<>> THEN Malformed
        ELSE IF colon > 1 /\ isDigits(port) THEN Remote(raw, target, port, path)
        ELSE Remote(raw, address, <<>>, path)
  <2>1. Parse(raw) = Divide(raw, slash)
    BY DEF Parse, SelectInSeq, FirstOf
  <2> HIDE DEF slash
  <2> QED
    BY <2>1 DEF Divide, SelectLastInSeq, LastOf
<1>7. slash = IF k = n THEN 0 ELSE k + 1
  BY <1>0, <1>4, <1>5, FirstFound
<1>8. address = SubSeq(raw, 1, k) /\ address \in Chars /\ Len(address) = k
      /\ \A p \in 1..k : address[p] = raw[p]
  <2>1. 1 \in 1..n + 1 /\ k \in 1 - 1..n /\ k - 1 + 1 = k
    BY <1>0
  <2>2. /\ SubSeq(raw, 1, k) \in Chars /\ Len(SubSeq(raw, 1, k)) = k
        /\ \A p \in 1..k : SubSeq(raw, 1, k)[p] = raw[1 + p - 1]
    BY <2>1, Part
  <2>3. address = SubSeq(raw, 1, k)
    <3>1. CASE k = n
      BY <1>7, <3>1, SubSeqFull DEF Chars
    <3>2. CASE k # n
      <4>1. slash = k + 1 /\ (k + 1) - 1 = k /\ slash # 0
        BY <1>0, <1>7, <3>2
      <4> HIDE DEF slash
      <4> QED
        BY <4>1
    <3> QED
      BY <3>1, <3>2
  <2> HIDE DEF address
  <2> QED
    BY <2>2, <2>3
<1>9. path = SubSeq(raw, k + 1, n)
  BY <1>8
<1> HIDE DEF slash, address, path
<1>10. at = i
  <2>1. \A p \in i + 1..k : address[p] # "@"
    <3>1. "@" \notin Digit
      BY DEF Digit
    <3>2. \A p \in i + 1..k : p \in i + 1..j \/ p = j + 1 \/ p \in j + 2..k
      BY <1>0
    <3> QED
      BY <1>0, <1>2, <1>3, <1>8, <3>1, <3>2
  <2>2. i # 0 => address[i] = "@" /\ i \in 1..k
    BY <1>0, <1>1, <1>8
  <2>3. \/ at = 0 /\ \A p \in 1..k : address[p] # "@"
        \/ /\ at \in 1..k /\ address[at] = "@"
           /\ \A p \in at + 1..k : address[p] # "@"
    <3>1. \/ at = 0 /\ \A p \in 1..Len(address) : address[p] # "@"
          \/ /\ at \in 1..Len(address) /\ address[at] = "@"
             /\ \A p \in at + 1..Len(address) : address[p] # "@"
      BY <1>8, LastFound, ZenonT(40)
    <3> HIDE DEF at
    <3> QED
      BY <1>8, <3>1
  <2> HIDE DEF at
  <2> QED
    BY <1>0, <2>1, <2>2, <2>3
<1> HIDE DEF at
<1>11. /\ host \in Chars /\ Len(host) = k - i
       /\ \A p \in 1..k - i : host[p] = raw[i + p]
  <2>1. i + 1 \in 1..k + 1 /\ k \in (i + 1) - 1..k /\ k - (i + 1) + 1 = k - i
    BY <1>0
  <2>2. /\ host \in Chars /\ Len(host) = k - i
        /\ \A p \in 1..k - i : host[p] = address[(i + 1) + p - 1]
    <3>1. i + 1 \in 1..Len(address) + 1 /\ k \in (i + 1) - 1..Len(address)
      BY <1>8, <2>1
    <3>2. host = SubSeq(address, i + 1, k)
      BY <1>8, <1>10
    <3>3. /\ SubSeq(address, i + 1, k) \in Chars
          /\ Len(SubSeq(address, i + 1, k)) = k - (i + 1) + 1
          /\ \A p \in 1..k - (i + 1) + 1 :
                SubSeq(address, i + 1, k)[p] = address[(i + 1) + p - 1]
      BY <1>8, <3>1, Part
    <3> HIDE DEF host
    <3> QED
      BY <2>1, <3>2, <3>3
  <2>3. \A p \in 1..k - i : (i + 1) + p - 1 = i + p /\ i + p \in 1..k
    BY <1>0
  <2> QED
    BY <1>8, <2>2, <2>3
<1>12. host = SubSeq(raw, i + 1, k)
  <2>1. i + 1 \in 1..n + 1 /\ k \in (i + 1) - 1..n /\ k - (i + 1) + 1 = k - i
    BY <1>0
  <2>2. /\ SubSeq(raw, i + 1, k) \in Chars /\ Len(SubSeq(raw, i + 1, k)) = k - i
        /\ \A p \in 1..k - i : SubSeq(raw, i + 1, k)[p] = raw[(i + 1) + p - 1]
    BY <2>1, Part
  <2>3. \A p \in 1..k - i : (i + 1) + p - 1 = i + p
    BY <1>0
  <2> HIDE DEF host
  <2> DEFINE s == SubSeq(raw, i + 1, k)
  <2>4. s \in Chars /\ Len(host) = Len(s)
    BY <1>11, <2>2
  <2>5. \A p \in 1..Len(host) : host[p] = s[p]
    BY <1>11, <2>2, <2>3
  <2> HIDE DEF s
  <2>6. host = s
    BY <1>11, <2>4, <2>5, SameChars
  <2> QED
    BY <2>6 DEF s
<1> HIDE DEF host
<1>13. colon = IF k = j THEN 0 ELSE j + 1 - i
  <2>1. \A p \in 1..k - i : p # j + 1 - i => host[p] # ":"
    <3>1. ":" \notin Digit
      BY DEF Digit
    <3>2. \A p \in 1..k - i : p # j + 1 - i =>
             (i + p \in i + 1..j) \/ (k # j /\ i + p \in j + 2..k)
      BY <1>0
    <3> QED
      BY <1>2, <1>3, <1>11, <3>1, <3>2
  <2>2. k # j => host[j + 1 - i] = ":" /\ j + 1 - i \in 1..k - i
    <3>1. k # j => j + 1 - i \in 1..k - i /\ i + (j + 1 - i) = j + 1
      BY <1>0, <1>3
    <3> QED
      BY <1>3, <1>11, <3>1
  <2>3. \/ colon = 0 /\ \A p \in 1..k - i : host[p] # ":"
        \/ /\ colon \in 1..k - i /\ host[colon] = ":"
    BY <1>11, LastFound
  <2> HIDE DEF colon
  <2>4. CASE k = j
    <3>1. \A p \in 1..k - i : p # j + 1 - i
      BY <1>0, <2>4
    <3> QED
      BY <2>1, <2>3, <2>4, <3>1
  <2>5. CASE k # j
    BY <2>1, <2>2, <2>3, <2>5
  <2> QED
    BY <2>4, <2>5
<1> HIDE DEF colon
<1>14. raw # <<>> /\ address # <<>>
  BY <1>0, <1>2, <1>8, <1>a
<1>15. CASE k = j
  <2>1. colon = 0
    BY <1>13, <1>15
  <2>2. Parse(raw) = Remote(raw, address, <<>>, path)
    BY <1>6, <1>14, <2>1
  <2>3. SubSeq(raw, j + 2, k) = <<>>
    BY <1>0, <1>15, SubSeqEmpty
  <2> QED
    BY <1>8, <1>9, <1>15, <2>2, <2>3
<1>16. CASE k # j
  <2>1. colon = j + 1 - i /\ colon > 1 /\ k > j + 1
    BY <1>0, <1>2, <1>3, <1>13, <1>16
  <2>2. port = SubSeq(raw, j + 2, k)
    <3>1. /\ i + 1 \in 1..n + 1 /\ k \in (i + 1) - 1..n
          /\ colon + 1 \in 1..k - (i + 1) + 2 /\ k - i \in (colon + 1) - 1..k - (i + 1) + 1
          /\ (i + 1) + (colon + 1) - 1 = j + 2 /\ (i + 1) + (k - i) - 1 = k
      BY <1>0, <2>1
    <3>2. SubSeq(SubSeq(raw, i + 1, k), colon + 1, k - i) =
             SubSeq(raw, (i + 1) + (colon + 1) - 1, (i + 1) + (k - i) - 1)
      BY ONLY <3>1, raw \in Chars, SubPart
    <3> QED
      BY <1>11, <1>12, <3>1, <3>2
  <2>3. target = SubSeq(raw, 1, j)
    <3>1. /\ 1 \in 1..n + 1 /\ k \in 1 - 1..n /\ 1 \in 1..k - 1 + 2
          /\ j \in 1 - 1..k - 1 + 1 /\ 1 + 1 - 1 = 1 /\ 1 + j - 1 = j
          /\ i + colon - 1 = j
      BY <1>0, <2>1
    <3>2. SubSeq(SubSeq(raw, 1, k), 1, j) = SubSeq(raw, 1 + 1 - 1, 1 + j - 1)
      BY ONLY <3>1, raw \in Chars, SubPart
    <3> QED
      BY <1>8, <1>10, <3>1, <3>2
  <2>4. isDigits(port)
    <3>1. /\ j + 2 \in 1..n + 1 /\ k \in (j + 2) - 1..n /\ k - (j + 2) + 1 > 0
      BY <1>0, <2>1
    <3>2. /\ port \in Chars /\ Len(port) = k - (j + 2) + 1
          /\ Range(port) = {raw[p] : p \in j + 2..k}
      BY <2>2, <3>1, Part, ZenonT(40)
    <3> HIDE DEF port
    <3>3. port # <<>>
      BY <1>0, <1>a, <3>1, <3>2
    <3> QED
      BY <1>3, <1>16, <3>2, <3>3 DEF isDigits
  <2>5. Parse(raw) = Remote(raw, target, port, path)
    BY <1>6, <1>14, <2>1, <2>4
  <2> HIDE DEF port, target
  <2> QED
    BY <1>9, <2>2, <2>3, <2>5
<1> QED
  BY <1>15, <1>16

\* A remote that can be read in the documented form is read so, however long it
\* is, and there is one such way (remote.go:9, tools.go:49).
THEOREM Grammar ==
    ASSUME NEW arg \in Chars
    PROVE  ParsesAsDocumented(TrimSpace(arg))
<1> DEFINE raw == TrimSpace(arg)
<1>1. raw \in Chars /\ TrimSpace(raw) = raw
  BY Trimmed
<1> HIDE DEF raw
<1>2. Len(raw) \in Nat
  BY <1>1 DEF Chars
<1>3. ASSUME NEW i \in 0..Len(raw), IsUser(SubSeq(raw, 0 + 1, i)),
             NEW j \in i..Len(raw), IsHost(SubSeq(raw, i + 1, j)),
             NEW k \in j..Len(raw), IsPort(SubSeq(raw, j + 1, k)),
             IsPath(SubSeq(raw, k + 1, Len(raw)))
      PROVE  Parse(raw) = Remote(raw, SubSeq(raw, 0 + 1, j), SubSeq(raw, (j + 1) + 1, k),
                                 SubSeq(raw, k + 1, Len(raw)))
  <2>1. 0 + 1 = 1 /\ (j + 1) + 1 = j + 2
    BY <1>2
  <2>2. IsUser(SubSeq(raw, 1, i))
    BY <1>3, <2>1
  <2>3. Parse(raw) = Remote(raw, SubSeq(raw, 1, j), SubSeq(raw, j + 2, k),
                            SubSeq(raw, k + 1, Len(raw)))
    BY <1>1, <1>3, <2>2, DividedThere
  <2> QED
    BY <2>1, <2>3
<1>4. ParsesAsDocumented(raw)
  BY <1>3 DEF ParsesAsDocumented
<1> QED
  BY <1>4 DEF raw
=============================================================================
