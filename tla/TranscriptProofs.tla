-------------------------- MODULE TranscriptProofs --------------------------
(***************************************************************************)
(* Proofs about the semantic transcript, for all hypotheses and limits:    *)
(* promotion, commits, late answers and revisions lose no word and double  *)
(* none, no text is cut inside a character, no request exceeds its limits. *)
(***************************************************************************)
EXTENDS TranscriptProperties, TLAPS, FiniteSetTheorems, SequenceTheorems,
        WellFoundedInduction

-----------------------------------------------------------------------------
(* Induction and recursion over an initial segment of the numbers *)

\* What holds 0, and with a number the next, holds every number.
LEMMA SetInduction ==
  ASSUME NEW S, 0 \in S, \A n \in Nat : n \in S => n + 1 \in S
  PROVE  Nat \subseteq S
<1> DEFINE T == Nat \ S
<1> SUFFICES ASSUME T # {} PROVE FALSE
  OBVIOUS
<1>1. PICK n \in T : \A m \in T : ~ (<<m, n>> \in OpToRel(<, Nat))
  BY NatLessThanWellFounded, WFMin
<1>2. \A m \in T : ~ (m < n)
  BY <1>1 DEF OpToRel
<1>3. n # 0 /\ n - 1 \in Nat /\ n - 1 < n
  OBVIOUS
<1> QED
  BY <1>2, <1>3

Steps(T, n) == [T \X (1..n) -> T]

Unfolds(f, T, base, n, step) ==
  f \in [0..n -> T] /\ f[0] = base /\ \A k \in 1..n : f[k] = step[<<f[k - 1], k>>]

\* A function that is defined by what each of its values makes of the one before exists.
LEMMA RecursionExists ==
  ASSUME NEW T, NEW base \in T, NEW n \in Nat, NEW step \in Steps(T, n)
  PROVE  \E f : Unfolds(f, T, base, n, step)
<1> USE DEF Steps
<1> DEFINE G(m) == \E f \in [0..m -> T] :
                     f[0] = base /\ \A k \in 1..m : f[k] = step[<<f[k - 1], k>>]
           S == {m \in Nat : m <= n => G(m)}
<1>1. 0 \in S
  <2> DEFINE f == [k \in 0..0 |-> base]
  <2>1. f \in [0..0 -> T] /\ f[0] = base /\ \A k \in 1..0 : f[k] = step[<<f[k - 1], k>>]
    OBVIOUS
  <2> QED BY <2>1
<1>2. ASSUME NEW m \in Nat, m \in S PROVE m + 1 \in S
  <2> SUFFICES ASSUME m + 1 <= n PROVE G(m + 1)
    OBVIOUS
  <2>1. PICK f \in [0..m -> T] :
           f[0] = base /\ \A k \in 1..m : f[k] = step[<<f[k - 1], k>>]
    BY <1>2
  <2> DEFINE g == [k \in 0..m + 1 |-> IF k = m + 1 THEN step[<<f[m], m + 1>>] ELSE f[k]]
  <2>2. f[m] \in T /\ <<f[m], m + 1>> \in T \X (1..n)
    BY <2>1
  <2>3. step[<<f[m], m + 1>>] \in T
    BY <2>2
  <2>4. g \in [0..m + 1 -> T]
    BY <2>1, <2>3
  <2>5. \A k \in 0..m : g[k] = f[k]
    OBVIOUS
  <2>6. g[m + 1] = step[<<f[m], m + 1>>]
    OBVIOUS
  <2> HIDE DEF g
  <2>7. g[0] = base
    BY <2>1, <2>5
  <2>8. ASSUME NEW k \in 1..m + 1 PROVE g[k] = step[<<g[k - 1], k>>]
    <3>1. CASE k = m + 1
      <4>1. k - 1 = m /\ g[k - 1] = f[m]
        BY <3>1, <2>5
      <4> QED BY <4>1, <3>1, <2>6
    <3>2. CASE k # m + 1
      <4>1. k \in 1..m /\ k \in 0..m /\ k - 1 \in 0..m
        BY <3>2
      <4>2. g[k - 1] = f[k - 1] /\ g[k] = f[k]
        BY <4>1, <2>5
      <4> QED BY <4>1, <4>2, <2>1
    <3> QED BY <3>1, <3>2
  <2> QED BY <2>4, <2>7, <2>8
<1> HIDE DEF S
<1>3. n \in S
  BY <1>1, <1>2, SetInduction
<1> QED
  BY <1>3 DEF S, Unfolds

-----------------------------------------------------------------------------
(* Least, greatest and k-th of a set of offsets *)

LEMMA LeastIsLeast ==
  ASSUME NEW S, S \subseteq Nat, S # {}
  PROVE  LeastOf(S) \in S /\ \A y \in S : LeastOf(S) <= y
<1>1. PICK x \in S : \A y \in S : ~ (<<y, x>> \in OpToRel(<, Nat))
  BY NatLessThanWellFounded, WFMin
<1>2. \A y \in S : ~ (y < x)
  BY <1>1 DEF OpToRel
<1>3. \A y \in S : x <= y
  BY <1>2
<1> QED
  BY <1>3 DEF LeastOf

LEMMA GreatestIsGreatest ==
  ASSUME NEW n \in Nat, NEW S, S \subseteq 0..n, S # {}
  PROVE  GreatestOf(S) \in S /\ \A y \in S : GreatestOf(S) >= y
<1> DEFINE U == {u \in Nat : \A y \in S : y <= u}
<1>1. n \in U
  OBVIOUS
<1>2. PICK u \in U : \A v \in U : u <= v
  BY <1>1, LeastIsLeast
<1>3. u \in S
  <2>1. SUFFICES ASSUME u \notin S PROVE FALSE
    OBVIOUS
  <2>2. \A y \in S : y < u
    BY <1>2, <2>1
  <2>3. PICK y \in S : TRUE
    OBVIOUS
  <2>4. u - 1 \in Nat
    BY <2>2, <2>3, <1>2
  <2>5. u - 1 \in U
    BY <2>2, <2>4
  <2> QED BY <2>5, <1>2
<1>4. u \in S /\ \A y \in S : u >= y
  BY <1>2, <1>3
<1> QED
  BY <1>4 DEF GreatestOf

LEMMA OffsetsFinite ==
  ASSUME NEW n \in Nat, NEW S, S \subseteq 0..n
  PROVE  IsFiniteSet(S) /\ Cardinality(S) \in Nat
<1>1. IsFiniteSet(0..n)
  BY FS_Interval
<1>2. IsFiniteSet(S)
  BY <1>1, FS_Subset
<1> QED
  BY <1>2, FS_CardinalityType

\* Without its greatest element a set is what lies below it.
LEMMA BelowGreatest ==
  ASSUME NEW n \in Nat, NEW S, S \subseteq 0..n, S # {}
  PROVE  /\ GreatestOf(S) \in S
         /\ Cardinality({x \in S : x < GreatestOf(S)}) = Cardinality(S) - 1
<1> DEFINE g == GreatestOf(S)
<1>1. g \in S /\ \A y \in S : g >= y
  BY GreatestIsGreatest
<1> HIDE DEF g
<1>2. {x \in S : x < g} = S \ {g}
  <2>1. g \in Nat /\ \A x \in S : x \in Nat
    BY <1>1
  <2>2. \A x \in S : x < g <=> x # g
    BY <1>1, <2>1
  <2> QED BY <2>2
<1>3. IsFiniteSet(S)
  BY OffsetsFinite
<1>4. Cardinality(S \ {g}) = Cardinality(S) - 1
  BY <1>1, <1>3, FS_RemoveElement
<1> QED
  BY <1>1, <1>2, <1>4 DEF g

\* The k-th element exists.
LEMMA NthExists ==
  ASSUME NEW n \in Nat, NEW S, S \subseteq 0..n, NEW k \in 1..Cardinality(S)
  PROVE  Nth(k, S) \in S /\ Cardinality({x \in S : x < Nth(k, S)}) = k - 1
<1> DEFINE below(m) == {x \in S : x < m}
           A == {m \in S : Cardinality(below(m)) >= k - 1}
<1>1. Cardinality(S) \in Nat
  BY OffsetsFinite
<1>2. k \in Nat /\ k >= 1 /\ k <= Cardinality(S)
  BY <1>1
<1>3. S # {}
  BY <1>2, FS_EmptySet
<1>4. \A m \in S : Cardinality(below(m)) \in Nat
  <2> TAKE m \in S
  <2>1. below(m) \subseteq 0..n
    OBVIOUS
  <2> QED BY <2>1, OffsetsFinite
<1> HIDE DEF below
<1>5. PICK m \in A : \A x \in A : m <= x
  <2> DEFINE g == GreatestOf(S)
  <2>1. g \in S /\ Cardinality(below(g)) = Cardinality(S) - 1
    BY <1>3, BelowGreatest DEF below
  <2> HIDE DEF g
  <2>2. g \in A
    BY <2>1, <1>1, <1>2
  <2>3. A \subseteq S
    OBVIOUS
  <2>4. S \subseteq Nat
    OBVIOUS
  <2> HIDE DEF A
  <2> QED BY <2>2, <2>3, <2>4, LeastIsLeast
<1>6. Cardinality(below(m)) <= k - 1
  <2>1. SUFFICES ASSUME Cardinality(below(m)) > k - 1 PROVE FALSE
    BY <1>2, <1>4
  <2> DEFINE B == below(m)
             p == GreatestOf(B)
  <2>2. B \subseteq 0..n /\ B # {}
    <3>1. Cardinality(B) # 0
      BY <2>1, <1>2, <1>4
    <3> QED BY <3>1, FS_EmptySet DEF below
  <2>3. p \in B /\ Cardinality({x \in B : x < p}) = Cardinality(B) - 1
    BY <2>2, BelowGreatest
  <2> HIDE DEF p
  <2>4. p \in S /\ p < m
    BY <2>3 DEF below
  <2>5. {x \in B : x < p} = below(p)
    <3>1. \A x \in S : x \in Nat
      OBVIOUS
    <3>2. \A x \in S : (x < m /\ x < p) <=> x < p
      BY <2>4, <3>1
    <3> QED BY <3>2 DEF below
  <2>6. Cardinality(below(p)) >= k - 1
    <3>1. Cardinality(B) \in Nat /\ Cardinality(B) > k - 1
      BY <2>1, <1>4
    <3>2. Cardinality(below(p)) = Cardinality(B) - 1
      BY <2>3, <2>5
    <3> HIDE DEF B
    <3> QED BY <3>1, <3>2, <1>2
  <2>7. p \in A
    BY <2>4, <2>6
  <2> QED BY <2>4, <2>7, <1>5
<1>7. m \in S /\ Cardinality(below(m)) = k - 1
  BY <1>2, <1>4, <1>5, <1>6
<1> QED
  BY <1>7 DEF Nth, below

-----------------------------------------------------------------------------
(* Every offset the text helpers compute lies in the text *)

\* A string; the provers have to be told that the space is one.
Byte == STRING \cup {"_"}
Text == Seq(Byte)

LEMMA TokenOffsets ==
  ASSUME NEW text \in Text
  PROVE  /\ Len(text) \in Nat
         /\ Begins(text) \subseteq 0..Len(text) - 1
         /\ Begins(text) \subseteq 0..Len(text)
         /\ TokenCount(text) \in Nat
         /\ Ends(text) \subseteq 1..Len(text)
         /\ Ends(text) \subseteq 0..Len(text)
         /\ Cardinality(Ends(text)) = TokenCount(text)
<1> DEFINE L == Len(text)
           S == Begins(text)
<1>1. L \in Nat
  BY DEF Text
<1>2. S \subseteq 0..L - 1
  BY DEF Begins
<1> HIDE DEF L, S
<1>3. S \subseteq 0..L /\ L \notin S
  BY <1>1, <1>2
<1>4. IsFiniteSet(S) /\ Cardinality(S) \in Nat
  BY <1>1, <1>3, OffsetsFinite
<1>5. CASE S = {}
  <2>1. Ends(text) = {}
    BY <1>5 DEF Ends, S
  <2>2. Cardinality(S) = 0 /\ Cardinality({}) = 0
    BY <1>5, FS_EmptySet
  <2> QED BY <1>1, <1>2, <1>3, <1>4, <2>1, <2>2, <1>5 DEF TokenCount, L, S
<1>6. CASE S # {}
  <2> DEFINE m == LeastOf(S)
  <2>1. m \in S /\ \A y \in S : m <= y
    <3>1. S \subseteq Nat
      BY <1>3
    <3> QED BY <3>1, <1>6, LeastIsLeast
  <2> HIDE DEF m
  <2>2. Ends(text) = (S \ {m}) \cup {L}
    BY <1>6 DEF Ends, S, L, m
  <2>3. \A y \in S \ {m} : y \in 1..L
    <3>1. \A y \in S \ {m} : y \in Nat /\ m \in Nat /\ m <= y /\ m # y /\ y <= L
      BY <2>1, <1>3
    <3> QED BY <3>1, <1>1
  <2>4. L \in 1..L
    BY <1>1, <1>2, <2>1
  <2>5. Ends(text) \subseteq 1..L
    BY <2>2, <2>3, <2>4
  <2>6. IsFiniteSet(S \ {m}) /\ Cardinality(S \ {m}) = Cardinality(S) - 1
    BY <1>4, <2>1, FS_RemoveElement
  <2>7. Cardinality((S \ {m}) \cup {L}) = Cardinality(S \ {m}) + 1
    BY <2>6, <1>3, FS_AddElement
  <2>8. Cardinality(Ends(text)) = Cardinality(S)
    BY <2>2, <2>6, <2>7, <1>4
  <2>9. Ends(text) \subseteq 0..L
    BY <2>5, <1>1
  <2> QED BY <1>1, <1>2, <1>3, <1>4, <2>5, <2>8, <2>9 DEF TokenCount, L, S
<1> QED
  BY <1>5, <1>6

LEMMA BoundaryRange ==
  ASSUME NEW text \in Text, NEW n
  PROVE  TokenBoundaryAtOrBefore(text, n) \in 0..Len(text)
<1> DEFINE S == {0} \cup {m \in Ends(text) : m <= n}
<1>1. Len(text) \in Nat /\ Ends(text) \subseteq 0..Len(text)
  BY TokenOffsets
<1>2. S \subseteq 0..Len(text) /\ S # {}
  BY <1>1
<1> HIDE DEF S
<1>3. GreatestOf(S) \in S
  BY <1>1, <1>2, GreatestIsGreatest
<1> QED
  BY <1>2, <1>3 DEF TokenBoundaryAtOrBefore, S

LEMMA NthEnd ==
  ASSUME NEW text \in Text, NEW k \in Nat, 1 <= k, k <= TokenCount(text)
  PROVE  Nth(k, Ends(text)) \in 1..Len(text)
<1>1. /\ Len(text) \in Nat /\ Ends(text) \subseteq 0..Len(text)
      /\ Ends(text) \subseteq 1..Len(text)
      /\ TokenCount(text) \in Nat /\ Cardinality(Ends(text)) = TokenCount(text)
  BY TokenOffsets
<1>2. k \in 1..Cardinality(Ends(text))
  BY <1>1
<1>3. Nth(k, Ends(text)) \in Ends(text)
  BY <1>1, <1>2, NthExists
<1> QED
  BY <1>1, <1>3

LEMMA PrefixRange ==
  ASSUME NEW text \in Text, NEW k \in Nat \ {0}
  PROVE  /\ PrefixThroughTokens(text, k) \in 0..Len(text)
         /\ text # <<>> => PrefixThroughTokens(text, k) >= 1
<1>1. Len(text) \in Nat /\ TokenCount(text) \in Nat
  BY TokenOffsets
<1>2. text # <<>> => Len(text) >= 1
  BY <1>1 DEF Text
<1>3. CASE TokenCount(text) <= k
  BY <1>1, <1>2, <1>3 DEF PrefixThroughTokens
<1>4. CASE ~(TokenCount(text) <= k)
  <2>1. Nth(k, Ends(text)) \in 1..Len(text)
    BY <1>1, <1>4, NthEnd
  <2> QED BY <2>1, <1>1, <1>4 DEF PrefixThroughTokens
<1> QED
  BY <1>3, <1>4

LEMMA LastTokensRange ==
  ASSUME NEW text \in Text, NEW k \in Nat \ {0}
  PROVE  LastTokens(text, k) \in 0..Len(text)
<1>1. Len(text) \in Nat /\ TokenCount(text) \in Nat /\ Begins(text) \subseteq 0..Len(text)
  BY TokenOffsets
<1>2. CASE TokenCount(text) <= k
  BY <1>1, <1>2 DEF LastTokens
<1>3. CASE ~(TokenCount(text) <= k)
  <2>1. TokenCount(text) - k + 1 \in 1..TokenCount(text)
    BY <1>1, <1>3
  <2>2. TokenCount(text) - k + 1 \in 1..Cardinality(Begins(text))
    BY <2>1 DEF TokenCount
  <2>3. Nth(TokenCount(text) - k + 1, Begins(text)) \in Begins(text)
    BY <1>1, <2>2, NthExists
  <2> QED BY <2>3, <1>1, <1>3 DEF LastTokens
<1> QED
  BY <1>2, <1>3

\* No two continuation bytes are neighbours: true of well-formed texts and their parts.
Paired(text) ==
  \A n \in DOMAIN text : n + 1 \in DOMAIN text => ~ (Continuation(text[n]) /\ Continuation(text[n + 1]))

LEMMA HypothesisPaired ==
  ASSUME NEW text \in Hypotheses
  PROVE  text \in Text /\ Paired(text)
<1>0. text \in Seq(STRING) /\ WellFormed(text)
  BY TranscriptAssumption
<1>1. text \in Seq(Byte) /\ WellFormed(text)
  <2>1. ASSUME NEW S, NEW B, S \subseteq B, NEW s \in Seq(S) PROVE s \in Seq(B)
    <3>1. Len(s) \in Nat /\ s \in [1..Len(s) -> S]
      OBVIOUS
    <3>2. s \in [1..Len(s) -> B]
      BY <3>1, <2>1
    <3> QED BY <3>1, <3>2, SeqDef
  <2>2. STRING \subseteq Byte
    BY DEF Byte
  <2>3. text \in Seq(Byte)
    BY <1>0, <2>1, <2>2
  <2> QED BY <2>3, <1>0
<1>2. ASSUME NEW n \in DOMAIN text, n + 1 \in DOMAIN text,
             Continuation(text[n]), Continuation(text[n + 1])
      PROVE  FALSE
  <2>1. (n + 1) - 1 = n
    BY <1>1
  <2>2. text[n] = "<"
    BY <1>1, <1>2, <2>1 DEF WellFormed
  <2> QED BY <2>2, <1>2 DEF Continuation
<1> QED
  BY <1>1, <1>2 DEF Text, Paired

LEMMA PartPaired ==
  ASSUME NEW text \in Text, Paired(text), NEW m \in Nat, 1 <= m, NEW n \in 0..Len(text)
  PROVE  SubSeq(text, m, n) \in Text /\ Paired(SubSeq(text, m, n))
<1> DEFINE part == SubSeq(text, m, n)
<1>1. Len(text) \in Nat /\ \A i \in 1..Len(text) : text[i] \in Byte
  BY DEF Text
<1>2. /\ part \in Seq(Byte)
      /\ Len(part) = IF m <= n THEN n - m + 1 ELSE 0
      /\ \A i \in 1..n - m + 1 : part[i] = text[m + i - 1]
  BY <1>1, SubSeqProperties
<1> HIDE DEF part
<1>3. ASSUME NEW i \in DOMAIN part, i + 1 \in DOMAIN part
      PROVE  ~ (Continuation(part[i]) /\ Continuation(part[i + 1]))
  <2>1. i \in 1..n - m + 1 /\ i + 1 \in 1..n - m + 1
    BY <1>2, <1>3
  <2>2. part[i] = text[m + i - 1] /\ part[i + 1] = text[m + i]
    BY <1>2, <2>1, SMTT(30)
  <2>3. m + i - 1 \in 1..Len(text) /\ m + i \in 1..Len(text) /\ (m + i - 1) + 1 = m + i
    BY <2>1, <1>1
  <2>4. DOMAIN text = 1..Len(text)
    BY DEF Text
  <2> QED BY <2>2, <2>3, <2>4 DEF Paired
<1> QED
  BY <1>2, <1>3 DEF part, Paired, Text

LEMMA SafeCutRange ==
  ASSUME NEW text \in Text, NEW n \in Nat, n <= Len(text)
  PROVE  /\ SafeCut(text, n) \in 0..n
         /\ Paired(text) /\ n >= 1 /\ (n >= 2 \/ n = Len(text)) => SafeCut(text, n) >= 1
<1> DEFINE S == {m \in 0..n : Whole(text, m)}
<1>1. 0 \in S
  BY DEF Whole
<1>2. S \subseteq 0..n
  OBVIOUS
<1>3. GreatestOf(S) \in S /\ \A y \in S : GreatestOf(S) >= y
  BY <1>1, <1>2, GreatestIsGreatest
<1>4. SafeCut(text, n) = GreatestOf(S)
  BY DEF SafeCut
<1>5. Len(text) \in Nat /\ DOMAIN text = 1..Len(text)
  BY DEF Text
<1>6. ASSUME Paired(text), n >= 1, n >= 2 \/ n = Len(text)
      PROVE  \E y \in S : y >= 1
  <2>1. CASE n = Len(text)
    <3>1. n \in S
      BY <2>1 DEF Whole
    <3> QED BY <3>1, <1>6
  <2>2. CASE n # Len(text) /\ n >= 2
    <3> DEFINE L == Len(text)
    <3>0. L \in Nat /\ n <= L /\ n # L /\ n >= 2 /\ DOMAIN text = 1..L
      BY <2>2, <1>5
    <3> HIDE DEF L
    <3>1. 2 \in DOMAIN text /\ 2 + 1 \in DOMAIN text
      BY <3>0
    <3>2. ~Continuation(text[2]) \/ ~Continuation(text[2 + 1])
      BY <3>1, <1>6 DEF Paired
    <3>3. Whole(text, 1) \/ Whole(text, 2)
      BY <3>2 DEF Whole
    <3>4. 1 \in S \/ 2 \in S
      BY <3>3, <2>2
    <3> QED BY <3>4
  <2> QED BY <1>6, <2>1, <2>2
<1> HIDE DEF S
<1>7. SafeCut(text, n) \in 0..n
  BY <1>2, <1>3, <1>4
<1> QED
  BY <1>2, <1>3, <1>4, <1>6, <1>7

LEMMA ChunkSizeRange ==
  ASSUME NEW rest \in Text
  PROVE  /\ ChunkSize(rest) \in 0..Len(rest)
         /\ Paired(rest) /\ rest # <<>> => ChunkSize(rest) >= 1
<1> DEFINE p == PrefixThroughTokens(rest, RequestTokens)
           n == IF Len(rest) < MaxNewBytes THEN Len(rest) ELSE MaxNewBytes
           q == SafeCut(rest, n)
<1>1. Len(rest) \in Nat /\ (rest # <<>> => Len(rest) >= 1)
  BY DEF Text
<1>2. p \in 0..Len(rest) /\ (rest # <<>> => p >= 1)
  BY PrefixRange, TranscriptAssumption
<1>3. n \in Nat /\ n <= Len(rest) /\ (rest # <<>> => n >= 1 /\ (n >= 2 \/ n = Len(rest)))
  BY <1>1, TranscriptAssumption
<1> HIDE DEF n, p
<1>4. q \in 0..n /\ (Paired(rest) /\ rest # <<>> => q >= 1)
  BY <1>3, SafeCutRange
<1>5. ChunkSize(rest) = LeastOf({p, q})
  BY DEF ChunkSize, Utf8SafePrefixBytes, n, p
<1> HIDE DEF q
<1>6. {p, q} \subseteq Nat /\ {p, q} # {}
  BY <1>1, <1>2, <1>3, <1>4
<1>7. LeastOf({p, q}) \in {p, q}
  BY <1>6, LeastIsLeast
<1>8. ChunkSize(rest) = p \/ ChunkSize(rest) = q
  BY <1>5, <1>7
<1>9. q \in 0..Len(rest)
  BY <1>1, <1>3, <1>4
<1> QED
  BY <1>2, <1>4, <1>8, <1>9

LEMMA SuffixStartRange ==
  ASSUME NEW text \in Text, NEW limit \in Nat
  PROVE  Utf8SafeSuffixStart(text, limit) \in 0..Len(text)
<1>1. Len(text) \in Nat
  BY DEF Text
<1>2. CASE Len(text) <= limit
  BY <1>1, <1>2 DEF Utf8SafeSuffixStart
<1>3. CASE ~(Len(text) <= limit)
  <2> DEFINE S == {m \in Len(text) - limit..Len(text) :
                     m = Len(text) \/ ~Continuation(text[m + 1])}
  <2>1. S \subseteq Nat /\ S \subseteq 0..Len(text) /\ Len(text) \in S
    BY <1>1, <1>3
  <2>2. Utf8SafeSuffixStart(text, limit) = LeastOf(S)
    BY <1>3 DEF Utf8SafeSuffixStart
  <2> HIDE DEF S
  <2>3. LeastOf(S) \in S
    BY <2>1, LeastIsLeast
  <2> QED BY <2>1, <2>2, <2>3
<1> QED
  BY <1>2, <1>3

LEMMA SentencesRange ==
  ASSUME NEW text \in Text
  PROVE  LastTwoSentences(text) \in 0..Len(text)
<1> DEFINE S == SentenceStarts(text)
<1>1. Len(text) \in Nat
  BY DEF Text
<1>2. S \subseteq 0..Len(text)
  BY <1>1 DEF SentenceStarts
<1>3. Cardinality(S) \in Nat
  BY <1>1, <1>2, OffsetsFinite
<1> HIDE DEF S
<1>4. CASE Cardinality(S) < 2
  BY <1>1, <1>4 DEF LastTwoSentences, S
<1>5. CASE ~(Cardinality(S) < 2)
  <2>1. Cardinality(S) - 1 \in 1..Cardinality(S)
    BY <1>3, <1>5
  <2>2. Nth(Cardinality(S) - 1, S) \in S
    BY <1>1, <1>2, <2>1, NthExists
  <2>3. LastTwoSentences(text) = Nth(Cardinality(S) - 1, S)
    BY <1>5 DEF LastTwoSentences, S
  <2> QED BY <1>2, <2>2, <2>3
<1> QED
  BY <1>4, <1>5

LEMMA EditableStartRange ==
  ASSUME NEW text \in Text
  PROVE  EditableSuffixStart(text, EditableTokens) \in 0..Len(text)
<1> DEFINE a == LastTokens(text, EditableTokens)
           b == LastTwoSentences(text)
           c == Utf8SafeSuffixStart(text, MaxEditableBytes)
           start == GreatestOf({a, b, c})
           feeds == {n \in 0..start : n < Len(text) /\ text[n + 1] = "|"}
           blanks == {n \in feeds : n + 1 < Len(text) /\ text[n + 2] = "|"}
<1>1. Len(text) \in Nat
  BY DEF Text
<1>2. a \in 0..Len(text) /\ b \in 0..Len(text) /\ c \in 0..Len(text)
  BY LastTokensRange, SentencesRange, SuffixStartRange, TranscriptAssumption
<1> HIDE DEF a, b, c
<1>3. start \in 0..Len(text)
  <2>1. {a, b, c} \subseteq 0..Len(text) /\ {a, b, c} # {}
    BY <1>2
  <2>2. GreatestOf({a, b, c}) \in {a, b, c}
    BY <1>1, <2>1, GreatestIsGreatest
  <2> QED BY <2>1, <2>2
<1> HIDE DEF start
<1>4. feeds \subseteq 0..Len(text) /\ \A n \in feeds : n < Len(text)
  BY <1>1, <1>3
<1>5. blanks \subseteq 0..Len(text) /\ \A n \in blanks : n + 1 < Len(text)
  BY <1>4
<1> HIDE DEF feeds, blanks
<1>6. feeds # {} => GreatestOf(feeds) + 1 \in 0..Len(text)
  <2> SUFFICES ASSUME feeds # {} PROVE GreatestOf(feeds) + 1 \in 0..Len(text)
    OBVIOUS
  <2> DEFINE g == GreatestOf(feeds)
  <2>1. g \in feeds
    BY <1>1, <1>4, GreatestIsGreatest
  <2> HIDE DEF g
  <2>2. g + 1 \in 0..Len(text)
    BY <1>1, <1>4, <2>1
  <2> QED BY <2>2 DEF g
<1>7. blanks # {} => GreatestOf(blanks) + 2 \in 0..Len(text)
  <2> SUFFICES ASSUME blanks # {} PROVE GreatestOf(blanks) + 2 \in 0..Len(text)
    OBVIOUS
  <2> DEFINE g == GreatestOf(blanks)
  <2>1. g \in blanks
    BY <1>1, <1>5, GreatestIsGreatest
  <2> HIDE DEF g
  <2>2. g + 2 \in 0..Len(text)
    BY <1>1, <1>5, <2>1
  <2> QED BY <2>2 DEF g
<1>8. EditableSuffixStart(text, EditableTokens) =
        IF start = 0 THEN 0
        ELSE IF blanks # {} /\ start - GreatestOf(blanks) < BlankReach
        THEN GreatestOf(blanks) + 2
        ELSE IF feeds # {} /\ start - GreatestOf(feeds) < LineReach
        THEN GreatestOf(feeds) + 1
        ELSE start
  BY DEF EditableSuffixStart, start, feeds, blanks, a, b, c
<1> QED
  BY <1>1, <1>3, <1>6, <1>7, <1>8

-----------------------------------------------------------------------------
(* The letters of a text *)

Letter(b) == IF Space(b) THEN <<>> ELSE <<b>>

LEMMA TextConcat ==
  /\ <<>> \in Text
  /\ \A s, t \in Text : s \o t \in Text
  /\ \A s \in Text : s \o <<>> = s /\ <<>> \o s = s
  /\ \A s, t, u \in Text : (s \o t) \o u = s \o (t \o u)
<1>1. \A s, t \in Seq(Byte) : s \o t \in Seq(Byte)
  BY ConcatProperties
<1>2. \A s \in Seq(Byte) : s \o <<>> = s /\ <<>> \o s = s
  BY ConcatEmptySeq
<1>3. \A s, t, u \in Seq(Byte) : (s \o t) \o u = s \o (t \o u)
  BY ConcatAssociative
<1>4. <<>> \in Seq(Byte)
  OBVIOUS
<1> QED
  BY <1>1, <1>2, <1>3, <1>4 DEF Text

LEMMA LetterType == \A b \in Byte : Letter(b) \in Text /\ <<b>> \in Text
<1> TAKE b \in Byte
<1>1. <<b>> \in Text
  <2>1. ASSUME NEW T, NEW x \in T PROVE <<x>> \in Seq(T)
    OBVIOUS
  <2> QED BY <2>1, Zenon DEF Text
<1> QED
  BY <1>1, TextConcat DEF Letter

\* The recursion of Letters, a letter at a time.
Reads(f, text) ==
  /\ f \in [0..Len(text) -> Text]
  /\ f[0] = <<>>
  /\ \A k \in 1..Len(text) : f[k] = f[k - 1] \o Letter(text[k])

LEMMA LettersReads ==
  ASSUME NEW text \in Text
  PROVE  \E f : Reads(f, text) /\ Letters(text) = f[Len(text)]
<1> DEFINE n == Len(text)
           T == Text
           step == [p \in T \X (1..n) |-> p[1] \o Letter(text[p[2]])]
           letters == CHOOSE f : f = [k \in 0..n |-> IF k = 0 THEN <<>>
                        ELSE f[k - 1] \o (IF Space(text[k]) THEN <<>> ELSE <<text[k]>>)]
<1>1. n \in Nat /\ \A k \in 1..n : text[k] \in Byte
  BY DEF Text
<1> HIDE DEF n
<1>2. ASSUME NEW t \in T, NEW k \in 1..n PROVE t \o Letter(text[k]) \in T
  BY <1>1, LetterType, TextConcat
<1> HIDE DEF T
<1>3. step \in Steps(T, n)
  BY <1>2 DEF Steps
<1>4. \A t \in T, k \in 1..n : step[<<t, k>>] = t \o Letter(text[k])
  OBVIOUS
<1> HIDE DEF step
<1>5. <<>> \in T
  BY TextConcat DEF T
<1>6. PICK f : Unfolds(f, T, <<>>, n, step)
  BY <1>1, <1>3, <1>5, RecursionExists
<1>7. f \in [0..n -> T] /\ f[0] = <<>>
  BY <1>6 DEF Unfolds
<1>8. ASSUME NEW k \in 1..n PROVE f[k] = f[k - 1] \o Letter(text[k])
  <2>1. k - 1 \in 0..n
    BY <1>1
  <2>2. f[k - 1] \in T
    BY <2>1, <1>7
  <2>3. f[k] = step[<<f[k - 1], k>>]
    BY <1>6 DEF Unfolds
  <2> QED BY <2>2, <2>3, <1>4
<1>9. ASSUME NEW k \in 0..n
      PROVE  f[k] = IF k = 0 THEN <<>>
                    ELSE f[k - 1] \o (IF Space(text[k]) THEN <<>> ELSE <<text[k]>>)
  <2>1. CASE k = 0
    BY <2>1, <1>7
  <2>2. CASE k # 0
    <3>1. k \in 1..n
      BY <2>2, <1>1
    <3> QED BY <3>1, <2>2, <1>8 DEF Letter
  <2> QED BY <2>1, <2>2
<1>10. f = [k \in 0..n |-> IF k = 0 THEN <<>>
              ELSE f[k - 1] \o (IF Space(text[k]) THEN <<>> ELSE <<text[k]>>)]
  BY <1>7, <1>9
<1>11. letters = [k \in 0..n |-> IF k = 0 THEN <<>>
              ELSE letters[k - 1] \o (IF Space(text[k]) THEN <<>> ELSE <<text[k]>>)]
  BY <1>10
<1> HIDE DEF letters
<1>12. letters[0] = <<>>
  BY <1>11, <1>1
<1>13. ASSUME NEW k \in 1..n PROVE letters[k] = letters[k - 1] \o Letter(text[k])
  <2>1. k \in 0..n /\ k # 0
    BY <1>1
  <2> QED BY <2>1, <1>11 DEF Letter
<1> DEFINE S == {k \in Nat : k <= n => letters[k] = f[k]}
<1>14. 0 \in S
  BY <1>12, <1>7
<1>15. ASSUME NEW k \in Nat, k \in S PROVE k + 1 \in S
  <2> SUFFICES ASSUME k + 1 <= n PROVE letters[k + 1] = f[k + 1]
    OBVIOUS
  <2>1. k + 1 \in 1..n /\ (k + 1) - 1 = k
    BY <1>1
  <2>2. letters[k] = f[k]
    BY <1>15, <1>1
  <2>3. letters[k + 1] = letters[k] \o Letter(text[k + 1])
    BY <2>1, <1>13
  <2>4. f[k + 1] = f[k] \o Letter(text[k + 1])
    BY <2>1, <1>8
  <2> QED BY <2>2, <2>3, <2>4
<1> HIDE DEF S
<1>16. n \in S
  BY <1>1, <1>14, <1>15, SetInduction
<1>17. letters[n] = f[n]
  BY <1>16, <1>1 DEF S
<1>18. Letters(text) = letters[n]
  BY DEF Letters, letters, n
<1> QED
  BY <1>7, <1>8, <1>17, <1>18 DEF Reads, n, T

\* What was read before a place depends on the text before it only.
LEMMA ReadsAgree ==
  ASSUME NEW s \in Text, NEW t \in Text, NEW f, NEW g, Reads(f, s), Reads(g, t),
         NEW n \in Nat, n <= Len(s), n <= Len(t), \A k \in 1..n : s[k] = t[k]
  PROVE  f[n] = g[n]
<1>1. Len(s) \in Nat /\ Len(t) \in Nat
  BY DEF Text
<1> DEFINE S == {k \in Nat : k <= n => f[k] = g[k]}
<1>2. 0 \in S
  BY DEF Reads
<1>3. ASSUME NEW k \in Nat, k \in S PROVE k + 1 \in S
  <2> SUFFICES ASSUME k + 1 <= n PROVE f[k + 1] = g[k + 1]
    OBVIOUS
  <2>1. k + 1 \in 1..n /\ k + 1 \in 1..Len(s) /\ k + 1 \in 1..Len(t) /\ (k + 1) - 1 = k
    BY <1>1
  <2>2. f[k] = g[k]
    BY <1>3
  <2>3. f[k + 1] = f[k] \o Letter(s[k + 1]) /\ g[k + 1] = g[k] \o Letter(t[k + 1])
    BY <2>1 DEF Reads
  <2> QED BY <2>1, <2>2, <2>3
<1> HIDE DEF S
<1>4. n \in S
  BY <1>2, <1>3, SetInduction
<1> QED
  BY <1>4 DEF S

LEMMA LettersEmpty == Letters(<<>>) = <<>>
<1>1. <<>> \in Text /\ Len(<<>>) = 0
  BY TextConcat
<1>2. PICK f : Reads(f, <<>>) /\ Letters(<<>>) = f[Len(<<>>)]
  BY <1>1, LettersReads
<1> QED
  BY <1>1, <1>2 DEF Reads

LEMMA LettersType ==
  ASSUME NEW text \in Text
  PROVE  Letters(text) \in Text
<1>1. PICK f : Reads(f, text) /\ Letters(text) = f[Len(text)]
  BY LettersReads
<1>2. Len(text) \in Nat /\ Len(text) \in 0..Len(text)
  BY DEF Text
<1> QED
  BY <1>1, <1>2 DEF Reads

\* A text with one byte more.
LEMMA OneMore ==
  ASSUME NEW text \in Text, NEW one \in Text, Len(one) = 1
  PROVE  /\ text \o one \in Text /\ Len(text) \in Nat /\ Len(text \o one) = Len(text) + 1
         /\ (text \o one)[Len(text) + 1] = one[1]
         /\ \A k \in 1..Len(text) : (text \o one)[k] = text[k]
<1> DEFINE longer == text \o one
           n == Len(text)
<1>1. /\ longer \in Seq(Byte)
      /\ Len(longer) = n + Len(one)
      /\ \A i \in 1..n + Len(one) : longer[i] = IF i <= n THEN text[i] ELSE one[i - n]
  BY ConcatProperties DEF Text
<1>2. n \in Nat
  BY DEF Text
<1> HIDE DEF longer, n
<1>3. Len(longer) = n + 1
  BY <1>1
<1>4. \A i \in 1..n + 1 : longer[i] = IF i <= n THEN text[i] ELSE one[i - n]
  BY <1>1
<1>5. \A k \in 1..n : longer[k] = text[k]
  BY <1>2, <1>4
<1>6. longer[n + 1] = one[1]
  <2>1. n + 1 \in 1..n + 1 /\ ~ (n + 1 <= n) /\ (n + 1) - n = 1
    BY <1>2
  <2>2. longer[n + 1] = one[(n + 1) - n]
    BY <2>1, <1>4
  <2> QED BY <2>1, <2>2
<1> QED
  BY <1>1, <1>2, <1>3, <1>5, <1>6 DEF longer, n, Text

LEMMA LettersAppend ==
  ASSUME NEW text \in Text, NEW b \in Byte
  PROVE  Letters(text \o <<b>>) = Letters(text) \o Letter(b)
<1> DEFINE one == <<b>>
           longer == text \o one
           n == Len(text)
<1>0. one \in Text /\ Len(one) = 1 /\ one[1] = b
  BY LetterType
<1> HIDE DEF one
<1>1. n \in Nat /\ longer \in Text /\ Len(longer) = n + 1
  BY <1>0, OneMore
<1>2. longer[n + 1] = b /\ \A k \in 1..n : longer[k] = text[k]
  BY <1>0, OneMore
<1> HIDE DEF longer
<1>3. PICK f : Reads(f, text) /\ Letters(text) = f[n]
  BY LettersReads
<1> HIDE DEF n
<1>4. PICK g : Reads(g, longer) /\ Letters(longer) = g[n + 1]
  BY <1>1, LettersReads
<1>5. g[n] = f[n]
  BY <1>1, <1>2, <1>3, <1>4, ReadsAgree DEF n
<1>6. g[n + 1] = g[n] \o Letter(longer[n + 1])
  <2>1. n + 1 \in 1..Len(longer) /\ (n + 1) - 1 = n
    BY <1>1
  <2> QED BY <2>1, <1>4 DEF Reads
<1> QED
  BY <1>2, <1>3, <1>4, <1>5, <1>6 DEF longer, one

LEMMA LettersConcat ==
  ASSUME NEW s \in Text, NEW t \in Text
  PROVE  Letters(s \o t) = Letters(s) \o Letters(t)
<1> DEFINE part(n) == SubSeq(t, 1, n)
           S == {n \in Nat : n <= Len(t) => Letters(s \o part(n)) = Letters(s) \o Letters(part(n))}
<1>1. Len(t) \in Nat
  BY DEF Text
<1>2. part(0) = <<>>
  BY SubSeqEmpty
<1>3. part(Len(t)) = t
  BY SubSeqFull DEF Text
<1>4. ASSUME NEW n \in Nat, n + 1 <= Len(t)
      PROVE  part(n) \in Text /\ t[n + 1] \in Byte /\ part(n + 1) = part(n) \o <<t[n + 1]>>
  <2>1. t \in Seq(Byte) /\ 1 \in 1..Len(t) /\ n + 1 \in 1..Len(t) /\ (n + 1) - 1 = n
    BY <1>1, <1>4 DEF Text
  <2>2. SubSeq(t, 1, n + 1) = SubSeq(t, 1, (n + 1) - 1) \o << t[n + 1] >>
    BY <2>1, SubSeqRecursiveSecond
  <2>3. \A i \in 1..n : t[i] \in Byte
    BY <2>1, <1>4
  <2>4. part(n) \in Seq(Byte)
    BY <2>3, SubSeqProperties
  <2> QED BY <2>1, <2>2, <2>4 DEF Text
<1> HIDE DEF part
<1>5. 0 \in S
  <2>1. s \o part(0) = s /\ Letters(part(0)) = <<>>
    BY <1>2, LettersEmpty, TextConcat
  <2>2. Letters(s) \o <<>> = Letters(s)
    BY LettersType, TextConcat
  <2> QED BY <2>1, <2>2
<1>6. ASSUME NEW n \in Nat, n \in S PROVE n + 1 \in S
  <2> SUFFICES ASSUME n + 1 <= Len(t)
               PROVE  Letters(s \o part(n + 1)) = Letters(s) \o Letters(part(n + 1))
    OBVIOUS
  <2> DEFINE p == part(n)
             b == t[n + 1]
  <2>1. p \in Text /\ b \in Byte /\ part(n + 1) = p \o <<b>>
    BY <1>4
  <2>2. Letters(s \o p) = Letters(s) \o Letters(p)
    BY <1>6, <1>1
  <2> HIDE DEF p, b
  <2>3. s \o (p \o <<b>>) = (s \o p) \o <<b>> /\ s \o p \in Text
    BY <2>1, TextConcat, LetterType
  <2>4. Letters((s \o p) \o <<b>>) = (Letters(s) \o Letters(p)) \o Letter(b)
    BY <2>1, <2>2, <2>3, LettersAppend
  <2>5. Letters(p \o <<b>>) = Letters(p) \o Letter(b)
    BY <2>1, LettersAppend
  <2>6. (Letters(s) \o Letters(p)) \o Letter(b) = Letters(s) \o (Letters(p) \o Letter(b))
    <3>1. Letters(s) \in Text /\ Letters(p) \in Text /\ Letter(b) \in Text
      BY <2>1, LettersType, LetterType
    <3> QED BY <3>1, TextConcat, Zenon
  <2> QED BY <2>1, <2>3, <2>4, <2>5, <2>6
<1> HIDE DEF S
<1>7. Len(t) \in S
  BY <1>1, <1>5, <1>6, SetInduction
<1> QED
  BY <1>3, <1>7, <1>1 DEF S

LEMMA LettersAppendText ==
  ASSUME NEW s \in Text, NEW t \in Text
  PROVE  AppendText(s, t) \in Text /\ Letters(AppendText(s, t)) = Letters(s) \o Letters(t)
<1> DEFINE gap == <<"_">>
<1>0. "_" \in Byte
  BY DEF Byte
<1>1. gap \in Text /\ "_" \in Byte /\ Letter("_") = <<>>
  <2>1. Space("_")
    BY DEF Space
  <2>2. Letter("_") = <<>>
    BY <2>1 DEF Letter
  <2> QED BY <2>2, <1>0, LetterType
<1>2. AppendText(s, t) = s \o t \/ AppendText(s, t) = (s \o gap) \o t
  BY DEF AppendText
<1>3. CASE AppendText(s, t) = s \o t
  <2>1. s \o t \in Text /\ Letters(s \o t) = Letters(s) \o Letters(t)
    BY TextConcat, LettersConcat
  <2> QED BY <2>1, <1>3
<1>4. CASE AppendText(s, t) = (s \o gap) \o t
  <2>1. Letters(s \o gap) = Letters(s) \o Letter("_")
    BY <1>1, LettersAppend
  <2>2. Letters(s \o gap) = Letters(s)
    BY <2>1, <1>1, LettersType, TextConcat
  <2> HIDE DEF gap
  <2>3. s \o gap \in Text
    BY <1>1, TextConcat
  <2>4. (s \o gap) \o t \in Text /\ Letters((s \o gap) \o t) = Letters(s \o gap) \o Letters(t)
    BY <2>3, TextConcat, LettersConcat
  <2> QED BY <2>2, <2>4, <1>4
<1> QED
  BY <1>2, <1>3, <1>4

-----------------------------------------------------------------------------
(* The joined text of spans *)

Spans == Seq([id : Int, text : Text])

LEMMA SpanTypes ==
  ASSUME NEW spans \in Spans
  PROVE  /\ Len(spans) \in Nat
         /\ DOMAIN spans = 1..Len(spans)
         /\ \A k \in 1..Len(spans) : spans[k].id \in Int /\ spans[k].text \in Text
<1> DEFINE Span == [id : Int, text : Text]
<1>1. ASSUME NEW T, NEW s \in Seq(T)
      PROVE  Len(s) \in Nat /\ DOMAIN s = 1..Len(s) /\ \A k \in 1..Len(s) : s[k] \in T
  OBVIOUS
<1>2. \A x \in Span : x.id \in Int /\ x.text \in Text
  OBVIOUS
<1>3. spans \in Seq(Span)
  BY DEF Spans
<1> HIDE DEF Span
<1>4. Len(spans) \in Nat /\ DOMAIN spans = 1..Len(spans) /\ \A k \in 1..Len(spans) : spans[k] \in Span
  BY <1>1, <1>3, Zenon
<1> QED
  BY <1>2, <1>4

\* The recursion of Joined, a span at a time.
Joins(f, spans) ==
  /\ f \in [0..Len(spans) -> Text]
  /\ f[0] = <<>>
  /\ \A k \in 1..Len(spans) : f[k] = AppendText(f[k - 1], spans[k].text)

LEMMA JoinedJoins ==
  ASSUME NEW spans \in Spans
  PROVE  \E f : Joins(f, spans) /\ Joined(spans) = f[Len(spans)]
<1> DEFINE n == Len(spans)
           T == Text
           step == [p \in T \X (1..n) |-> AppendText(p[1], spans[p[2]].text)]
           joined == CHOOSE f : f = [k \in 0..n |-> IF k = 0 THEN <<>>
                        ELSE AppendText(f[k - 1], spans[k].text)]
<1>1. n \in Nat /\ \A k \in 1..n : spans[k].text \in Text
  BY SpanTypes
<1> HIDE DEF n
<1>2. ASSUME NEW t \in T, NEW k \in 1..n PROVE AppendText(t, spans[k].text) \in T
  BY <1>1, LettersAppendText
<1>5. <<>> \in T
  BY TextConcat
<1> HIDE DEF T
<1>3. step \in Steps(T, n)
  BY <1>2 DEF Steps
<1>4. \A t \in T, k \in 1..n : step[<<t, k>>] = AppendText(t, spans[k].text)
  OBVIOUS
<1> HIDE DEF step
<1>6. PICK f : Unfolds(f, T, <<>>, n, step)
  BY <1>1, <1>3, <1>5, RecursionExists
<1>7. f \in [0..n -> T] /\ f[0] = <<>>
  BY <1>6 DEF Unfolds
<1>8. ASSUME NEW k \in 1..n PROVE f[k] = AppendText(f[k - 1], spans[k].text)
  <2>1. k - 1 \in 0..n
    BY <1>1
  <2>2. f[k - 1] \in T
    BY <2>1, <1>7
  <2>3. f[k] = step[<<f[k - 1], k>>]
    BY <1>6 DEF Unfolds
  <2> QED BY <2>2, <2>3, <1>4
<1>9. ASSUME NEW k \in 0..n
      PROVE  f[k] = IF k = 0 THEN <<>> ELSE AppendText(f[k - 1], spans[k].text)
  <2>1. CASE k = 0
    BY <2>1, <1>7
  <2>2. CASE k # 0
    <3>1. k \in 1..n
      BY <2>2, <1>1
    <3> QED BY <3>1, <2>2, <1>8
  <2> QED BY <2>1, <2>2
<1>10. f = [k \in 0..n |-> IF k = 0 THEN <<>> ELSE AppendText(f[k - 1], spans[k].text)]
  BY <1>7, <1>9
<1>11. joined = [k \in 0..n |-> IF k = 0 THEN <<>> ELSE AppendText(joined[k - 1], spans[k].text)]
  BY <1>10
<1> HIDE DEF joined
<1>12. joined[0] = <<>>
  BY <1>11, <1>1
<1>13. ASSUME NEW k \in 1..n PROVE joined[k] = AppendText(joined[k - 1], spans[k].text)
  <2>1. k \in 0..n /\ k # 0
    BY <1>1
  <2> QED BY <2>1, <1>11
<1> DEFINE S == {k \in Nat : k <= n => joined[k] = f[k]}
<1>14. 0 \in S
  BY <1>12, <1>7
<1>15. ASSUME NEW k \in Nat, k \in S PROVE k + 1 \in S
  <2> SUFFICES ASSUME k + 1 <= n PROVE joined[k + 1] = f[k + 1]
    OBVIOUS
  <2>1. k + 1 \in 1..n /\ (k + 1) - 1 = k
    BY <1>1
  <2>2. joined[k] = f[k]
    BY <1>15, <1>1
  <2>3. joined[k + 1] = AppendText(joined[k], spans[k + 1].text)
    BY <2>1, <1>13
  <2>4. f[k + 1] = AppendText(f[k], spans[k + 1].text)
    BY <2>1, <1>8
  <2> QED BY <2>2, <2>3, <2>4
<1> HIDE DEF S
<1>16. n \in S
  BY <1>1, <1>14, <1>15, SetInduction
<1>17. joined[n] = f[n]
  BY <1>16, <1>1 DEF S
<1>18. Joined(spans) = joined[n]
  BY DEF Joined, joined, n
<1> QED
  BY <1>7, <1>8, <1>17, <1>18 DEF Joins, n, T

LEMMA JoinedType ==
  ASSUME NEW spans \in Spans
  PROVE  Joined(spans) \in Text
<1>1. PICK f : Joins(f, spans) /\ Joined(spans) = f[Len(spans)]
  BY JoinedJoins
<1>2. Len(spans) \in Nat /\ Len(spans) \in 0..Len(spans)
  BY DEF Spans
<1> QED
  BY <1>1, <1>2 DEF Joins

LEMMA JoinedEmpty == Joined(<<>>) = <<>>
<1>1. <<>> \in Spans /\ Len(<<>>) = 0
  BY DEF Spans
<1>2. PICK f : Joins(f, <<>>) /\ Joined(<<>>) = f[Len(<<>>)]
  BY <1>1, JoinedJoins
<1> QED
  BY <1>1, <1>2 DEF Joins

\* More spans add their letters to those of the spans before.
LEMMA JoinedConcat ==
  ASSUME NEW b \in Spans, NEW c \in Spans
  PROVE  /\ b \o c \in Spans
         /\ Letters(Joined(b \o c)) = Letters(Joined(b)) \o Letters(Joined(c))
<1> DEFINE both == b \o c
           m == Len(b)
           n == Len(c)
<1>1. /\ both \in Spans
      /\ Len(both) = m + n
      /\ \A i \in 1..m + n : both[i] = IF i <= m THEN b[i] ELSE c[i - m]
  BY ConcatProperties DEF Spans
<1>2. m \in Nat /\ n \in Nat /\ \A k \in 1..n : c[k].text \in Text
  BY SpanTypes
<1> HIDE DEF both
<1>3. PICK f : Joins(f, b) /\ Joined(b) = f[Len(b)]
  BY JoinedJoins
<1>4. PICK g : Joins(g, c) /\ Joined(c) = g[Len(c)]
  BY JoinedJoins
<1>5. PICK h : Joins(h, both) /\ Joined(both) = h[Len(both)]
  BY <1>1, JoinedJoins
<1>6. /\ f \in [0..m -> Text] /\ f[0] = <<>>
      /\ \A k \in 1..m : f[k] = AppendText(f[k - 1], b[k].text)
  BY <1>3 DEF Joins
<1>7. /\ g \in [0..n -> Text] /\ g[0] = <<>>
      /\ \A k \in 1..n : g[k] = AppendText(g[k - 1], c[k].text)
  BY <1>4 DEF Joins
<1>8. /\ h \in [0..m + n -> Text] /\ h[0] = <<>>
      /\ \A k \in 1..m + n : h[k] = AppendText(h[k - 1], both[k].text)
  BY <1>5, <1>1 DEF Joins
<1>9. Joined(b) = f[m] /\ Joined(c) = g[n] /\ Joined(both) = h[m + n]
  BY <1>1, <1>3, <1>4, <1>5
<1> HIDE DEF m, n
<1> DEFINE S == {k \in Nat : k <= m => h[k] = f[k]}
<1>10. 0 \in S
  BY <1>6, <1>8
<1>11. ASSUME NEW k \in Nat, k \in S PROVE k + 1 \in S
  <2> SUFFICES ASSUME k + 1 <= m PROVE h[k + 1] = f[k + 1]
    OBVIOUS
  <2>1. k + 1 \in 1..m /\ k + 1 \in 1..m + n /\ (k + 1) - 1 = k
    BY <1>2
  <2>2. h[k] = f[k] /\ both[k + 1] = b[k + 1]
    BY <1>11, <1>2, <2>1, <1>1
  <2>3. h[k + 1] = AppendText(h[k], both[k + 1].text) /\ f[k + 1] = AppendText(f[k], b[k + 1].text)
    BY <2>1, <1>6, <1>8
  <2> QED BY <2>2, <2>3
<1> HIDE DEF S
<1>12. m \in S
  BY <1>2, <1>10, <1>11, SetInduction
<1>13. h[m] = f[m] /\ h[m] \in Text
  BY <1>12, <1>2, <1>6 DEF S
<1> DEFINE U == {k \in Nat : k <= n => Letters(h[m + k]) = Letters(h[m]) \o Letters(g[k])}
<1>14. 0 \in U
  <2>1. m + 0 = m /\ Letters(g[0]) = <<>> /\ Letters(h[m]) \in Text
    BY <1>2, <1>7, <1>13, LettersEmpty, LettersType
  <2>2. Letters(h[m]) \o <<>> = Letters(h[m])
    BY <2>1, TextConcat
  <2> QED BY <2>1, <2>2
<1>15. ASSUME NEW k \in Nat, k \in U PROVE k + 1 \in U
  <2> SUFFICES ASSUME k + 1 <= n
               PROVE  Letters(h[m + (k + 1)]) = Letters(h[m]) \o Letters(g[k + 1])
    OBVIOUS
  <2> DEFINE x == h[m + k]
             y == g[k]
             t == c[k + 1].text
  <2>1. /\ k \in 0..n /\ k + 1 \in 1..n /\ (k + 1) - 1 = k
        /\ m + (k + 1) \in 1..m + n /\ (m + (k + 1)) - 1 = m + k /\ m + k \in 0..m + n
        /\ ~ (m + (k + 1) <= m) /\ (m + (k + 1)) - m = k + 1
    BY <1>2
  <2>2. Letters(x) = Letters(h[m]) \o Letters(y)
    BY <1>15, <2>1
  <2>3. x \in Text /\ y \in Text /\ t \in Text
    BY <2>1, <1>2, <1>7, <1>8
  <2>4. both[m + (k + 1)] = c[k + 1]
    BY <2>1, <1>1
  <2>5. h[m + (k + 1)] = AppendText(x, t)
    BY <2>1, <2>4, <1>8
  <2>6. g[k + 1] = AppendText(y, t)
    BY <2>1, <1>7
  <2> HIDE DEF x, y, t
  <2>7. Letters(AppendText(x, t)) = Letters(x) \o Letters(t)
    BY <2>3, LettersAppendText
  <2>8. Letters(AppendText(y, t)) = Letters(y) \o Letters(t)
    BY <2>3, LettersAppendText
  <2>9. (Letters(h[m]) \o Letters(y)) \o Letters(t) = Letters(h[m]) \o (Letters(y) \o Letters(t))
    <3>1. Letters(h[m]) \in Text /\ Letters(y) \in Text /\ Letters(t) \in Text
      BY <2>3, <1>13, LettersType
    <3> QED BY <3>1, TextConcat, Zenon
  <2> QED BY <2>2, <2>5, <2>6, <2>7, <2>8, <2>9
<1> HIDE DEF U
<1>16. n \in U
  BY <1>2, <1>14, <1>15, SetInduction
<1>17. Letters(h[m + n]) = Letters(f[m]) \o Letters(g[n])
  BY <1>16, <1>13, <1>2 DEF U
<1> QED
  BY <1>1, <1>9, <1>17 DEF both

-----------------------------------------------------------------------------
(* Where a text is cut into spans *)

LEMMA RestOfText ==
  ASSUME NEW text \in Text, NEW n \in 0..Len(text)
  PROVE  /\ From(text, n) \in Text /\ Len(From(text, n)) = Len(text) - n
         /\ Until(text, n) \in Text /\ Len(Until(text, n)) = n
         /\ Until(text, n) \o From(text, n) = text
         /\ Paired(text) => Paired(From(text, n)) /\ Paired(Until(text, n))
<1>1. Len(text) \in Nat /\ text \in Seq(Byte)
  BY DEF Text
<1>2. Paired(text) => Paired(From(text, n)) /\ Paired(Until(text, n))
  <2>1. n + 1 \in Nat /\ 1 <= n + 1 /\ Len(text) \in 0..Len(text)
    BY <1>1
  <2> QED BY <2>1, PartPaired DEF From, Until
<1>3. SubSeq(text, n + 1, Len(text)) \in Seq(Byte) /\ SubSeq(text, 1, n) \in Seq(Byte)
  <2>1. /\ \A i \in n + 1..Len(text) : text[i] \in Byte
        /\ \A i \in 1..n : text[i] \in Byte
    BY <1>1
  <2> QED BY <1>1, <2>1, SubSeqProperties
<1>4. Len(SubSeq(text, n + 1, Len(text))) = Len(text) - n /\ Len(SubSeq(text, 1, n)) = n
  <2> DEFINE L == Len(text)
  <2>1. L \in Nat /\ n \in Int /\ n <= L /\ n >= 0
    BY <1>1
  <2>2. /\ Len(SubSeq(text, n + 1, L)) = IF n + 1 <= L THEN L - (n + 1) + 1 ELSE 0
        /\ Len(SubSeq(text, 1, n)) = IF 1 <= n THEN n - 1 + 1 ELSE 0
    BY <1>1, SubSeqProperties
  <2> HIDE DEF L
  <2>3. Len(SubSeq(text, n + 1, L)) = L - n /\ Len(SubSeq(text, 1, n)) = n
    BY <2>1, <2>2
  <2> QED BY <2>3 DEF L
<1>5. SubSeq(text, 1, n) \o SubSeq(text, n + 1, Len(text)) = text
  <2>1. 1 \in 1..Len(text) + 1 /\ n \in 1 - 1..Len(text) /\ Len(text) \in n..Len(text)
    BY <1>1
  <2>2. SubSeq(text, 1, n) \o SubSeq(text, n + 1, Len(text)) = SubSeq(text, 1, Len(text))
    BY <1>1, <2>1, ConcatAdjacentSubSeq
  <2> QED BY <1>1, <2>2, SubSeqFull
<1> QED
  BY <1>2, <1>3, <1>4, <1>5 DEF From, Until, Text

\* A list of cuts as Cuts accumulates it: from 0 on, each a chunk after the one before.
CutLists(text) ==
  {c \in Seq(0..Len(text)) :
     /\ Len(c) >= 1 /\ c[1] = 0
     /\ \A i \in 1..Len(c) - 1 : c[i + 1] = c[i] + ChunkSize(From(text, c[i])) /\ c[i] < c[i + 1]}

NextCuts(text, c) ==
  LET size == ChunkSize(From(text, Last(c)))
  IN  IF size = 0 THEN c ELSE Append(c, Last(c) + size)

LEMMA CutListFacts ==
  ASSUME NEW text \in Text, NEW c \in CutLists(text)
  PROVE  /\ Len(c) \in Nat /\ Len(c) >= 1 /\ Len(text) \in Nat
         /\ \A i \in 1..Len(c) : c[i] \in 0..Len(text)
         /\ Last(c) = c[Len(c)] /\ Last(c) \in 0..Len(text)
<1>1. Len(c) \in Nat /\ Len(c) >= 1 /\ c \in Seq(0..Len(text)) /\ Len(text) \in Nat
  BY DEF CutLists, Text
<1>2. \A i \in 1..Len(c) : c[i] \in 0..Len(text)
  BY <1>1
<1>3. Len(c) \in 1..Len(c)
  BY <1>1
<1> QED
  BY <1>1, <1>2, <1>3 DEF Last

LEMMA NextCutsType ==
  ASSUME NEW text \in Text, NEW c \in CutLists(text)
  PROVE  /\ NextCuts(text, c) \in CutLists(text)
         /\ Last(NextCuts(text, c)) >= Last(c)
         /\ Paired(text) /\ Last(c) < Len(text) => Last(NextCuts(text, c)) >= Last(c) + 1
<1> DEFINE L == Len(text)
           n == Len(c)
           l == Last(c)
           size == ChunkSize(From(text, l))
<1>1. n \in Nat /\ n >= 1 /\ L \in Nat /\ l = c[n] /\ l \in 0..L /\ \A i \in 1..n : c[i] \in 0..L
  BY CutListFacts
<1>2. c \in Seq(0..L)
  BY DEF CutLists
<1>3. /\ From(text, l) \in Text /\ Len(From(text, l)) = L - l
      /\ Paired(text) => Paired(From(text, l))
  BY <1>1, RestOfText
<1>4. /\ size \in 0..L - l
      /\ Paired(text) /\ l < L => size >= 1
  <2> DEFINE rest == From(text, l)
  <2>1. l < L => rest # <<>>
    <3>1. rest = <<>> => Len(rest) = 0
      OBVIOUS
    <3> QED BY <3>1, <1>1, <1>3
  <2>2. ChunkSize(rest) \in 0..Len(rest) /\ (Paired(rest) /\ rest # <<>> => ChunkSize(rest) >= 1)
    BY <1>3, ChunkSizeRange
  <2> QED BY <2>1, <2>2, <1>3
<1>5. c[1] = 0 /\ \A i \in 1..n - 1 : c[i + 1] = c[i] + ChunkSize(From(text, c[i])) /\ c[i] < c[i + 1]
  BY DEF CutLists
<1>6. CASE size = 0
  <2>1. NextCuts(text, c) = c
    BY <1>6 DEF NextCuts
  <2> QED BY <2>1, <1>1, <1>4, <1>6
<1>7. CASE size # 0
  <2> DEFINE d == Append(c, l + size)
  <2>1. NextCuts(text, c) = d
    BY <1>7 DEF NextCuts
  <2> HIDE DEF size
  <2>2. l + size \in 0..L
    BY <1>1, <1>4
  <2>3. /\ d \in Seq(0..L) /\ Len(d) = n + 1
        /\ \A i \in 1..n : d[i] = c[i]
        /\ d[n + 1] = l + size
    BY <1>2, <2>2, AppendProperties
  <2> HIDE DEF d, n, L
  <2>4. d[1] = 0 /\ Len(d) >= 1
    BY <1>1, <1>5, <2>3
  <2>5. ASSUME NEW i \in 1..Len(d) - 1
        PROVE  d[i + 1] = d[i] + ChunkSize(From(text, d[i])) /\ d[i] < d[i + 1]
    <3>1. CASE i = n
      <4>1. d[i] = l /\ d[i + 1] = l + size
        BY <3>1, <1>1, <2>3
      <4>2. l < l + size
        BY <1>1, <1>4, <1>7
      <4> QED BY <4>1, <4>2 DEF size
    <3>2. CASE i # n
      <4>1. i \in 1..n - 1 /\ i \in 1..n /\ i + 1 \in 1..n
        BY <3>2, <1>1, <2>3
      <4>2. d[i] = c[i] /\ d[i + 1] = c[i + 1]
        BY <4>1, <2>3
      <4> QED BY <4>1, <4>2, <1>5
    <3> QED BY <3>1, <3>2
  <2>6. d \in CutLists(text)
    BY <2>3, <2>4, <2>5 DEF CutLists, L
  <2>7. Last(d) = l + size
    BY <2>3 DEF Last
  <2>8. Last(d) >= l /\ (Paired(text) /\ l < L => Last(d) >= l + 1)
    BY <2>7, <1>1, <1>4
  <2> QED BY <2>1, <2>6, <2>8 DEF L
<1> QED
  BY <1>6, <1>7

LEMMA CutsList ==
  ASSUME NEW text \in Text
  PROVE  Cuts(text) \in CutLists(text) /\ (Paired(text) => Last(Cuts(text)) = Len(text))
<1> DEFINE n == Len(text)
           T == CutLists(text)
           base == <<0>>
           step == [p \in T \X (1..n) |-> NextCuts(text, p[1])]
           F(f) == [k \in 0..n |->
                      IF k = 0 THEN <<0>>
                      ELSE LET before == f[k - 1]
                               size == ChunkSize(From(text, Last(before)))
                           IN  IF size = 0 THEN before ELSE Append(before, Last(before) + size)]
           cuts == CHOOSE f : f = F(f)
<1>1. n \in Nat
  BY DEF Text
<1>2. base \in T
  <2>1. base \in Seq(0..n) /\ Len(base) >= 1 /\ base[1] = 0 /\ \A i \in 1..Len(base) - 1 : FALSE
    BY <1>1
  <2> HIDE DEF base
  <2> QED BY <2>1, Zenon DEF CutLists
<1>3. \A c \in T : NextCuts(text, c) \in T
  BY NextCutsType
<1> HIDE DEF n, T
<1>4. step \in Steps(T, n) /\ \A c \in T, k \in 1..n : step[<<c, k>>] = NextCuts(text, c)
  BY <1>3 DEF Steps
<1> HIDE DEF step, base
<1>5. PICK f : Unfolds(f, T, base, n, step)
  BY <1>1, <1>2, <1>4, RecursionExists
<1>6. f \in [0..n -> T] /\ f[0] = base
  BY <1>5 DEF Unfolds
<1>7. ASSUME NEW k \in 1..n PROVE f[k] = NextCuts(text, f[k - 1])
  <2>1. k - 1 \in 0..n
    BY <1>1
  <2>2. f[k - 1] \in T
    BY <2>1, <1>6
  <2>3. f[k] = step[<<f[k - 1], k>>]
    BY <1>5 DEF Unfolds
  <2> QED BY <2>2, <2>3, <1>4
<1>8. ASSUME NEW k \in 0..n
      PROVE  f[k] = F(f)[k]
  <2>1. CASE k = 0
    BY <2>1, <1>6 DEF base
  <2>2. CASE k # 0
    <3>1. k \in 1..n
      BY <2>2, <1>1
    <3>2. F(f)[k] = NextCuts(text, f[k - 1])
      BY <2>2 DEF NextCuts
    <3> QED BY <3>1, <3>2, <1>7
  <2> QED BY <2>1, <2>2
<1>9. f = F(f)
  <2>1. DOMAIN f = 0..n /\ f = [k \in 0..n |-> f[k]]
    BY <1>6
  <2> QED BY <2>1, <1>8
<1>10. cuts = F(cuts)
  BY <1>9
<1>11. Cuts(text) = cuts[n]
  BY DEF Cuts, n
<1> HIDE DEF cuts
<1>12. cuts[0] = base
  BY <1>10, <1>1 DEF base
<1>13. ASSUME NEW k \in 1..n PROVE cuts[k] = NextCuts(text, cuts[k - 1])
  <2>1. k \in 0..n /\ k # 0
    BY <1>1
  <2>2. F(cuts)[k] = NextCuts(text, cuts[k - 1])
    BY <2>1 DEF NextCuts
  <2> QED BY <2>2, <1>10
<1> HIDE DEF F
<1> DEFINE Arrives(k) == Paired(text) => Last(cuts[k]) >= k \/ Last(cuts[k]) = n
           S == {k \in Nat : k <= n => cuts[k] \in T /\ Arrives(k)}
<1>14. 0 \in S
  <2>1. Last(base) = 0
    <3>1. Len(base) = 1 /\ base[1] = 0
      BY DEF base
    <3> QED BY <3>1 DEF Last
  <2>2. cuts[0] \in T /\ Last(cuts[0]) >= 0
    BY <2>1, <1>2, <1>12
  <2> QED BY <2>2
<1>15. ASSUME NEW k \in Nat, k \in S PROVE k + 1 \in S
  <2> SUFFICES ASSUME k + 1 <= n PROVE k + 1 \in S
    OBVIOUS
  <2> DEFINE c == cuts[k]
             d == cuts[k + 1]
  <2>1. k + 1 \in 1..n /\ (k + 1) - 1 = k
    BY <1>1
  <2>2. c \in T /\ (Paired(text) => Last(c) >= k \/ Last(c) = n)
    <3>1. k <= n
      BY <1>1
    <3> QED BY <3>1, <1>15
  <2>3. d = NextCuts(text, c)
    BY <2>1, <1>13
  <2> HIDE DEF c, d
  <2>4. /\ d \in T /\ Last(d) >= Last(c)
        /\ Paired(text) /\ Last(c) < n => Last(d) >= Last(c) + 1
    BY <2>2, <2>3, NextCutsType DEF T, n
  <2>5. Last(c) \in 0..n /\ Last(d) \in 0..n
    BY <2>2, <2>4, CutListFacts DEF T, n
  <2>6. Paired(text) => Last(d) >= k + 1 \/ Last(d) = n
    BY <2>2, <2>4, <2>5, <1>1
  <2> QED BY <2>4, <2>6 DEF d
<1> HIDE DEF S
<1>16. n \in S
  BY <1>1, <1>14, <1>15, SetInduction
<1>17. cuts[n] \in T /\ (Paired(text) => Last(cuts[n]) >= n \/ Last(cuts[n]) = n)
  BY <1>16, <1>1 DEF S
<1>18. Last(cuts[n]) \in 0..n
  BY <1>17, CutListFacts DEF T, n
<1> QED
  BY <1>1, <1>11, <1>17, <1>18 DEF T, n

\* The spans AddSpans makes of texts.
Labelled(chunks) == [k \in DOMAIN chunks |-> [id |-> nextSpan + k - 1, text |-> chunks[k]]]

LEMMA LabelledSpans ==
  ASSUME nextSpan \in Int, NEW chunks \in Seq(Text)
  PROVE  /\ Labelled(chunks) \in Spans /\ Len(Labelled(chunks)) = Len(chunks)
         /\ \A k \in 1..Len(chunks) : /\ Labelled(chunks)[k].text = chunks[k]
                                      /\ Labelled(chunks)[k].id = nextSpan + k - 1
<1> DEFINE n == Len(chunks)
           T == Text
           Span == [id : Int, text : T]
           x(k) == [id |-> nextSpan + k - 1, text |-> chunks[k]]
           spans == [k \in 1..n |-> x(k)]
<1>0. chunks \in Seq(T)
  OBVIOUS
<1> HIDE DEF T
<1>1. n \in Nat /\ DOMAIN chunks = 1..n /\ \A k \in 1..n : chunks[k] \in T
  BY <1>0
<1>2. Labelled(chunks) = spans
  BY <1>1 DEF Labelled
<1> HIDE DEF n
<1>3. ASSUME NEW k \in 1..n PROVE x(k) \in Span /\ x(k).text = chunks[k] /\ x(k).id = nextSpan + k - 1
  BY <1>1, <1>3
<1> HIDE DEF x, Span
<1>4. spans \in [1..n -> Span]
  BY <1>3
<1>5. spans \in Seq(Span) /\ Len(spans) = n
  BY <1>1, <1>4, SeqDef
<1>6. \A k \in 1..n : spans[k] = x(k)
  OBVIOUS
<1> HIDE DEF spans
<1> QED
  BY <1>2, <1>3, <1>5, <1>6 DEF Spans, Span, n, T

LEMMA ChunksOfText ==
  ASSUME NEW text \in Text
  PROVE  /\ Chunks(text) \in Seq(Text)
         /\ Len(Cuts(text)) \in Nat /\ Len(Cuts(text)) >= 1
         /\ Len(Chunks(text)) = Len(Cuts(text)) - 1
         /\ \A k \in 1..Len(Chunks(text)) :
              /\ Cuts(text)[k] \in 0..Len(text) /\ Cuts(text)[k + 1] \in 0..Len(text)
              /\ Cuts(text)[k] < Cuts(text)[k + 1]
              /\ Chunks(text)[k] = SubSeq(text, Cuts(text)[k] + 1, Cuts(text)[k + 1])
<1> DEFINE c == Cuts(text)
           n == Len(c) - 1
           T == Text
           x(k) == SubSeq(text, c[k] + 1, c[k + 1])
           chunks == [k \in 1..n |-> x(k)]
<1>1. c \in CutLists(text)
  BY CutsList
<1> HIDE DEF c
<1>2. /\ Len(c) \in Nat /\ Len(c) >= 1 /\ Len(text) \in Nat
      /\ \A i \in 1..Len(c) : c[i] \in 0..Len(text)
  BY <1>1, CutListFacts
<1>3. \A i \in 1..n : c[i] < c[i + 1]
  BY <1>1 DEF CutLists
<1>4. n \in Nat /\ Len(c) = n + 1
  BY <1>2
<1> HIDE DEF n
<1>5. \A i \in 1..n : c[i] \in 0..Len(text) /\ c[i + 1] \in 0..Len(text)
  <2> TAKE i \in 1..n
  <2>1. i \in 1..Len(c) /\ i + 1 \in 1..Len(c)
    BY <1>4
  <2> QED BY <2>1, <1>2
<1>6. ASSUME NEW k \in 1..n PROVE x(k) \in T
  <2> DEFINE p == c[k]
             q == c[k + 1]
  <2>1. p \in Int /\ q \in Int /\ p + 1 \in Int /\ p >= 0 /\ q <= Len(text)
    BY <1>5, <1>2
  <2> HIDE DEF p, q
  <2>2. \A i \in p + 1..q : text[i] \in Byte
    BY <2>1, <1>2 DEF Text
  <2>3. SubSeq(text, p + 1, q) \in Seq(Byte)
    BY <2>1, <2>2, SubSeqProperties
  <2> QED BY <2>3 DEF Text, p, q
<1> HIDE DEF x, T
<1>7. chunks \in [1..n -> T]
  BY <1>6
<1>8. chunks \in Seq(T) /\ Len(chunks) = n /\ \A k \in 1..n : chunks[k] = x(k)
  BY <1>4, <1>7, SeqDef
<1>9. Chunks(text) = chunks
  BY DEF Chunks, chunks, x, c, n
<1> HIDE DEF chunks
<1> DEFINE made == Chunks(text)
<1>10. made \in Seq(T) /\ Len(made) = n /\ \A k \in 1..n : made[k] = x(k)
  BY <1>8, <1>9
<1> HIDE DEF made
<1>11. \A k \in 1..Len(made) :
          /\ c[k] \in 0..Len(text) /\ c[k + 1] \in 0..Len(text) /\ c[k] < c[k + 1]
          /\ made[k] = SubSeq(text, c[k] + 1, c[k + 1])
  BY <1>3, <1>5, <1>10 DEF x
<1>12. Len(c) \in Nat /\ Len(c) >= 1 /\ Len(made) = Len(c) - 1
  BY <1>4, <1>10
<1> QED
  BY <1>10, <1>11, <1>12 DEF T, c, made

\* Together the spans have the letters of what was cut.
LEMMA ChunkLetters ==
  ASSUME NEW text \in Text, NEW spans \in Spans, Len(spans) = Len(Chunks(text)),
         \A k \in 1..Len(spans) : spans[k].text = Chunks(text)[k]
  PROVE  Letters(Joined(spans)) = Letters(Until(text, Last(Cuts(text))))
<1> DEFINE c == Cuts(text)
           n == Len(spans)
           part(k) == SubSeq(text, 1, c[k + 1])
<1>1. /\ Len(c) \in Nat /\ Len(c) = n + 1 /\ n \in Nat /\ Len(text) \in Nat
      /\ \A k \in 1..n : /\ c[k] \in 0..Len(text) /\ c[k + 1] \in 0..Len(text)
                         /\ c[k] < c[k + 1]
                         /\ spans[k].text = SubSeq(text, c[k] + 1, c[k + 1])
                         /\ spans[k].text \in Text
  <2>1. n \in Nat /\ Len(text) \in Nat /\ \A k \in 1..n : spans[k].text \in Text
    BY SpanTypes DEF Text
  <2>2. Len(c) \in Nat /\ Len(c) - 1 = n
    BY ChunksOfText
  <2>3. \A k \in 1..n : /\ c[k] \in 0..Len(text) /\ c[k + 1] \in 0..Len(text)
                         /\ c[k] < c[k + 1]
                         /\ spans[k].text = SubSeq(text, c[k] + 1, c[k + 1])
    BY ChunksOfText
  <2> HIDE DEF c, n
  <2>4. Len(c) = n + 1
    BY <2>1, <2>2
  <2> QED BY <2>1, <2>2, <2>3, <2>4, Zenon
<1>2. c \in CutLists(text)
  BY CutsList
<1> HIDE DEF c
<1>3. c[1] = 0
  BY <1>2 DEF CutLists
<1>4. Last(c) = c[n + 1]
  BY <1>1 DEF Last
<1>5. PICK f : Joins(f, spans) /\ Joined(spans) = f[n]
  BY JoinedJoins
<1> HIDE DEF n
<1>6. f[0] = <<>> /\ f \in [0..n -> Text] /\ \A k \in 1..n : f[k] = AppendText(f[k - 1], spans[k].text)
  BY <1>5 DEF Joins, n
<1> DEFINE S == {k \in Nat : k <= n => Letters(f[k]) = Letters(part(k))}
<1>7. 0 \in S
  <2>1. part(0) = <<>>
    <3>1. 0 + 1 = 1
      OBVIOUS
    <3> QED BY <3>1, <1>3, SubSeqEmpty
  <2> QED BY <2>1, <1>6
<1>8. ASSUME NEW k \in Nat, k \in S PROVE k + 1 \in S
  <2> SUFFICES ASSUME k + 1 <= n PROVE Letters(f[k + 1]) = Letters(part(k + 1))
    OBVIOUS
  <2> DEFINE j == k + 1
             p == c[j]
             q == c[j + 1]
             t == spans[j].text
             y == f[k]
  <2>1. j \in 1..n /\ j - 1 = k /\ k \in 0..n
    BY <1>1
  <2>2. /\ p \in 0..Len(text) /\ q \in 0..Len(text) /\ p < q
        /\ t = SubSeq(text, p + 1, q) /\ t \in Text
    BY <1>1, <2>1
  <2>3. y \in Text /\ f[j] = AppendText(y, t)
    BY <1>6, <2>1
  <2>4. Letters(y) = Letters(SubSeq(text, 1, p))
    BY <1>8, <2>1
  <2>5. part(k + 1) = SubSeq(text, 1, q)
    OBVIOUS
  <2> HIDE DEF p, q, t, y
  <2>6. SubSeq(text, 1, p) \o SubSeq(text, p + 1, q) = SubSeq(text, 1, q)
    <3>1. 1 \in 1..Len(text) + 1 /\ p \in 1 - 1..Len(text) /\ q \in p..Len(text)
      BY <1>1, <2>2
    <3>2. text \in Seq(Byte)
      BY DEF Text
    <3> QED BY <3>1, <3>2, ConcatAdjacentSubSeq
  <2>7. SubSeq(text, 1, p) \in Text
    BY <2>2, RestOfText DEF Until
  <2>8. Letters(SubSeq(text, 1, q)) = Letters(SubSeq(text, 1, p)) \o Letters(t)
    BY <2>2, <2>6, <2>7, LettersConcat
  <2>9. Letters(AppendText(y, t)) = Letters(y) \o Letters(t)
    BY <2>2, <2>3, LettersAppendText
  <2> QED BY <2>3, <2>4, <2>5, <2>8, <2>9
<1> HIDE DEF S
<1>9. n \in S
  BY <1>1, <1>7, <1>8, SetInduction
<1>10. Letters(f[n]) = Letters(SubSeq(text, 1, c[n + 1]))
  BY <1>9, <1>1 DEF S
<1> QED
  BY <1>4, <1>5, <1>10 DEF Until, c

-----------------------------------------------------------------------------
(* The inductive invariant *)

TextsHold ==
  /\ suffix \in Text /\ finished \in Text /\ current \in Text /\ promoted \in Text
  /\ covered \in Text /\ recent \in Seq(Text) /\ backlog \in Spans

\* The output is a text as long as no caller's replacement is in it.
OutputHolds ==
  /\ rewritten \in BOOLEAN
  /\ ~rewritten => frozen \in Text /\ editable \in Text

CountersHold ==
  /\ safe \in BOOLEAN /\ generation \in Nat /\ revision \in Nat /\ nextSpan \in Nat
  /\ segment \in [open : BOOLEAN, count : Nat, updates : Nat]

\* Between two segments nothing of a hypothesis is left.
NothingOpen == ~segment.open => current = <<>> /\ suffix = <<>> /\ promoted = <<>>

\* The spans of the backlog are the last ones that got a number, in order.
NumberedInOrder ==
  \A j \in 1..Len(backlog) : backlog[j].id = nextSpan - Len(backlog) + j - 1

\* The hypothesis is what was promoted of it and the unstable rest.
PromotedBegins == safe => current = promoted \o suffix

\* The cleaned regions and the spans stand for the finished segments and for
\* what was promoted of the open one.
SpansAccount ==
  safe => Letters(covered) \o Letters(Joined(backlog)) = Letters(finished) \o Letters(promoted)

\* A snapshot is of this generation and revision or of an earlier one; as long
\* as it is of this one its text is that of the first spans.
SnapshotStands(s) ==
  /\ s.generation \in Nat /\ s.revision \in Nat /\ s.new \in Text
  /\ s.generation <= generation
  /\ s.generation = generation => s.revision <= revision
  /\ s.generation = generation /\ s.revision = revision /\ safe =>
       \E k \in 1..Len(backlog) : backlog[k].id = s.last /\ s.new = Joined(SubSeq(backlog, 1, k))

SnapshotsStand == \A s \in held : SnapshotStands(s)

TailIsRaw ==
  ~rewritten /\ safe => Letters(frozen) \o Letters(editable) = Letters(covered)

RegionsInv ==
  /\ TextsHold /\ OutputHolds /\ CountersHold
  /\ NothingOpen /\ NumberedInOrder /\ PromotedBegins /\ SpansAccount
  /\ SnapshotsStand /\ TailIsRaw

LEMMA InvInit == TranscriptInit => RegionsInv
<1> SUFFICES ASSUME TranscriptInit PROVE RegionsInv
  OBVIOUS
<1> USE DEF TranscriptInit
<1>1. <<>> \in Text /\ <<>> \in Seq(Text) /\ <<>> \in Spans
  BY TextConcat DEF Spans
<1>2. TextsHold /\ OutputHolds
  BY <1>1 DEF TextsHold, OutputHolds
<1>3. CountersHold /\ NothingOpen /\ SnapshotsStand
  BY DEF CountersHold, NothingOpen, SnapshotsStand
<1>4. NumberedInOrder
  BY DEF NumberedInOrder
<1>5. <<>> \o <<>> = <<>>
  BY <1>1, TextConcat
<1>6. PromotedBegins
  BY <1>5 DEF PromotedBegins
<1>7. SpansAccount /\ TailIsRaw
  BY <1>5, LettersEmpty, JoinedEmpty DEF SpansAccount, TailIsRaw
<1> QED
  BY <1>2, <1>3, <1>4, <1>6, <1>7 DEF RegionsInv

LEMMA SplitSpans ==
  ASSUME NEW spans \in Spans, NEW k \in 0..Len(spans)
  PROVE  /\ SubSeq(spans, 1, k) \in Spans /\ Len(SubSeq(spans, 1, k)) = k
         /\ From(spans, k) \in Spans /\ Len(From(spans, k)) = Len(spans) - k
         /\ \A j \in 1..Len(spans) - k : From(spans, k)[j] = spans[k + j]
         /\ SubSeq(spans, 1, k) \o From(spans, k) = spans
<1> DEFINE Span == [id : Int, text : Text]
           n == Len(spans)
<1>1. spans \in Seq(Span)
  BY DEF Spans
<1> HIDE DEF Span
<1>2. n \in Nat /\ \A i \in 1..n : spans[i] \in Span
  BY <1>1
<1> HIDE DEF n
<1>3. k \in Int /\ 0 <= k /\ k <= n /\ k + 1 \in Int /\ n \in Int
  BY <1>2 DEF n
<1>4. (\A i \in 1..k : spans[i] \in Span) /\ (\A i \in k + 1..n : spans[i] \in Span)
  BY <1>2, <1>3
<1>5. /\ SubSeq(spans, 1, k) \in Seq(Span)
      /\ Len(SubSeq(spans, 1, k)) = IF 1 <= k THEN k - 1 + 1 ELSE 0
  BY <1>3, <1>4, SubSeqProperties
<1>6. /\ SubSeq(spans, k + 1, n) \in Seq(Span)
      /\ Len(SubSeq(spans, k + 1, n)) = IF k + 1 <= n THEN n - (k + 1) + 1 ELSE 0
      /\ \A i \in 1..n - (k + 1) + 1 : SubSeq(spans, k + 1, n)[i] = spans[k + 1 + i - 1]
  BY <1>3, <1>4, SubSeqProperties
<1>7. SubSeq(spans, 1, k) \o SubSeq(spans, k + 1, n) = spans
  <2>1. 1 \in 1..Len(spans) + 1 /\ k \in 1 - 1..Len(spans) /\ n \in k..Len(spans)
    BY <1>2, <1>3 DEF n
  <2>2. SubSeq(spans, 1, k) \o SubSeq(spans, k + 1, n) = SubSeq(spans, 1, n)
    BY <1>1, <2>1, ConcatAdjacentSubSeq
  <2> QED BY <1>1, <2>2, SubSeqFull DEF n
<1> DEFINE a == SubSeq(spans, 1, k)
           b == SubSeq(spans, k + 1, n)
<1> HIDE DEF a, b
<1>8. Len(a) = k
  BY <1>3, <1>5 DEF a
<1>9. Len(b) = n - k
  BY <1>3, <1>6 DEF b
<1>10. ASSUME NEW j \in 1..n - k PROVE b[j] = spans[k + j]
  <2>1. j \in 1..n - (k + 1) + 1 /\ k + 1 + j - 1 = k + j
    BY <1>3
  <2> QED BY <2>1, <1>6 DEF b
<1> QED
  BY <1>5, <1>6, <1>7, <1>8, <1>9, <1>10 DEF From, Spans, Span, n, a, b

\* New spans follow the others and are numbered on.
LEMMA AddSpansFollow ==
  ASSUME backlog \in Spans, nextSpan \in Nat, NumberedInOrder,
         NEW chunks \in Seq(Text), AddSpans(chunks)
  PROVE  /\ backlog' \in Spans /\ nextSpan' \in Nat /\ NumberedInOrder'
         /\ backlog' = backlog \o Labelled(chunks)
         /\ Len(backlog') >= Len(backlog)
         /\ \A k \in 1..Len(backlog) : /\ backlog'[k] = backlog[k]
                                       /\ SubSeq(backlog', 1, k) = SubSeq(backlog, 1, k)
<1> DEFINE more == Labelled(chunks)
           m == Len(backlog)
           n == Len(chunks)
           after == backlog'
<1>1. backlog' = backlog \o more /\ nextSpan' = nextSpan + n
  BY DEF AddSpans, Labelled
<1>2. more \in Spans /\ Len(more) = n /\ \A k \in 1..n : more[k].id = nextSpan + k - 1
  BY LabelledSpans
<1> HIDE DEF more
<1>3. n \in Nat /\ m \in Nat
  BY SpanTypes
<1>4. /\ after \in Spans
      /\ Len(after) = m + n
      /\ \A i \in 1..m + n : after[i] = IF i <= m THEN backlog[i] ELSE more[i - m]
  <2> DEFINE Span == [id : Int, text : Text]
             both == backlog \o more
  <2>1. backlog \in Seq(Span) /\ more \in Seq(Span)
    BY <1>2 DEF Spans
  <2> HIDE DEF Span, n
  <2>2. /\ both \in Seq(Span)
        /\ Len(both) = Len(backlog) + Len(more)
        /\ \A i \in 1..Len(backlog) + Len(more) :
             both[i] = IF i <= Len(backlog) THEN backlog[i] ELSE more[i - Len(backlog)]
    BY <2>1, ConcatProperties
  <2>3. both \in Spans
    BY <2>2 DEF Spans, Span
  <2> HIDE DEF both
  <2>4. Len(more) = n
    BY <1>2
  <2> QED BY <1>1, <2>2, <2>3, <2>4 DEF both
<1>5. \A j \in 1..m : backlog[j].id = nextSpan - m + j - 1
  BY DEF NumberedInOrder
<1> HIDE DEF after, m, n
<1>6. ASSUME NEW j \in 1..m + n PROVE after[j].id = (nextSpan + n) - (m + n) + j - 1
  <2>1. CASE j <= m
    <3>1. j \in 1..m /\ (nextSpan + n) - (m + n) + j - 1 = nextSpan - m + j - 1
      BY <2>1, <1>3
    <3>2. after[j] = backlog[j]
      BY <2>1, <1>4
    <3> QED BY <3>1, <3>2, <1>5
  <2>2. CASE ~(j <= m)
    <3>1. j - m \in 1..n /\ (nextSpan + n) - (m + n) + j - 1 = nextSpan + (j - m) - 1
      BY <2>2, <1>3
    <3>2. after[j] = more[j - m]
      BY <2>2, <1>4
    <3> QED BY <3>1, <3>2, <1>2
  <2> QED BY <2>1, <2>2
<1>7. \A j \in 1..Len(after) : after[j].id = (nextSpan + n) - Len(after) + j - 1
  BY <1>4, <1>6
<1>8. NumberedInOrder' /\ nextSpan' \in Nat
  BY <1>1, <1>3, <1>7 DEF NumberedInOrder, after
<1>9. Len(after) >= m
  BY <1>3, <1>4
<1>10. ASSUME NEW k \in 1..m
       PROVE  after[k] = backlog[k] /\ SubSeq(after, 1, k) = SubSeq(backlog, 1, k)
  <2>1. k \in 1..m + n /\ k <= m /\ 1 \in 1..Len(backlog) /\ k \in 1..Len(backlog)
    BY <1>3 DEF m
  <2>2. SubSeq(backlog \o more, 1, k) = SubSeq(backlog, 1, k)
    BY <2>1, <1>2, SubSeqOfConcat1 DEF Spans
  <2> QED BY <2>1, <2>2, <1>1, <1>4 DEF after
<1> QED
  BY <1>1, <1>4, <1>8, <1>9, <1>10 DEF after, m, more

\* The spans a text is cut into add its letters up to the last cut.
LEMMA AddSpansLetters ==
  ASSUME backlog \in Spans, nextSpan \in Nat, NEW text \in Text, AddSpans(Chunks(text))
  PROVE  Letters(Joined(backlog')) =
           Letters(Joined(backlog)) \o Letters(Until(text, Last(Cuts(text))))
<1> DEFINE more == Labelled(Chunks(text))
<1>1. Chunks(text) \in Seq(Text)
  BY ChunksOfText
<1>2. /\ more \in Spans /\ Len(more) = Len(Chunks(text))
      /\ \A k \in 1..Len(Chunks(text)) : more[k].text = Chunks(text)[k]
  BY <1>1, LabelledSpans
<1>3. backlog' = backlog \o more
  BY DEF AddSpans, Labelled
<1> HIDE DEF more
<1>4. Letters(Joined(more)) = Letters(Until(text, Last(Cuts(text))))
  BY <1>2, ChunkLetters
<1>5. Letters(Joined(backlog \o more)) = Letters(Joined(backlog)) \o Letters(Joined(more))
  BY <1>2, JoinedConcat
<1> QED
  BY <1>3, <1>4, <1>5

LEMMA SnapshotsStay ==
  ASSUME SnapshotsStand, UNCHANGED <<held, generation, revision>>, safe' => safe,
         backlog \in Spans, safe' => backlog' \in Spans /\ Len(backlog') >= Len(backlog),
         safe' => \A k \in 1..Len(backlog) :
                    backlog'[k] = backlog[k] /\ SubSeq(backlog', 1, k) = SubSeq(backlog, 1, k)
  PROVE  SnapshotsStand'
<1> SUFFICES ASSUME NEW s \in held PROVE SnapshotStands(s)'
  BY DEF SnapshotsStand
<1>1. SnapshotStands(s)
  BY DEF SnapshotsStand
<1>2. ASSUME s.generation = generation, s.revision = revision, safe'
      PROVE  \E k \in 1..Len(backlog') :
               backlog'[k].id = s.last /\ s.new = Joined(SubSeq(backlog', 1, k))
  <2>1. PICK k \in 1..Len(backlog) : backlog[k].id = s.last /\ s.new = Joined(SubSeq(backlog, 1, k))
    BY <1>1, <1>2 DEF SnapshotStands
  <2>2. backlog'[k] = backlog[k] /\ SubSeq(backlog', 1, k) = SubSeq(backlog, 1, k)
    BY <1>2
  <2>3. Len(backlog) \in Nat /\ Len(backlog') \in Nat /\ Len(backlog') >= Len(backlog)
    BY <1>2, SpanTypes
  <2>4. k \in 1..Len(backlog')
    BY <2>3
  <2> QED BY <2>1, <2>2, <2>4
<1> QED
  BY <1>1, <1>2 DEF SnapshotStands

LEMMA ResetStep == ASSUME RegionsInv, Reset PROVE RegionsInv'
<1> USE DEF Reset
<1>1. <<>> \in Text /\ <<>> \in Seq(Text) /\ <<>> \in Spans
  BY TextConcat DEF Spans
<1>2. TextsHold' /\ OutputHolds'
  BY <1>1 DEF TextsHold, OutputHolds
<1>3. CountersHold' /\ NothingOpen'
  BY DEF CountersHold, NothingOpen, RegionsInv
<1>4. NumberedInOrder'
  BY DEF NumberedInOrder
<1>5. <<>> \o <<>> = <<>>
  BY <1>1, TextConcat
<1>6. PromotedBegins'
  BY <1>5 DEF PromotedBegins
<1>7. SpansAccount' /\ TailIsRaw'
  BY <1>5, LettersEmpty, JoinedEmpty DEF SpansAccount, TailIsRaw
<1>8. SnapshotsStand'
  <2> SUFFICES ASSUME NEW s \in held PROVE SnapshotStands(s)'
    BY DEF SnapshotsStand
  <2>1. SnapshotStands(s) /\ generation \in Nat
    BY DEF RegionsInv, SnapshotsStand, CountersHold
  <2>2. /\ s.generation \in Nat /\ s.revision \in Nat /\ s.new \in Text
        /\ s.generation <= generation
    BY <2>1 DEF SnapshotStands
  <2>3. s.generation <= generation + 1 /\ s.generation # generation + 1
    BY <2>1, <2>2
  <2> QED BY <2>2, <2>3 DEF SnapshotStands
<1> QED
  BY <1>2, <1>3, <1>4, <1>6, <1>7, <1>8 DEF RegionsInv

LEMMA BeginStep == ASSUME RegionsInv, BeginSegment PROVE RegionsInv'
<1> USE DEF BeginSegment, RegionsInv
<1>1. <<>> \in Text /\ <<>> \in Seq(Text) /\ <<>> \o <<>> = <<>>
  BY TextConcat
<1>2. promoted = <<>>
  BY DEF NothingOpen
<1>3. TextsHold' /\ OutputHolds' /\ CountersHold'
  BY <1>1 DEF TextsHold, OutputHolds, CountersHold
<1>4. NothingOpen' /\ PromotedBegins'
  BY <1>1 DEF NothingOpen, PromotedBegins
<1>5. NumberedInOrder' /\ TailIsRaw'
  BY DEF NumberedInOrder, TailIsRaw
<1>6. SpansAccount'
  BY <1>2 DEF SpansAccount
<1>7. SnapshotsStand'
  BY DEF SnapshotsStand, SnapshotStands
<1> QED
  BY <1>3, <1>4, <1>5, <1>6, <1>7

\* A request asks for at least one span and for no more than there are.
LEMMA RequestedRange ==
  ASSUME backlog \in Spans, backlog # <<>>
  PROVE  /\ Requested \in 1..Len(backlog)
         /\ \A j \in 2..Requested :
              LET text == Joined(SubSeq(backlog, 1, j))
              IN  TokenCount(text) <= RequestTokens /\ Len(text) <= MaxNewBytes
<1> DEFINE n == Len(backlog)
           Fits(j) == LET text == Joined(SubSeq(backlog, 1, j))
                      IN  TokenCount(text) <= RequestTokens /\ Len(text) <= MaxNewBytes
           K == {k \in 1..n : \A j \in 2..k : Fits(j)}
<1>1. n \in Nat /\ n >= 1
  BY SpanTypes DEF Spans
<1>2. 1 \in K /\ K \subseteq 0..n /\ K \subseteq 1..n /\ \A k \in K : \A j \in 2..k : Fits(j)
  BY <1>1
<1>3. Requested = GreatestOf(K)
  BY DEF Requested
<1> HIDE DEF K, n
<1>4. GreatestOf(K) \in K
  BY <1>1, <1>2, GreatestIsGreatest
<1> HIDE DEF Fits
<1>5. Requested \in 1..n /\ \A j \in 2..Requested : Fits(j)
  BY <1>2, <1>3, <1>4
<1> QED
  BY <1>5 DEF n, Fits

LEMMA SnapshotStep == ASSUME RegionsInv, MakeSnapshot \/ DropSnapshot PROVE RegionsInv'
<1> USE DEF MakeSnapshot, DropSnapshot, RegionsInv
<1>1. UNCHANGED <<asr, tail, backlog, safe, generation, nextSpan, segment>>
  OBVIOUS
<1>2. UNCHANGED <<frozen, editable, backlog, suffix, finished, current, recent, promoted>>
  BY <1>1 DEF asr, tail
<1>3. UNCHANGED <<safe, generation, revision, nextSpan, segment, covered, rewritten>>
  BY <1>1 DEF tail
<1>4. TextsHold' /\ OutputHolds' /\ CountersHold'
  BY <1>2, <1>3 DEF TextsHold, OutputHolds, CountersHold
<1>5. NothingOpen' /\ PromotedBegins' /\ NumberedInOrder' /\ TailIsRaw' /\ SpansAccount'
  BY <1>2, <1>3 DEF NothingOpen, PromotedBegins, NumberedInOrder, TailIsRaw, SpansAccount
<1>6. SnapshotStands(NewSnapshot) \/ held' \subseteq held
  <2>1. CASE DropSnapshot
    BY <2>1
  <2>2. CASE MakeSnapshot
    <3> DEFINE n == Len(backlog)
    <3>1. backlog \in Spans /\ backlog # <<>> /\ n \in Nat
      BY <2>2, SpanTypes DEF TextsHold
    <3>2. Requested \in 1..n
      BY <3>1, RequestedRange
    <3> HIDE DEF n
    <3>3. Joined(SubSeq(backlog, 1, Requested)) \in Text
      <4>1. Requested \in 0..n
        BY <3>2
      <4> QED BY <3>1, <4>1, SplitSpans, JoinedType DEF n
    <3> DEFINE s == NewSnapshot
    <3>4. /\ s.generation = generation /\ s.revision = revision
          /\ s.last = backlog[Requested].id /\ s.new = Joined(SubSeq(backlog, 1, Requested))
      BY DEF NewSnapshot
    <3> HIDE DEF s
    <3>5. generation \in Nat /\ revision \in Nat
      BY DEF CountersHold
    <3> QED BY <3>2, <3>3, <3>4, <3>5 DEF SnapshotStands, s, n
  <2> QED BY <2>1, <2>2
<1>7. held' \subseteq held \cup {NewSnapshot} /\ (held' \subseteq held \/ SnapshotStands(NewSnapshot))
  BY <1>6
<1>8. \A s \in held' : SnapshotStands(s)
  BY <1>7 DEF SnapshotsStand
<1>9. SnapshotsStand'
  BY <1>2, <1>3, <1>8 DEF SnapshotsStand, SnapshotStands
<1> QED
  BY <1>4, <1>5, <1>9

\* The hypotheses that are remembered end with the new one.
LEMMA RememberedTexts ==
  ASSUME recent \in Seq(Text), NEW text \in Text
  PROVE  /\ Remember(text) \in Seq(Text) /\ Len(Remember(text)) \in Nat
         /\ Len(Remember(text)) >= 1 /\ Last(Remember(text)) = text
<1> DEFINE T == Text
           all == Append(recent, text)
           n == Len(recent)
<1>0. recent \in Seq(T) /\ text \in T /\ MinimumHypotheses \in Nat /\ MinimumHypotheses >= 1
  BY TranscriptAssumption
<1> HIDE DEF T
<1>1. n \in Nat /\ all \in Seq(T) /\ Len(all) = n + 1 /\ all[n + 1] = text
  BY <1>0, AppendProperties
<1> HIDE DEF all, n
<1>2. CASE Len(all) > MinimumHypotheses
  <2>1. all # <<>>
    BY <1>1
  <2>2. Tail(all) \in Seq(T) /\ Len(Tail(all)) = Len(all) - 1
        /\ \A i \in 1..Len(Tail(all)) : Tail(all)[i] = all[i + 1]
    BY <1>1, <2>1, HeadTailProperties
  <2> DEFINE r == Tail(all)
  <2> HIDE DEF r
  <2>3. r \in Seq(T) /\ Len(r) = n /\ n >= 1 /\ r[n] = all[n + 1]
    BY <1>0, <1>1, <1>2, <2>2 DEF r
  <2>4. Remember(text) = r
    BY <1>2 DEF Remember, all, r
  <2> QED BY <1>1, <2>3, <2>4 DEF Last, T
<1>3. CASE ~(Len(all) > MinimumHypotheses)
  <2>1. Remember(text) = all
    BY <1>3 DEF Remember, all
  <2> QED BY <1>1, <2>1 DEF Last, T
<1> QED
  BY <1>2, <1>3

\* What is confirmed of a hypothesis lies in it.
LEMMA ConfirmedRange ==
  ASSUME NEW hypotheses, Last(hypotheses) \in Text
  PROVE  Confirmed(hypotheses) \in 0..Len(Last(hypotheses))
<1> DEFINE text == Last(hypotheses)
           common == LeastOf({Utf8SafeCommonPrefix(Head(hypotheses), hypotheses[k]) :
                              k \in DOMAIN hypotheses})
           boundary == TokenBoundaryAtOrBefore(text, common)
           shared == Until(text, boundary)
           count == TokenCount(shared)
<1>1. Confirmed(hypotheses) =
        IF count <= ProtectedTokens THEN 0 ELSE Nth(count - ProtectedTokens, Ends(shared))
  BY DEF Confirmed
<1> HIDE DEF common, text
<1>2. Len(text) \in Nat /\ boundary \in 0..Len(text)
  BY BoundaryRange DEF Text, text
<1> HIDE DEF boundary
<1>3. shared \in Text /\ Len(shared) = boundary
  BY <1>2, RestOfText DEF text
<1> HIDE DEF shared
<1>4. count \in Nat /\ ProtectedTokens \in Nat
  BY <1>3, TokenOffsets, TranscriptAssumption
<1> HIDE DEF count
<1>5. CASE count <= ProtectedTokens
  BY <1>1, <1>2, <1>5 DEF text
<1>6. CASE ~(count <= ProtectedTokens)
  <2>1. count - ProtectedTokens \in Nat /\ 1 <= count - ProtectedTokens /\ count - ProtectedTokens <= count
    BY <1>4, <1>6
  <2>2. Nth(count - ProtectedTokens, Ends(shared)) \in 1..Len(shared)
    BY <1>3, <2>1, NthEnd DEF count
  <2>3. Nth(count - ProtectedTokens, Ends(shared)) \in 0..Len(text)
    BY <2>2, <1>2, <1>3
  <2> QED BY <1>1, <1>6, <2>3 DEF text
<1> QED
  BY <1>5, <1>6

LEMMA OpenStays ==
  ASSUME RegionsInv, segment' = [segment EXCEPT !.updates = @ + 1], segment.open
  PROVE  segment' \in [open : BOOLEAN, count : Nat, updates : Nat] /\ segment'.open
BY DEF RegionsInv, CountersHold

LEMMA RevisedStep ==
  ASSUME RegionsInv, Update, NEW text \in Hypotheses, UpdateRevised(text), current' = text
  PROVE  RegionsInv'
<1> USE DEF Update, UpdateRevised, RegionsInv
<1>1. text \in Text /\ <<>> \in Spans /\ <<>> \in Seq(Text)
  BY HypothesisPaired DEF Spans
<1>2. UNCHANGED <<tail, finished, generation, held, promoted, nextSpan>>
  OBVIOUS
<1>3. UNCHANGED <<frozen, editable, revision, covered, rewritten, finished, generation, held,
                  promoted, nextSpan>>
  BY <1>2 DEF tail
<1>4. segment' \in [open : BOOLEAN, count : Nat, updates : Nat] /\ segment'.open
  BY OpenStays
<1>5. TextsHold' /\ OutputHolds' /\ CountersHold'
  BY <1>1, <1>3, <1>4 DEF TextsHold, OutputHolds, CountersHold
<1>6. NothingOpen' /\ NumberedInOrder'
  BY <1>4 DEF NothingOpen, NumberedInOrder
<1>7. PromotedBegins' /\ SpansAccount' /\ TailIsRaw'
  BY DEF PromotedBegins, SpansAccount, TailIsRaw
<1>8. SnapshotsStand'
  BY <1>3, SnapshotsStay DEF TextsHold
<1> QED
  BY <1>5, <1>6, <1>7, <1>8

\* A hypothesis that keeps what was promoted begins with it.
LEMMA PromotedPrefix ==
  ASSUME promoted \in Text, NEW text \in Text, ~Revises(text)
  PROVE  Len(promoted) \in 0..Len(text) /\ promoted = Until(text, Len(promoted))
<1>1. Len(text) \in Nat /\ Len(promoted) \in Nat
  BY DEF Text
<1>2. CASE promoted = <<>>
  <2>1. Len(promoted) = 0
    BY <1>2
  <2>2. SubSeq(text, 1, 0) = <<>>
    BY SubSeqEmpty
  <2> QED BY <1>1, <1>2, <2>1, <2>2 DEF Until
<1>3. CASE promoted # <<>>
  <2>1. IsPrefix(promoted, text)
    BY <1>3 DEF Revises
  <2>2. /\ Len(promoted) <= Len(text)
        /\ SubSeq(promoted, 1, Len(promoted)) = SubSeq(text, 1, Len(promoted))
    BY <2>1 DEF IsPrefix
  <2>3. SubSeq(promoted, 1, Len(promoted)) = promoted
    BY SubSeqFull DEF Text
  <2> QED BY <1>1, <2>2, <2>3 DEF Until
<1> QED
  BY <1>2, <1>3

\* Promotion moves a piece of the hypothesis, whatever its length.
LEMMA PromoteMoves ==
  ASSUME RegionsInv, NEW text \in Text, ~Revises(text),
         NEW n \in 0..Len(text), n > Len(promoted), PromoteThrough(text, n),
         UNCHANGED <<covered, finished>>, safe
  PROVE  /\ backlog' \in Spans /\ nextSpan' \in Nat /\ NumberedInOrder'
         /\ Len(backlog') >= Len(backlog)
         /\ \A k \in 1..Len(backlog) : /\ backlog'[k] = backlog[k]
                                       /\ SubSeq(backlog', 1, k) = SubSeq(backlog, 1, k)
         /\ promoted' \in Text
         /\ Len(promoted') \in 0..Len(text) /\ promoted' = Until(text, Len(promoted'))
         /\ Letters(covered') \o Letters(Joined(backlog')) = Letters(finished') \o Letters(promoted')
<1> DEFINE p == Len(promoted)
           fresh == SubSeq(text, p + 1, n)
           l == Last(Cuts(fresh))
           piece == Until(fresh, l)
<1>1. /\ promoted \in Text /\ covered \in Text /\ finished \in Text /\ backlog \in Spans
      /\ nextSpan \in Nat /\ NumberedInOrder
  BY DEF RegionsInv, TextsHold, CountersHold
<1>2. p \in 0..Len(text) /\ promoted = Until(text, p) /\ Len(text) \in Nat
  BY <1>1, PromotedPrefix DEF Text
<1> HIDE DEF p
<1>3. fresh \in Text /\ Len(fresh) = n - p
  <2>1. p \in Int /\ p + 1 \in Int /\ n \in Int /\ p + 1 <= n /\ n <= Len(text) /\ p >= 0
    BY <1>2 DEF p
  <2>2. \A i \in p + 1..n : text[i] \in Byte
    BY <2>1, <1>2 DEF Text
  <2>3. fresh \in Seq(Byte) /\ Len(fresh) = IF p + 1 <= n THEN n - (p + 1) + 1 ELSE 0
    BY <2>1, <2>2, SubSeqProperties
  <2> HIDE DEF fresh
  <2> QED BY <2>1, <2>3 DEF Text
<1>4. l \in 0..Len(fresh)
  <2>1. Cuts(fresh) \in CutLists(fresh)
    BY <1>3, CutsList
  <2> QED BY <1>3, <2>1, CutListFacts
<1> HIDE DEF l
<1>5. piece \in Text /\ Len(piece) = l
  BY <1>3, <1>4, RestOfText
<1>6. AddSpans(Chunks(fresh)) /\ promoted' = promoted \o piece
  BY DEF PromoteThrough, fresh, piece, l, p
<1>7. piece = SubSeq(text, p + 1, p + l)
  <2>1. CASE l = 0
    <3>1. Until(fresh, 0) = <<>>
      BY SubSeqEmpty DEF Until
    <3>2. SubSeq(text, p + 1, p + 0) = <<>>
      BY <1>2, SubSeqEmpty
    <3> QED BY <2>1, <3>1, <3>2
  <2>2. CASE l # 0
    <3>1. /\ text \in Seq(Byte)
          /\ p + 1 \in 1..Len(text) /\ n \in 1..Len(text)
          /\ 1 \in 1..n - (p + 1) + 1 /\ l \in 1..n - (p + 1) + 1
          /\ (p + 1) + 1 - 1 = p + 1 /\ (p + 1) + l - 1 = p + l
      <4> HIDE DEF fresh
      <4>1. l \in 1..n - p /\ n <= Len(text) /\ p >= 0 /\ p \in Int /\ n \in Int
        BY <1>2, <1>3, <1>4, <2>2
      <4> QED BY <4>1, <1>2 DEF Text
    <3>2. SubSeq(SubSeq(text, p + 1, n), 1, l) = SubSeq(text, (p + 1) + 1 - 1, (p + 1) + l - 1)
      BY <3>1, SubSeqOfSubSeq, SMTT(30)
    <3> QED BY <3>1, <3>2 DEF Until
  <2> QED BY <2>1, <2>2
<1> HIDE DEF piece
<1>8. p + l \in p..Len(text) /\ p + l \in 0..Len(text)
  <2> HIDE DEF fresh
  <2> QED BY <1>2, <1>3, <1>4
<1>9. promoted' = Until(text, p + l)
  <2>1. 1 \in 1..Len(text) + 1 /\ p \in 1 - 1..Len(text) /\ text \in Seq(Byte)
    BY <1>2 DEF Text
  <2>2. SubSeq(text, 1, p) \o SubSeq(text, p + 1, p + l) = SubSeq(text, 1, p + l)
    BY <1>8, <2>1, ConcatAdjacentSubSeq
  <2> QED BY <1>2, <1>6, <1>7, <2>2 DEF Until
<1>10. promoted' \in Text /\ Len(promoted') = p + l
  BY <1>8, <1>9, RestOfText
<1> HIDE DEF fresh
<1>11. /\ backlog' \in Spans /\ nextSpan' \in Nat /\ NumberedInOrder'
       /\ Len(backlog') >= Len(backlog)
       /\ \A k \in 1..Len(backlog) : /\ backlog'[k] = backlog[k]
                                     /\ SubSeq(backlog', 1, k) = SubSeq(backlog, 1, k)
  <2>1. Chunks(fresh) \in Seq(Text)
    BY <1>3, ChunksOfText
  <2> QED BY <1>1, <1>6, <2>1, AddSpansFollow
<1>12. Letters(Joined(backlog')) = Letters(Joined(backlog)) \o Letters(piece)
  BY <1>1, <1>3, <1>6, AddSpansLetters DEF piece, l
<1>13. Letters(promoted') = Letters(promoted) \o Letters(piece)
  BY <1>1, <1>5, <1>6, LettersConcat
<1>14. Letters(covered) \o Letters(Joined(backlog)) = Letters(finished) \o Letters(promoted)
  BY DEF RegionsInv, SpansAccount
<1>15. Letters(covered) \o Letters(Joined(backlog')) = Letters(finished) \o Letters(promoted')
  <2> DEFINE a == Letters(covered)
             b == Letters(Joined(backlog))
             c == Letters(piece)
             d == Letters(finished)
             e == Letters(promoted)
  <2>1. a \in Text /\ b \in Text /\ c \in Text /\ d \in Text /\ e \in Text
    BY <1>1, <1>5, JoinedType, LettersType
  <2>2. Letters(Joined(backlog')) = b \o c /\ Letters(promoted') = e \o c /\ a \o b = d \o e
    BY <1>12, <1>13, <1>14
  <2> HIDE DEF a, b, c, d, e
  <2>3. (a \o b) \o c = a \o (b \o c) /\ (d \o e) \o c = d \o (e \o c)
    BY <2>1, TextConcat, ZenonT(60)
  <2>4. a \o (b \o c) = d \o (e \o c)
    BY <2>2, <2>3
  <2> QED BY <2>2, <2>4 DEF a, d
<1> QED
  BY <1>8, <1>9, <1>10, <1>11, <1>15

LEMMA ExtendsStep ==
  ASSUME RegionsInv, Update, NEW text \in Hypotheses, UpdateExtends(text), current' = text
  PROVE  RegionsInv'
<1> USE DEF RegionsInv
<1>1. text \in Text
  BY HypothesisPaired
<1>2. /\ promoted \in Text /\ recent \in Seq(Text) /\ backlog \in Spans
      /\ nextSpan \in Nat /\ NumberedInOrder
  BY DEF TextsHold, CountersHold
<1>3. ~Revises(text) /\ recent' = Remember(text) /\ suffix' = From(text, Len(promoted')) /\ safe' = safe
  BY DEF UpdateExtends
<1>4. UNCHANGED <<frozen, editable, revision, covered, rewritten, finished, generation, held>>
  BY DEF Update, tail
<1>5. recent' \in Seq(Text) /\ Last(recent') = text
  BY <1>1, <1>2, <1>3, RememberedTexts
<1>6. /\ backlog' \in Spans /\ nextSpan' \in Nat /\ NumberedInOrder'
      /\ Len(backlog') >= Len(backlog)
      /\ \A k \in 1..Len(backlog) : /\ backlog'[k] = backlog[k]
                                    /\ SubSeq(backlog', 1, k) = SubSeq(backlog, 1, k)
      /\ promoted' \in Text
      /\ Len(promoted') \in 0..Len(text) /\ promoted' = Until(text, Len(promoted'))
      /\ safe => Letters(covered') \o Letters(Joined(backlog')) = Letters(finished') \o Letters(promoted')
  <2>1. CASE safe /\ Len(recent') = MinimumHypotheses /\ Confirmed(recent') > Len(promoted)
    <3>1. PromoteThrough(text, Confirmed(recent'))
      BY <2>1 DEF UpdateExtends
    <3>2. Confirmed(recent') \in 0..Len(text)
      BY <1>1, <1>5, ConfirmedRange
    <3> QED BY <1>1, <1>3, <1>4, <2>1, <3>1, <3>2, PromoteMoves
  <2>2. CASE ~(safe /\ Len(recent') = MinimumHypotheses /\ Confirmed(recent') > Len(promoted))
    <3>1. UNCHANGED <<backlog, promoted, nextSpan>>
      BY <2>2 DEF UpdateExtends
    <3>2. Len(promoted) \in 0..Len(text) /\ promoted = Until(text, Len(promoted))
      BY <1>1, <1>2, <1>3, PromotedPrefix
    <3>3. Len(backlog') >= Len(backlog)
      BY <1>2, <3>1, SpanTypes
    <3>4. NumberedInOrder'
      BY <1>2, <3>1 DEF NumberedInOrder
    <3>5. safe => Letters(covered') \o Letters(Joined(backlog')) = Letters(finished') \o Letters(promoted')
      BY <1>4, <3>1 DEF SpansAccount
    <3> QED BY <1>2, <3>1, <3>2, <3>3, <3>4, <3>5
  <2> QED BY <2>1, <2>2
<1>7. suffix' \in Text /\ promoted' \o suffix' = text
  BY <1>1, <1>3, <1>6, RestOfText
<1>8. segment' \in [open : BOOLEAN, count : Nat, updates : Nat] /\ segment'.open
  BY OpenStays DEF Update
<1>9. TextsHold'
  BY <1>1, <1>4, <1>5, <1>6, <1>7 DEF TextsHold
<1>10. OutputHolds' /\ CountersHold'
  BY <1>3, <1>4, <1>6, <1>8 DEF OutputHolds, CountersHold
<1>11. NothingOpen'
  BY <1>8 DEF NothingOpen
<1>12. PromotedBegins' /\ SpansAccount'
  BY <1>3, <1>6, <1>7 DEF PromotedBegins, SpansAccount
<1>13. TailIsRaw'
  BY <1>3, <1>4 DEF TailIsRaw
<1>14. SnapshotsStand'
  BY <1>2, <1>3, <1>4, <1>6, SnapshotsStay
<1> QED
  BY <1>6, <1>9, <1>10, <1>11, <1>12, <1>13, <1>14

LEMMA UpdateStep == ASSUME RegionsInv, Update PROVE RegionsInv'
<1>1. PICK text \in Hypotheses : (UpdateRevised(text) \/ UpdateExtends(text)) /\ current' = text
  BY DEF Update
<1>2. CASE UpdateRevised(text)
  BY <1>1, <1>2, RevisedStep
<1>3. CASE UpdateExtends(text)
  BY <1>1, <1>3, ExtendsStep
<1> QED
  BY <1>1, <1>2, <1>3

LEMMA FinalizeStep == ASSUME RegionsInv, Finalize PROVE RegionsInv'
<1> USE DEF RegionsInv
<1>1. PICK text \in Hypotheses :
        /\ IF Revises(text)
           THEN safe' = FALSE /\ backlog' = <<>> /\ UNCHANGED nextSpan
           ELSE /\ AddSpans(IF safe THEN Chunks(From(text, Len(promoted))) ELSE <<>>)
                /\ UNCHANGED safe
        /\ finished' = AppendText(finished, text)
  BY DEF Finalize
<1>2. text \in Text /\ Paired(text)
  BY HypothesisPaired
<1>3. /\ promoted \in Text /\ covered \in Text /\ finished \in Text /\ backlog \in Spans
      /\ nextSpan \in Nat /\ NumberedInOrder
  BY DEF TextsHold, CountersHold
<1>4. current' = <<>> /\ recent' = <<>> /\ suffix' = <<>> /\ promoted' = <<>>
  BY DEF Finalize
<1>5. UNCHANGED <<frozen, editable, revision, covered, rewritten, generation, held>>
  BY DEF Finalize, tail
<1>6. segment' \in [open : BOOLEAN, count : Nat, updates : Nat]
  BY DEF Finalize, CountersHold
<1>7. <<>> \in Text /\ <<>> \in Seq(Text) /\ <<>> \in Spans /\ <<>> \o <<>> = <<>>
  BY TextConcat DEF Spans
<1>8. finished' \in Text /\ Letters(finished') = Letters(finished) \o Letters(text)
  BY <1>1, <1>2, <1>3, LettersAppendText
<1>9. /\ backlog' \in Spans /\ nextSpan' \in Nat /\ NumberedInOrder' /\ safe' \in BOOLEAN
      /\ safe' => safe
      /\ safe' => /\ Len(backlog') >= Len(backlog)
                  /\ \A k \in 1..Len(backlog) : /\ backlog'[k] = backlog[k]
                                                /\ SubSeq(backlog', 1, k) = SubSeq(backlog, 1, k)
      /\ safe' => Letters(covered) \o Letters(Joined(backlog')) = Letters(finished')
  <2>1. CASE Revises(text)
    <3>1. safe' = FALSE /\ backlog' = <<>> /\ nextSpan' = nextSpan
      BY <1>1, <2>1
    <3>2. NumberedInOrder'
      BY <3>1 DEF NumberedInOrder
    <3> QED BY <1>3, <1>7, <3>1, <3>2
  <2>2. CASE ~Revises(text) /\ safe
    <3> DEFINE p == Len(promoted)
               rest == From(text, p)
    <3>1. p \in 0..Len(text) /\ promoted = Until(text, p)
      BY <1>2, <1>3, <2>2, PromotedPrefix
    <3>2. AddSpans(Chunks(rest)) /\ safe' = safe
      BY <1>1, <2>2
    <3> HIDE DEF p
    <3>3. rest \in Text /\ Paired(rest) /\ promoted \o rest = text
      BY <1>2, <3>1, RestOfText
    <3>4. Chunks(rest) \in Seq(Text) /\ Last(Cuts(rest)) = Len(rest)
      BY <3>3, ChunksOfText, CutsList
    <3> HIDE DEF rest
    <3>5. /\ backlog' \in Spans /\ nextSpan' \in Nat /\ NumberedInOrder'
          /\ Len(backlog') >= Len(backlog)
          /\ \A k \in 1..Len(backlog) : /\ backlog'[k] = backlog[k]
                                        /\ SubSeq(backlog', 1, k) = SubSeq(backlog, 1, k)
      BY <1>3, <3>2, <3>4, AddSpansFollow
    <3>6. Letters(Joined(backlog')) = Letters(Joined(backlog)) \o Letters(rest)
      <4>1. Until(rest, Len(rest)) = rest
        BY <3>3, SubSeqFull DEF Until, Text
      <4>2. Letters(Joined(backlog')) =
              Letters(Joined(backlog)) \o Letters(Until(rest, Last(Cuts(rest))))
        BY <1>3, <3>2, <3>3, AddSpansLetters
      <4> QED BY <4>1, <4>2, <3>4
    <3>7. Letters(text) = Letters(promoted) \o Letters(rest)
      BY <1>3, <3>3, LettersConcat
    <3>8. Letters(covered) \o Letters(Joined(backlog)) = Letters(finished) \o Letters(promoted)
      BY <2>2 DEF SpansAccount
    <3>9. Letters(covered) \o Letters(Joined(backlog')) = Letters(finished')
      <4> DEFINE a == Letters(covered)
                 b == Letters(Joined(backlog))
                 c == Letters(rest)
                 d == Letters(finished)
                 e == Letters(promoted)
      <4>1. a \in Text /\ b \in Text /\ c \in Text /\ d \in Text /\ e \in Text
        BY <1>3, <3>3, JoinedType, LettersType
      <4>2. Letters(Joined(backlog')) = b \o c /\ Letters(finished') = d \o (e \o c) /\ a \o b = d \o e
        BY <1>8, <3>6, <3>7, <3>8
      <4> HIDE DEF a, b, c, d, e
      <4>3. (a \o b) \o c = a \o (b \o c) /\ (d \o e) \o c = d \o (e \o c)
        BY <4>1, TextConcat, ZenonT(60)
      <4>4. a \o (b \o c) = d \o (e \o c)
        BY <4>2, <4>3
      <4> QED BY <4>2, <4>4 DEF a
    <3> QED BY <2>2, <3>2, <3>5, <3>9
  <2>3. CASE ~Revises(text) /\ ~safe
    <3>1. AddSpans(<<>>) /\ safe' = safe
      BY <1>1, <2>3
    <3>2. backlog' \in Spans /\ nextSpan' \in Nat /\ NumberedInOrder'
      BY <1>3, <1>7, <3>1, AddSpansFollow
    <3>3. safe' \in BOOLEAN /\ ~safe'
      BY <2>3, <3>1 DEF CountersHold
    <3> QED BY <3>2, <3>3
  <2>4. safe \in BOOLEAN
    BY DEF CountersHold
  <2> QED BY <2>1, <2>2, <2>3, <2>4
<1>10. TextsHold'
  BY <1>3, <1>4, <1>5, <1>7, <1>8, <1>9 DEF TextsHold
<1>11. OutputHolds' /\ CountersHold'
  BY <1>5, <1>6, <1>9 DEF OutputHolds, CountersHold
<1>12. NothingOpen' /\ PromotedBegins'
  BY <1>4, <1>7 DEF NothingOpen, PromotedBegins
<1>13. SpansAccount'
  <2>1. Letters(finished') \o Letters(promoted') = Letters(finished')
    BY <1>4, <1>8, LettersEmpty, LettersType, TextConcat
  <2> QED BY <1>5, <1>9, <2>1 DEF SpansAccount
<1>14. TailIsRaw'
  BY <1>5, <1>9 DEF TailIsRaw
<1>15. SnapshotsStand'
  BY <1>3, <1>5, <1>9, SnapshotsStay
<1> QED
  BY <1>9, <1>10, <1>11, <1>12, <1>13, <1>14, <1>15

\* A commit takes the spans its snapshot was made of.
LEMMA CommitSplits ==
  ASSUME RegionsInv, NEW s \in held, CanCommit(s), ConsumeStableSpans(s)
  PROVE  \E k \in 1..Len(backlog) :
           backlog' = From(backlog, k) /\ s.new = Joined(SubSeq(backlog, 1, k))
<1> USE DEF RegionsInv
<1>1. s.generation = generation /\ s.revision = revision /\ safe
  BY DEF CanCommit
<1>2. PICK k \in 1..Len(backlog) : backlog[k].id = s.last /\ s.new = Joined(SubSeq(backlog, 1, k))
  BY <1>1 DEF SnapshotsStand, SnapshotStands
<1>3. PICK j \in DOMAIN backlog : backlog[j].id = s.last /\ backlog' = From(backlog, j)
  BY DEF ConsumeStableSpans
<1>4. Len(backlog) \in Nat /\ DOMAIN backlog = 1..Len(backlog) /\ nextSpan \in Nat
  BY SpanTypes DEF TextsHold, CountersHold
<1>5. j = k
  <2> DEFINE m == Len(backlog)
  <2>1. j \in 1..m /\ k \in 1..m
    BY <1>3, <1>4
  <2>2. backlog[j].id = nextSpan - m + j - 1 /\ backlog[k].id = nextSpan - m + k - 1
    BY <2>1 DEF NumberedInOrder
  <2>3. m \in Nat
    BY <1>4
  <2> HIDE DEF m
  <2>4. nextSpan - m + j - 1 = nextSpan - m + k - 1
    BY <1>2, <1>3, <2>2
  <2> QED BY <2>1, <2>3, <2>4, <1>4
<1> QED
  BY <1>2, <1>3, <1>5

\* A commit keeps the invariant, whatever replaces the tail; with the tail and
\* the new text themselves it also keeps the output raw.
LEMMA ReplaceStep ==
  ASSUME RegionsInv, NEW s \in held, CanCommit(s), NEW text, ReplaceTail(s, text),
         rewritten' \in BOOLEAN,
         ~rewritten' => ~rewritten /\ text = AppendText(editable, s.new)
  PROVE  RegionsInv'
<1> USE DEF RegionsInv
<1>1. /\ ConsumeStableSpans(s) /\ revision' = revision + 1 /\ FreezeOldEditable(text)
      /\ covered' = AppendText(covered, s.new)
      /\ UNCHANGED <<suffix, finished, current, recent, promoted, safe, generation, nextSpan,
                     held, segment>>
  BY DEF ReplaceTail, asr
<1>2. PICK k \in 1..Len(backlog) : backlog' = From(backlog, k) /\ s.new = Joined(SubSeq(backlog, 1, k))
  BY <1>1, CommitSplits
<1>3. /\ backlog \in Spans /\ covered \in Text /\ finished \in Text /\ promoted \in Text
      /\ Len(backlog) \in Nat /\ nextSpan \in Nat
  BY SpanTypes DEF TextsHold, CountersHold
<1> DEFINE m == Len(backlog)
           done == SubSeq(backlog, 1, k)
<1>4. k \in 0..m
  BY <1>3
<1>5. /\ done \in Spans /\ backlog' \in Spans /\ Len(backlog') = m - k
      /\ \A j \in 1..m - k : backlog'[j] = backlog[k + j]
      /\ done \o backlog' = backlog
  BY <1>2, <1>3, <1>4, SplitSpans
<1> HIDE DEF done
<1>6. s.new = Joined(done) /\ s.new \in Text
  BY <1>2, <1>5, JoinedType DEF done
<1>7. covered' \in Text /\ Letters(covered') = Letters(covered) \o Letters(s.new)
  BY <1>1, <1>3, <1>6, LettersAppendText
<1>8. NumberedInOrder'
  <2>1. \A j \in 1..m : backlog[j].id = nextSpan - m + j - 1
    BY DEF NumberedInOrder
  <2>2. m \in Nat /\ k \in 1..m
    BY <1>3
  <2> HIDE DEF m
  <2>3. ASSUME NEW j \in 1..m - k PROVE backlog'[j].id = nextSpan - (m - k) + j - 1
    <3>1. k + j \in 1..m /\ nextSpan - m + (k + j) - 1 = nextSpan - (m - k) + j - 1
      BY <1>3, <2>2
    <3> QED BY <3>1, <2>1, <1>5
  <2> QED BY <2>3, <1>1, <1>5 DEF NumberedInOrder
<1>9. Letters(Joined(backlog)) = Letters(Joined(done)) \o Letters(Joined(backlog'))
  BY <1>5, JoinedConcat
<1>10. SpansAccount'
  <2>1. SUFFICES ASSUME safe
                 PROVE  Letters(covered') \o Letters(Joined(backlog')) = Letters(finished) \o Letters(promoted)
    BY <1>1 DEF SpansAccount
  <2>2. Letters(covered) \o Letters(Joined(backlog)) = Letters(finished) \o Letters(promoted)
    BY <2>1 DEF SpansAccount
  <2> DEFINE a == Letters(covered)
             b == Letters(Joined(done))
             c == Letters(Joined(backlog'))
  <2>3. a \in Text /\ b \in Text /\ c \in Text
    BY <1>3, <1>5, JoinedType, LettersType
  <2>4. Letters(covered') = a \o b /\ Letters(Joined(backlog)) = b \o c
    BY <1>6, <1>7, <1>9
  <2> HIDE DEF a, b, c
  <2>5. (a \o b) \o c = a \o (b \o c)
    BY <2>3, TextConcat, Zenon
  <2> QED BY <2>2, <2>4, <2>5 DEF a, c
<1>11. TextsHold'
  BY <1>1, <1>5, <1>7 DEF TextsHold
<1>12. CountersHold'
  BY <1>1 DEF CountersHold
<1>13. NothingOpen' /\ PromotedBegins'
  BY <1>1 DEF NothingOpen, PromotedBegins
<1>14. OutputHolds' /\ TailIsRaw'
  <2>1. CASE rewritten'
    BY <2>1 DEF OutputHolds, TailIsRaw
  <2>2. CASE ~rewritten'
    <3>1. frozen \in Text /\ editable \in Text /\ text = AppendText(editable, s.new)
      BY <2>2 DEF OutputHolds
    <3>2. text \in Text /\ Letters(text) = Letters(editable) \o Letters(s.new)
      BY <3>1, <1>6, LettersAppendText
    <3> DEFINE split == EditableSuffixStart(text, EditableTokens)
               old == Until(text, split)
               new == From(text, split)
    <3>3. split \in 0..Len(text)
      BY <3>2, EditableStartRange
    <3>4. frozen' = AppendText(frozen, old) /\ editable' = new
      BY <1>1 DEF FreezeOldEditable
    <3> HIDE DEF split
    <3>5. old \in Text /\ new \in Text /\ old \o new = text
      BY <3>2, <3>3, RestOfText
    <3> HIDE DEF old, new
    <3>6. frozen' \in Text /\ Letters(frozen') = Letters(frozen) \o Letters(old)
      BY <3>1, <3>4, <3>5, LettersAppendText
    <3>7. Letters(text) = Letters(old) \o Letters(new)
      BY <3>5, LettersConcat
    <3>8. OutputHolds'
      BY <3>4, <3>5, <3>6 DEF OutputHolds
    <3>9. safe => Letters(frozen') \o Letters(editable') = Letters(covered')
      <4> SUFFICES ASSUME safe PROVE Letters(frozen') \o Letters(editable') = Letters(covered')
        OBVIOUS
      <4>1. Letters(frozen) \o Letters(editable) = Letters(covered)
        BY <2>2 DEF TailIsRaw
      <4> DEFINE a == Letters(frozen)
                 b == Letters(editable)
                 c == Letters(s.new)
                 d == Letters(old)
                 e == Letters(new)
      <4>2. a \in Text /\ b \in Text /\ c \in Text /\ d \in Text /\ e \in Text
        BY <3>1, <3>5, <1>6, LettersType
      <4>3. /\ Letters(frozen') = a \o d /\ Letters(editable') = e
            /\ d \o e = b \o c /\ Letters(covered') = (a \o b) \o c
        BY <1>7, <3>2, <3>4, <3>6, <3>7, <4>1
      <4> HIDE DEF a, b, c, d, e
      <4>4. (a \o d) \o e = a \o (d \o e) /\ (a \o b) \o c = a \o (b \o c)
        BY <4>2, TextConcat, Zenon
      <4> QED BY <4>3, <4>4
    <3> QED BY <1>1, <3>8, <3>9 DEF TailIsRaw
  <2> QED BY <2>1, <2>2
<1>15. SnapshotsStand'
  <2> SUFFICES ASSUME NEW t \in held PROVE SnapshotStands(t)'
    BY <1>1 DEF SnapshotsStand
  <2>1. SnapshotStands(t) /\ revision \in Nat /\ generation \in Nat
    BY DEF SnapshotsStand, CountersHold
  <2>2. /\ t.generation \in Nat /\ t.revision \in Nat /\ t.new \in Text
        /\ t.generation <= generation /\ (t.generation = generation => t.revision <= revision)
    BY <2>1 DEF SnapshotStands
  <2>3. t.generation = generation => t.revision <= revision + 1 /\ t.revision # revision + 1
    BY <2>1, <2>2
  <2> QED BY <2>2, <2>3, <1>1 DEF SnapshotStands
<1> QED
  BY <1>8, <1>10, <1>11, <1>12, <1>13, <1>14, <1>15

LEMMA CommitStep == ASSUME RegionsInv, Commit \/ PreserveRaw PROVE RegionsInv'
<1>1. rewritten \in BOOLEAN
  BY DEF RegionsInv, OutputHolds
<1>2. CASE Commit
  <2>0. PICK s \in held : \E text \in Replacements(s) :
          /\ CanCommit(s)
          /\ IF Acceptable(s, text)
             THEN ReplaceTail(s, text) /\ rewritten' = TRUE
             ELSE ReplaceTail(s, AppendText(editable, s.new)) /\ UNCHANGED rewritten
    BY <1>2 DEF Commit
  <2>1. PICK text \in Replacements(s) :
          /\ CanCommit(s)
          /\ IF Acceptable(s, text)
             THEN ReplaceTail(s, text) /\ rewritten' = TRUE
             ELSE ReplaceTail(s, AppendText(editable, s.new)) /\ UNCHANGED rewritten
    BY <2>0
  <2>2. CASE Acceptable(s, text)
    BY <2>1, <2>2, ReplaceStep
  <2>3. CASE ~Acceptable(s, text)
    BY <1>1, <2>1, <2>3, ReplaceStep
  <2> QED BY <2>2, <2>3
<1>3. CASE PreserveRaw
  BY <1>1, <1>3, ReplaceStep DEF PreserveRaw
<1> QED
  BY <1>2, <1>3

-----------------------------------------------------------------------------
LEMMA InvNext == ASSUME RegionsInv, [TranscriptNext]_vars PROVE RegionsInv'
<1>1. CASE Reset
  BY <1>1, ResetStep
<1>2. CASE BeginSegment
  BY <1>2, BeginStep
<1>3. CASE Update
  BY <1>3, UpdateStep
<1>4. CASE Finalize
  BY <1>4, FinalizeStep
<1>5. CASE MakeSnapshot \/ DropSnapshot
  BY <1>5, SnapshotStep
<1>6. CASE Commit \/ PreserveRaw
  BY <1>6, CommitStep
<1>7. CASE UNCHANGED vars
  <2>1. UNCHANGED <<frozen, editable, backlog, suffix, finished, current, recent, promoted>>
    BY <1>7 DEF vars
  <2>2. UNCHANGED <<safe, generation, revision, nextSpan, held, segment, covered, rewritten>>
    BY <1>7 DEF vars
  <2>3. TextsHold' /\ OutputHolds' /\ CountersHold'
    BY <2>1, <2>2 DEF RegionsInv, TextsHold, OutputHolds, CountersHold
  <2>4. NothingOpen' /\ PromotedBegins' /\ NumberedInOrder'
    BY <2>1, <2>2 DEF RegionsInv, NothingOpen, PromotedBegins, NumberedInOrder
  <2>5. SpansAccount' /\ TailIsRaw'
    BY <2>1, <2>2 DEF RegionsInv, SpansAccount, TailIsRaw
  <2>6. SnapshotsStand'
    BY <2>1, <2>2 DEF RegionsInv, SnapshotsStand, SnapshotStands
  <2> QED BY <2>3, <2>4, <2>5, <2>6 DEF RegionsInv
<1> QED
  BY <1>1, <1>2, <1>3, <1>4, <1>5, <1>6, <1>7 DEF TranscriptNext

\* The invariant holds throughout: whatever hypotheses the recognizer reports,
\* whatever replacements a caller commits, and whenever it commits them.
THEOREM RegionsInvariant == TranscriptSpec => []RegionsInv
<1>1. TranscriptInit => RegionsInv
  BY InvInit
<1>2. RegionsInv /\ [TranscriptNext]_vars => RegionsInv'
  BY InvNext
<1> QED
  BY <1>1, <1>2, PTL DEF TranscriptSpec

\* Promotion, finalization, commits and late answers lose no word and double
\* none: the cleaned regions stand for raw text that, with the spans and the
\* unstable rest, is all that was recognized.
THEOREM NoWordIsLost == TranscriptSpec => []RegionsCoverRaw
<1>1. RegionsInv => RegionsCoverRaw
  <2> SUFFICES ASSUME RegionsInv, safe
               PROVE  Letters(covered \o Joined(backlog) \o suffix) = Letters(RawText)
    BY DEF RegionsCoverRaw
  <2> USE DEF RegionsInv
  <2> DEFINE a == Letters(covered)
             j == Joined(backlog)
             b == Letters(j)
             c == Letters(suffix)
             d == Letters(finished)
             e == Letters(promoted)
  <2>1. /\ covered \in Text /\ suffix \in Text /\ finished \in Text /\ promoted \in Text
        /\ current \in Text /\ j \in Text
    BY JoinedType DEF TextsHold
  <2>2. a \in Text /\ b \in Text /\ c \in Text /\ d \in Text /\ e \in Text
    BY <2>1, LettersType
  <2>3. a \o b = d \o e /\ current = promoted \o suffix
    BY DEF SpansAccount, PromotedBegins
  <2>4. Letters((covered \o j) \o suffix) = (a \o b) \o c
    <3>1. covered \o j \in Text /\ Letters(covered \o j) = a \o b
      BY <2>1, LettersConcat, TextConcat
    <3>2. Letters((covered \o j) \o suffix) = Letters(covered \o j) \o c
      BY <2>1, <3>1, LettersConcat
    <3> QED BY <3>1, <3>2
  <2>5. Letters(RawText) = d \o (e \o c)
    <3>1. Letters(current) = e \o c
      BY <2>1, <2>3, LettersConcat
    <3>2. Letters(RawText) = d \o Letters(current)
      BY <2>1, LettersAppendText DEF RawText
    <3> QED BY <3>1, <3>2
  <2> HIDE DEF a, b, c, d, e
  <2>6. (d \o e) \o c = d \o (e \o c)
    BY <2>2, TextConcat, Zenon
  <2> QED BY <2>3, <2>4, <2>5, <2>6
<1> QED
  BY <1>1, RegionsInvariant, PTL

\* Until an answer of the model is taken, what is composed is what was said,
\* also when a revision made cleanup unsafe.
THEOREM ComposedAsSaid == TranscriptSpec => []UnrewrittenIsRaw
<1>1. RegionsInv => UnrewrittenIsRaw
  <2> SUFFICES ASSUME RegionsInv, ~rewritten PROVE Letters(ComposedText) = Letters(RawText)
    BY DEF UnrewrittenIsRaw
  <2> USE DEF RegionsInv
  <2>1. CASE ~safe
    BY <2>1 DEF ComposedText
  <2>2. CASE safe
    <3> DEFINE f == Letters(frozen)
               g == Letters(editable)
               j == Joined(backlog)
               b == Letters(j)
               c == Letters(suffix)
               d == Letters(finished)
               e == Letters(promoted)
               one == AppendText(frozen, editable)
               two == AppendText(one, j)
    <3>1. /\ suffix \in Text /\ finished \in Text /\ promoted \in Text /\ current \in Text /\ j \in Text
          /\ frozen \in Text /\ editable \in Text
      BY JoinedType DEF TextsHold, OutputHolds
    <3>2. f \in Text /\ g \in Text /\ b \in Text /\ c \in Text /\ d \in Text /\ e \in Text
      BY <3>1, LettersType
    <3>3. (f \o g) \o b = d \o e /\ current = promoted \o suffix
      BY <2>2 DEF SpansAccount, PromotedBegins, TailIsRaw
    <3>4. one \in Text /\ Letters(one) = f \o g
      BY <3>1, LettersAppendText
    <3>5. ComposedText = AppendText(two, suffix)
      BY <2>2 DEF ComposedText
    <3> HIDE DEF one
    <3>6. two \in Text /\ Letters(two) = (f \o g) \o b
      BY <3>1, <3>4, LettersAppendText
    <3> HIDE DEF two
    <3>7. Letters(ComposedText) = ((f \o g) \o b) \o c
      BY <3>1, <3>5, <3>6, LettersAppendText
    <3>8. Letters(RawText) = d \o (e \o c)
      <4>1. Letters(current) = e \o c
        BY <3>1, <3>3, LettersConcat
      <4>2. Letters(RawText) = d \o Letters(current)
        BY <3>1, LettersAppendText DEF RawText
      <4> QED BY <4>1, <4>2
    <3> HIDE DEF b, c, d, e, f, g
    <3>9. (d \o e) \o c = d \o (e \o c)
      BY <3>2, TextConcat, ZenonT(60)
    <3> QED BY <3>3, <3>7, <3>8, <3>9
  <2> QED BY <2>1, <2>2
<1> QED
  BY <1>1, RegionsInvariant, PTL

\* Only a commit advances the revision, and it takes exactly the spans its
\* snapshot was made of, however late it comes and however often.
THEOREM LateAnswersChangeNothing == TranscriptSpec => CommitsWhatWasAsked
<1> DEFINE Asked ==
      revision' > revision =>
        \E k \in DOMAIN backlog :
          /\ backlog' = From(backlog, k)
          /\ covered' = AppendText(covered, Joined(SubSeq(backlog, 1, k)))
<1>1. ASSUME RegionsInv, [TranscriptNext]_vars PROVE [Asked]_vars
  <2>1. revision \in Nat /\ backlog \in Spans /\ DOMAIN backlog = 1..Len(backlog)
    BY <1>1, SpanTypes DEF RegionsInv, CountersHold, TextsHold
  <2>2. CASE Reset
    BY <2>1, <2>2 DEF Reset
  <2>3. CASE BeginSegment \/ Update \/ Finalize \/ MakeSnapshot \/ DropSnapshot
    <3>1. revision' = revision
      BY <2>3 DEF BeginSegment, Update, Finalize, MakeSnapshot, DropSnapshot, tail
    <3> QED BY <2>1, <3>1
  <2>4. CASE Commit \/ PreserveRaw
    <3>1. PICK s \in held : CanCommit(s) /\ \E text : ReplaceTail(s, text)
      BY <2>4 DEF Commit, PreserveRaw
    <3>2. ConsumeStableSpans(s) /\ covered' = AppendText(covered, s.new)
      BY <3>1 DEF ReplaceTail
    <3>3. \E k \in 1..Len(backlog) :
            backlog' = From(backlog, k) /\ s.new = Joined(SubSeq(backlog, 1, k))
      BY <1>1, <3>1, <3>2, CommitSplits
    <3> QED BY <2>1, <3>2, <3>3
  <2> QED BY <1>1, <2>2, <2>3, <2>4 DEF TranscriptNext
<1> QED
  BY <1>1, RegionsInvariant, PTL DEF CommitsWhatWasAsked, TranscriptSpec

-----------------------------------------------------------------------------
(* Characters *)

\* An offset that cuts no character.
WholeAt(text, n) == n \in 0..Len(text) /\ Whole(text, n)

\* Between two such offsets a well-formed text is well-formed.
LEMMA PartWellFormed ==
  ASSUME NEW text \in Text, WellFormed(text), NEW a, WholeAt(text, a), NEW b, WholeAt(text, b), a <= b
  PROVE  /\ SubSeq(text, a + 1, b) \in Text /\ Len(SubSeq(text, a + 1, b)) = b - a
         /\ WellFormed(SubSeq(text, a + 1, b))
<1> DEFINE part == SubSeq(text, a + 1, b)
           L == Len(text)
           n == b - a
<1>1. L \in Nat /\ DOMAIN text = 1..L /\ \A i \in 1..L : text[i] \in Byte
  BY DEF Text
<1>2. a \in 0..L /\ b \in 0..L /\ Whole(text, a) /\ Whole(text, b)
  BY DEF WholeAt
<1>3. /\ part \in Seq(Byte)
      /\ Len(part) = IF a + 1 <= b THEN b - (a + 1) + 1 ELSE 0
      /\ \A i \in 1..b - (a + 1) + 1 : part[i] = text[a + 1 + i - 1]
  <2>1. a + 1 \in Int /\ b \in Int /\ \A i \in a + 1..b : text[i] \in Byte
    BY <1>1, <1>2
  <2> QED BY <2>1, SubSeqProperties
<1> HIDE DEF part, L
<1>4. n \in Nat /\ a \in Int /\ b \in Int /\ Len(part) = n /\ DOMAIN part = 1..n
  BY <1>1, <1>2, <1>3
<1>5. ASSUME NEW i \in 1..n PROVE part[i] = text[a + i] /\ a + i \in 1..b /\ a + i \in 1..L
  <2>1. i \in 1..b - (a + 1) + 1 /\ a + 1 + i - 1 = a + i /\ a + i \in 1..b /\ a + i \in 1..L
    BY <1>1, <1>2, <1>4
  <2> QED BY <2>1, <1>3
<1>6. ASSUME NEW i \in 1..n, part[i] = "<" PROVE i < n /\ Continuation(part[i + 1])
  <2>1. text[a + i] = "<" /\ a + i \in 1..L
    BY <1>5, <1>6
  <2>2. a + i < L /\ Continuation(text[(a + i) + 1])
    BY <2>1, <1>1 DEF WellFormed, L
  <2>3. i # n
    <3> SUFFICES ASSUME i = n PROVE FALSE
      OBVIOUS
    <3>1. a + i = b /\ b # 0 /\ b # L
      BY <1>2, <1>4, <2>1, <2>2
    <3>2. ~Continuation(text[b + 1])
      BY <3>1, <1>2 DEF Whole, L
    <3> QED BY <3>1, <3>2, <2>2
  <2>4. i + 1 \in 1..n /\ i < n /\ a + (i + 1) = (a + i) + 1
    BY <2>3, <1>4
  <2>5. part[i + 1] = text[a + (i + 1)]
    BY <2>4, <1>5
  <2> QED BY <2>2, <2>4, <2>5
<1>7. ASSUME NEW i \in 1..n, Continuation(part[i]) PROVE i > 1 /\ part[i - 1] = "<"
  <2>1. Continuation(text[a + i]) /\ a + i \in 1..L
    BY <1>5, <1>7
  <2>2. a + i > 1 /\ text[(a + i) - 1] = "<"
    BY <2>1, <1>1 DEF WellFormed
  <2>3. i # 1
    <3> SUFFICES ASSUME i = 1 PROVE FALSE
      OBVIOUS
    <3>1. a # 0 /\ a # L /\ Continuation(text[a + 1])
      BY <1>2, <1>4, <2>1, <2>2
    <3> QED BY <3>1, <1>2 DEF Whole, L
  <2>4. i - 1 \in 1..n /\ i > 1 /\ a + (i - 1) = (a + i) - 1
    BY <2>3, <1>4
  <2>5. part[i - 1] = text[a + (i - 1)]
    BY <2>4, <1>5
  <2> QED BY <2>2, <2>4, <2>5
<1>8. WellFormed(part)
  BY <1>4, <1>6, <1>7 DEF WellFormed
<1> QED
  BY <1>3, <1>4, <1>8 DEF Text, part

LEMMA SplitWellFormed ==
  ASSUME NEW text \in Text, WellFormed(text), NEW n, WholeAt(text, n)
  PROVE  WellFormed(Until(text, n)) /\ WellFormed(From(text, n))
<1>1. Len(text) \in Nat /\ n \in 0..Len(text)
  BY DEF WholeAt, Text
<1>2. WholeAt(text, 0) /\ WholeAt(text, Len(text))
  BY <1>1 DEF WholeAt, Whole
<1>3. WellFormed(SubSeq(text, 0 + 1, n)) /\ WellFormed(SubSeq(text, n + 1, Len(text)))
  BY <1>1, <1>2, PartWellFormed
<1>4. 0 + 1 = 1
  OBVIOUS
<1> QED
  BY <1>3, <1>4 DEF Until, From

\* After any byte but a lead byte a text can be cut.
LEMMA WholeAfter ==
  ASSUME NEW text \in Text, WellFormed(text), NEW n \in 1..Len(text), text[n] # "<"
  PROVE  WholeAt(text, n)
<1> DEFINE L == Len(text)
<1>1. L \in Nat /\ DOMAIN text = 1..L /\ n \in 1..L
  BY DEF Text
<1> HIDE DEF L
<1>2. ASSUME n # L, Continuation(text[n + 1]) PROVE FALSE
  <2>1. n + 1 \in DOMAIN text /\ (n + 1) - 1 = n
    BY <1>1, <1>2
  <2>2. text[(n + 1) - 1] = "<"
    BY <2>1, <1>2 DEF WellFormed
  <2> QED BY <2>1, <2>2
<1>3. n \in 0..L
  BY <1>1
<1> QED
  BY <1>2, <1>3 DEF WholeAt, Whole, L

LEMMA ConcatWellFormed ==
  ASSUME NEW s \in Text, WellFormed(s), NEW t \in Text, WellFormed(t)
  PROVE  WellFormed(s \o t)
<1> DEFINE both == s \o t
           m == Len(s)
           n == Len(t)
<1>1. /\ both \in Seq(Byte) /\ Len(both) = m + n
      /\ \A i \in 1..m + n : both[i] = IF i <= m THEN s[i] ELSE t[i - m]
  BY ConcatProperties DEF Text
<1>2. m \in Nat /\ n \in Nat /\ DOMAIN s = 1..m /\ DOMAIN t = 1..n
  BY DEF Text
<1>3. DOMAIN both = 1..m + n
  BY <1>1
<1>4. /\ \A i \in 1..m : (s[i] = "<" => i < m /\ Continuation(s[i + 1]))
                         /\ (Continuation(s[i]) => i > 1 /\ s[i - 1] = "<")
      /\ \A i \in 1..n : (t[i] = "<" => i < n /\ Continuation(t[i + 1]))
                         /\ (Continuation(t[i]) => i > 1 /\ t[i - 1] = "<")
  BY <1>2 DEF WellFormed
<1> HIDE DEF both, m, n
<1>5. ASSUME NEW i \in 1..m + n
      PROVE  /\ both[i] = "<" => i < m + n /\ Continuation(both[i + 1])
             /\ Continuation(both[i]) => i > 1 /\ both[i - 1] = "<"
  <2>1. CASE i <= m
    <3>1. i \in 1..m /\ both[i] = s[i]
      BY <2>1, <1>1, <1>2
    <3>2. both[i] = "<" => i < m + n /\ Continuation(both[i + 1])
      <4> SUFFICES ASSUME both[i] = "<" PROVE i < m + n /\ Continuation(both[i + 1])
        OBVIOUS
      <4>1. i < m /\ Continuation(s[i + 1])
        BY <3>1, <1>4
      <4>2. i + 1 \in 1..m + n /\ i + 1 <= m /\ i < m + n
        BY <4>1, <1>2
      <4> QED BY <4>1, <4>2, <1>1
    <3>3. Continuation(both[i]) => i > 1 /\ both[i - 1] = "<"
      <4> SUFFICES ASSUME Continuation(both[i]) PROVE i > 1 /\ both[i - 1] = "<"
        OBVIOUS
      <4>1. i > 1 /\ s[i - 1] = "<"
        BY <3>1, <1>4
      <4>2. i - 1 \in 1..m + n /\ i - 1 <= m
        BY <4>1, <2>1, <1>2
      <4> QED BY <4>1, <4>2, <1>1
    <3> QED BY <3>2, <3>3
  <2>2. CASE ~(i <= m)
    <3> DEFINE j == i - m
    <3>1. j \in 1..n /\ both[i] = t[j] /\ i = m + j
      BY <2>2, <1>1, <1>2
    <3> HIDE DEF j
    <3>2. both[i] = "<" => i < m + n /\ Continuation(both[i + 1])
      <4> SUFFICES ASSUME both[i] = "<" PROVE i < m + n /\ Continuation(both[i + 1])
        OBVIOUS
      <4>1. j < n /\ Continuation(t[j + 1])
        BY <3>1, <1>4
      <4>2. i + 1 \in 1..m + n /\ ~(i + 1 <= m) /\ i < m + n /\ (i + 1) - m = j + 1
        BY <4>1, <3>1, <2>2, <1>2
      <4>3. both[i + 1] = t[(i + 1) - m]
        BY <4>2, <1>1
      <4> QED BY <4>1, <4>2, <4>3
    <3>3. Continuation(both[i]) => i > 1 /\ both[i - 1] = "<"
      <4> SUFFICES ASSUME Continuation(both[i]) PROVE i > 1 /\ both[i - 1] = "<"
        OBVIOUS
      <4>1. j > 1 /\ t[j - 1] = "<"
        BY <3>1, <1>4
      <4>2. i - 1 \in 1..m + n /\ ~(i - 1 <= m) /\ i > 1 /\ (i - 1) - m = j - 1
        BY <4>1, <3>1, <1>2
      <4>3. both[i - 1] = t[(i - 1) - m]
        BY <4>2, <1>1
      <4> QED BY <4>1, <4>2, <4>3
    <3> QED BY <3>2, <3>3
  <2> QED BY <2>1, <2>2
<1>6. WellFormed(both)
  BY <1>1, <1>3, <1>5 DEF WellFormed
<1> QED
  BY <1>6 DEF both

LEMMA OneWellFormed ==
  ASSUME NEW b \in Byte, b # "<", ~Continuation(b)
  PROVE  WellFormed(<<b>>)
<1> DEFINE one == <<b>>
<1>1. one \in Text /\ Len(one) = 1 /\ one[1] = b
  BY LetterType
<1> HIDE DEF one
<1>2. \A n \in DOMAIN one : one[n] = b
  <2>1. DOMAIN one = 1..Len(one)
    BY <1>1 DEF Text
  <2>2. \A n \in 1..Len(one) : n = 1
    BY <1>1
  <2> QED BY <1>1, <2>1, <2>2
<1>3. WellFormed(one)
  BY <1>2 DEF WellFormed
<1> QED
  BY <1>3 DEF one

LEMMA AppendWellFormed ==
  ASSUME NEW s \in Text, WellFormed(s), NEW t \in Text, WellFormed(t)
  PROVE  WellFormed(AppendText(s, t))
<1> DEFINE gap == <<"_">>
<1>1. gap \in Text
  <2>1. "_" \in Byte
    BY DEF Byte
  <2> QED BY <2>1, LetterType
<1>2. WellFormed(gap)
  <2>1. "_" \in Byte /\ "_" # "<" /\ ~Continuation("_")
    BY DEF Byte, Continuation
  <2> QED BY <2>1, OneWellFormed
<1> HIDE DEF gap
<1>3. AppendText(s, t) = s \o t \/ AppendText(s, t) = (s \o gap) \o t
  BY DEF AppendText, gap
<1>4. WellFormed(s \o gap) /\ s \o gap \in Text
  BY <1>1, <1>2, ConcatWellFormed, TextConcat
<1>5. WellFormed((s \o gap) \o t) /\ WellFormed(s \o t)
  BY <1>4, ConcatWellFormed
<1> QED
  BY <1>3, <1>5

\* An offset inside a part that begins at a whole offset is whole in the text.
LEMMA WholeInPart ==
  ASSUME NEW text \in Text, NEW n, WholeAt(text, n), NEW m, WholeAt(From(text, n), m)
  PROVE  WholeAt(text, n + m)
<1> DEFINE L == Len(text)
           rest == From(text, n)
<1>1. n \in 0..L /\ Whole(text, n) /\ L \in Nat
  BY DEF WholeAt, Text
<1>2. rest \in Text /\ Len(rest) = L - n
  BY <1>1, RestOfText
<1>3. m \in 0..L - n /\ Whole(rest, m)
  BY <1>2 DEF WholeAt
<1>4. n + m \in 0..L
  <2> HIDE DEF L
  <2> QED BY <1>1, <1>3
<1>5. ASSUME n + m # 0, n + m # L, Continuation(text[(n + m) + 1]) PROVE FALSE
  <2>1. CASE m = 0
    <3>1. n # 0 /\ n # L /\ Continuation(text[n + 1])
      BY <2>1, <1>1, <1>5
    <3> QED BY <3>1, <1>1 DEF Whole
  <2>2. CASE m # 0
    <3>1. m # Len(rest)
      <4> HIDE DEF L, rest
      <4> QED BY <1>1, <1>2, <1>3, <1>5
    <3>2. rest[m + 1] = text[(n + m) + 1]
      <4>1. n + 1 \in Int /\ L \in Int /\ \A i \in n + 1..L : text[i] \in Byte
        BY <1>1 DEF Text
      <4>2. \A i \in 1..L - (n + 1) + 1 : SubSeq(text, n + 1, L)[i] = text[n + 1 + i - 1]
        BY <4>1, SubSeqProperties
      <4>3. m + 1 \in 1..L - (n + 1) + 1 /\ n + 1 + (m + 1) - 1 = (n + m) + 1
        <5> HIDE DEF L, rest
        <5> QED BY <1>1, <1>2, <1>3, <3>1
      <4>4. SubSeq(text, n + 1, L)[m + 1] = text[n + 1 + (m + 1) - 1]
        BY <4>2, <4>3
      <4> QED BY <4>3, <4>4 DEF From
    <3>3. ~Continuation(rest[m + 1])
      BY <2>2, <3>1, <1>3 DEF Whole
    <3> QED BY <3>2, <3>3, <1>5
  <2> QED BY <2>1, <2>2
<1> QED
  BY <1>4, <1>5 DEF WholeAt, Whole

LEMMA SpaceLeadsNothing == \A b : (Space(b) \/ b = "|") => b # "<"
BY DEF Space

LEMMA EdgesWhole ==
  ASSUME NEW text \in Text
  PROVE  WholeAt(text, 0) /\ WholeAt(text, Len(text))
<1>1. Len(text) \in Nat
  BY DEF Text
<1>2. 0 \in 0..Len(text) /\ Len(text) \in 0..Len(text)
  BY <1>1
<1> QED
  BY <1>2 DEF WholeAt, Whole

\* Tokens begin and end between characters.
LEMMA TokensWhole ==
  ASSUME NEW text \in Text, WellFormed(text)
  PROVE  /\ \A n \in Begins(text) : WholeAt(text, n)
         /\ \A n \in Ends(text) : WholeAt(text, n)
<1>1. ASSUME NEW n \in Begins(text) PROVE WholeAt(text, n)
  <2>1. n \in 0..Len(text) - 1 /\ (n = 0 \/ Space(text[n])) /\ Len(text) \in Nat
    BY DEF Begins, Text
  <2>2. CASE n = 0
    BY <2>2, EdgesWhole
  <2>3. CASE n # 0
    <3>1. n \in 1..Len(text) /\ text[n] # "<"
      BY <2>1, <2>3, SpaceLeadsNothing
    <3> QED BY <3>1, WholeAfter
  <2> QED BY <2>2, <2>3
<1>2. ASSUME NEW n \in Ends(text) PROVE WholeAt(text, n)
  <2>1. n \in Begins(text) \/ n = Len(text)
    BY DEF Ends
  <2> QED BY <2>1, <1>1, EdgesWhole
<1> QED
  BY <1>1, <1>2

LEMMA NthEndWhole ==
  ASSUME NEW text \in Text, WellFormed(text), NEW k \in Nat, 1 <= k, k <= TokenCount(text)
  PROVE  WholeAt(text, Nth(k, Ends(text)))
<1>1. /\ Len(text) \in Nat /\ Ends(text) \subseteq 0..Len(text)
      /\ TokenCount(text) \in Nat /\ Cardinality(Ends(text)) = TokenCount(text)
  BY TokenOffsets
<1>2. k \in 1..Cardinality(Ends(text))
  BY <1>1
<1>3. Nth(k, Ends(text)) \in Ends(text)
  BY <1>1, <1>2, NthExists
<1> QED
  BY <1>3, TokensWhole

LEMMA BoundaryWhole ==
  ASSUME NEW text \in Text, WellFormed(text), NEW n
  PROVE  WholeAt(text, TokenBoundaryAtOrBefore(text, n))
<1> DEFINE S == {0} \cup {m \in Ends(text) : m <= n}
<1>1. Len(text) \in Nat /\ Ends(text) \subseteq 0..Len(text)
  BY TokenOffsets
<1>2. S \subseteq 0..Len(text) /\ S # {}
  BY <1>1
<1>3. \A m \in S : m = 0 \/ m \in Ends(text)
  OBVIOUS
<1> HIDE DEF S
<1>4. GreatestOf(S) \in S
  BY <1>1, <1>2, GreatestIsGreatest
<1>5. TokenBoundaryAtOrBefore(text, n) = GreatestOf(S)
  BY DEF TokenBoundaryAtOrBefore, S
<1> QED
  BY <1>3, <1>4, <1>5, EdgesWhole, TokensWhole

LEMMA LastTokensWhole ==
  ASSUME NEW text \in Text, WellFormed(text), NEW k \in Nat \ {0}
  PROVE  WholeAt(text, LastTokens(text, k))
<1>1. Len(text) \in Nat /\ TokenCount(text) \in Nat /\ Begins(text) \subseteq 0..Len(text)
  BY TokenOffsets
<1>2. CASE TokenCount(text) <= k
  BY <1>2, EdgesWhole DEF LastTokens
<1>3. CASE ~(TokenCount(text) <= k)
  <2>1. TokenCount(text) - k + 1 \in 1..TokenCount(text)
    BY <1>1, <1>3
  <2>2. TokenCount(text) - k + 1 \in 1..Cardinality(Begins(text))
    BY <2>1 DEF TokenCount
  <2>3. Nth(TokenCount(text) - k + 1, Begins(text)) \in Begins(text)
    BY <1>1, <2>2, NthExists
  <2>4. LastTokens(text, k) \in Begins(text)
    BY <2>3, <1>3 DEF LastTokens
  <2> QED BY <2>4, TokensWhole
<1> QED
  BY <1>2, <1>3

LEMMA SafeCutWhole ==
  ASSUME NEW text \in Text, NEW n \in Nat, n <= Len(text)
  PROVE  WholeAt(text, SafeCut(text, n))
<1> DEFINE S == {m \in 0..n : Whole(text, m)}
<1>1. 0 \in S /\ S \subseteq 0..n
  BY DEF Whole
<1>2. GreatestOf(S) \in S
  BY <1>1, GreatestIsGreatest
<1>3. SafeCut(text, n) \in 0..n /\ Whole(text, SafeCut(text, n))
  BY <1>2 DEF SafeCut
<1>4. Len(text) \in Nat
  BY DEF Text
<1> QED
  BY <1>3, <1>4 DEF WholeAt

LEMMA SuffixStartWhole ==
  ASSUME NEW text \in Text, NEW limit \in Nat
  PROVE  /\ WholeAt(text, Utf8SafeSuffixStart(text, limit))
         /\ Utf8SafeSuffixStart(text, limit) >= Len(text) - limit
<1>1. Len(text) \in Nat
  BY DEF Text
<1>2. CASE Len(text) <= limit
  <2>1. Utf8SafeSuffixStart(text, limit) = 0
    BY <1>2 DEF Utf8SafeSuffixStart
  <2>2. 0 >= Len(text) - limit
    BY <1>1, <1>2
  <2> QED BY <2>1, <2>2, EdgesWhole
<1>3. CASE ~(Len(text) <= limit)
  <2> DEFINE S == {m \in Len(text) - limit..Len(text) :
                     m = Len(text) \/ ~Continuation(text[m + 1])}
             n == LeastOf(S)
  <2>1. S \subseteq Nat /\ Len(text) \in S
    BY <1>1, <1>3
  <2>2. Utf8SafeSuffixStart(text, limit) = n
    BY <1>3 DEF Utf8SafeSuffixStart
  <2>3. \A m \in S : m \in Len(text) - limit..Len(text) /\ (m = Len(text) \/ ~Continuation(text[m + 1]))
    OBVIOUS
  <2> HIDE DEF S
  <2>4. n \in S
    BY <2>1, LeastIsLeast
  <2>5. n \in Nat /\ n \in Len(text) - limit..Len(text) /\ Whole(text, n)
    BY <2>1, <2>3, <2>4 DEF Whole
  <2> HIDE DEF n
  <2>6. n \in 0..Len(text) /\ n >= Len(text) - limit
    BY <1>1, <2>5
  <2> QED BY <2>2, <2>5, <2>6 DEF WholeAt
<1> QED
  BY <1>2, <1>3

LEMMA SentencesWhole ==
  ASSUME NEW text \in Text, WellFormed(text)
  PROVE  WholeAt(text, LastTwoSentences(text))
<1> DEFINE S == SentenceStarts(text)
<1>1. Len(text) \in Nat
  BY DEF Text
<1>2. S \subseteq 0..Len(text)
  BY <1>1 DEF SentenceStarts
<1>3. ASSUME NEW n \in S PROVE WholeAt(text, n)
  <2>1. n \in 2..Len(text) - 1
    BY DEF SentenceStarts
  <2>2. PICK m \in 1..n - 1 : \A k \in m + 1..n : Space(text[k])
    BY DEF SentenceStarts
  <2>3. n \in m + 1..n /\ n \in 1..Len(text)
    BY <1>1, <2>1
  <2>4. text[n] # "<"
    BY <2>2, <2>3, SpaceLeadsNothing
  <2> QED BY <2>3, <2>4, WholeAfter
<1>4. Cardinality(S) \in Nat
  BY <1>1, <1>2, OffsetsFinite
<1> HIDE DEF S
<1>5. CASE Cardinality(S) < 2
  BY <1>5, EdgesWhole DEF LastTwoSentences, S
<1>6. CASE ~(Cardinality(S) < 2)
  <2>1. Cardinality(S) - 1 \in 1..Cardinality(S)
    BY <1>4, <1>6
  <2>2. Nth(Cardinality(S) - 1, S) \in S
    BY <1>1, <1>2, <2>1, NthExists
  <2>3. LastTwoSentences(text) = Nth(Cardinality(S) - 1, S)
    BY <1>6 DEF LastTwoSentences, S
  <2> QED BY <1>3, <2>2, <2>3
<1> QED
  BY <1>5, <1>6

\* The tail starts between characters and is not much longer than its limit.
LEMMA EditableStartWhole ==
  ASSUME NEW text \in Text
  PROVE  /\ WellFormed(text) => WholeAt(text, EditableSuffixStart(text, EditableTokens))
         /\ EditableSuffixStart(text, EditableTokens) >= Len(text) - MaxEditableBytes - BlankReach
<1> DEFINE a == LastTokens(text, EditableTokens)
           b == LastTwoSentences(text)
           c == Utf8SafeSuffixStart(text, MaxEditableBytes)
           start == GreatestOf({a, b, c})
           L == Len(text)
           feeds == {n \in 0..start : n < L /\ text[n + 1] = "|"}
           blanks == {n \in feeds : n + 1 < L /\ text[n + 2] = "|"}
<1>1. /\ L \in Nat /\ MaxEditableBytes \in Nat /\ BlankReach \in Nat
      /\ LineReach \in Nat /\ LineReach <= BlankReach
  BY TranscriptAssumption DEF Text
<1>2. a \in 0..L /\ b \in 0..L /\ c \in 0..L
  BY LastTokensRange, SentencesRange, SuffixStartRange, TranscriptAssumption
<1>3. c >= L - MaxEditableBytes
  BY <1>1, SuffixStartWhole
<1>4. WellFormed(text) => WholeAt(text, a) /\ WholeAt(text, b) /\ WholeAt(text, c)
  BY LastTokensWhole, SentencesWhole, SuffixStartWhole, TranscriptAssumption
<1>5. EditableSuffixStart(text, EditableTokens) =
        IF start = 0 THEN 0
        ELSE IF blanks # {} /\ start - GreatestOf(blanks) < BlankReach
        THEN GreatestOf(blanks) + 2
        ELSE IF feeds # {} /\ start - GreatestOf(feeds) < LineReach
        THEN GreatestOf(feeds) + 1
        ELSE start
  BY DEF EditableSuffixStart
<1> HIDE DEF a, b, c, L
<1>6. start \in {a, b, c} /\ start >= c
  <2>1. {a, b, c} \subseteq 0..L /\ {a, b, c} # {}
    BY <1>2
  <2> QED BY <1>1, <2>1, GreatestIsGreatest
<1> HIDE DEF start
<1>7. start \in 0..L /\ start >= L - MaxEditableBytes /\ (WellFormed(text) => WholeAt(text, start))
  BY <1>1, <1>2, <1>3, <1>4, <1>6
<1>8. ASSUME feeds # {}
      PROVE  LET g == GreatestOf(feeds)
             IN  g \in Int /\ (WellFormed(text) => WholeAt(text, g + 1))
  <2> DEFINE g == GreatestOf(feeds)
  <2>1. feeds \subseteq 0..L /\ \A n \in feeds : n < L /\ text[n + 1] = "|"
    BY <1>1, <1>7
  <2> HIDE DEF feeds
  <2>2. g \in feeds
    BY <1>1, <2>1, <1>8, GreatestIsGreatest
  <2> HIDE DEF g
  <2>3. g \in 0..L /\ g < L /\ text[g + 1] = "|"
    BY <2>1, <2>2
  <2>4. g + 1 \in 1..L /\ text[g + 1] # "<" /\ g \in Int
    BY <1>1, <2>3, SpaceLeadsNothing
  <2>5. WellFormed(text) => WholeAt(text, g + 1)
    BY <2>4, WholeAfter DEF L
  <2> QED BY <2>4, <2>5 DEF g
<1>9. ASSUME blanks # {}
      PROVE  LET g == GreatestOf(blanks)
             IN  g \in Int /\ (WellFormed(text) => WholeAt(text, g + 2))
  <2> DEFINE g == GreatestOf(blanks)
  <2>1. blanks \subseteq 0..L /\ \A n \in blanks : n + 1 < L /\ text[n + 2] = "|"
    BY <1>1, <1>7
  <2> HIDE DEF feeds, blanks
  <2>2. g \in blanks
    BY <1>1, <2>1, <1>9, GreatestIsGreatest
  <2> HIDE DEF g
  <2>3. g \in 0..L /\ g + 1 < L /\ text[g + 2] = "|"
    BY <2>1, <2>2
  <2>4. g + 2 \in 1..L /\ text[g + 2] # "<" /\ g \in Int
    BY <1>1, <2>3, SpaceLeadsNothing
  <2>5. WellFormed(text) => WholeAt(text, g + 2)
    BY <2>4, WholeAfter DEF L
  <2> QED BY <2>4, <2>5 DEF g
<1> HIDE DEF feeds, blanks
<1> DEFINE found == EditableSuffixStart(text, EditableTokens)
           gb == GreatestOf(blanks)
           gf == GreatestOf(feeds)
<1>10. found = IF start = 0 THEN 0
               ELSE IF blanks # {} /\ start - gb < BlankReach THEN gb + 2
               ELSE IF feeds # {} /\ start - gf < LineReach THEN gf + 1
               ELSE start
  BY <1>5
<1>11. feeds # {} => gf \in Int /\ (WellFormed(text) => WholeAt(text, gf + 1))
  BY <1>8
<1>12. blanks # {} => gb \in Int /\ (WellFormed(text) => WholeAt(text, gb + 2))
  BY <1>9
<1> HIDE DEF found, gb, gf
<1>13. WellFormed(text) => WholeAt(text, found)
  <2>1. WholeAt(text, 0)
    BY EdgesWhole
  <2> QED BY <2>1, <1>7, <1>10, <1>11, <1>12
<1>14. found >= L - MaxEditableBytes - BlankReach
  <2>1. CASE start = 0
    BY <2>1, <1>1, <1>7, <1>10
  <2>2. CASE start # 0 /\ blanks # {} /\ start - gb < BlankReach
    BY <2>2, <1>1, <1>7, <1>10, <1>12
  <2>3. CASE start # 0 /\ ~(blanks # {} /\ start - gb < BlankReach) /\ feeds # {} /\ start - gf < LineReach
    BY <2>3, <1>1, <1>7, <1>10, <1>11
  <2>4. CASE start # 0 /\ ~(blanks # {} /\ start - gb < BlankReach) /\ ~(feeds # {} /\ start - gf < LineReach)
    BY <2>4, <1>1, <1>7, <1>10
  <2> QED BY <2>1, <2>2, <2>3, <2>4
<1> QED
  BY <1>13, <1>14 DEF found, L

\* What was cut off between characters ends where the rest begins.
LEMMA PrefixWhole ==
  ASSUME NEW text \in Text, WellFormed(text), NEW n \in 0..Len(text), WellFormed(Until(text, n))
  PROVE  WholeAt(text, n)
<1> DEFINE part == Until(text, n)
           L == Len(text)
<1>1. L \in Nat /\ DOMAIN text = 1..L /\ n \in 0..L
  BY DEF Text
<1>2. part \in Text /\ Len(part) = n
  BY RestOfText
<1>3. DOMAIN part = 1..n
  BY <1>2 DEF Text
<1>4. ASSUME n # 0, n # L, Continuation(text[n + 1]) PROVE FALSE
  <2>1. n + 1 \in 1..L /\ (n + 1) - 1 = n /\ n \in 1..n
    <3> HIDE DEF L
    <3> QED BY <1>1, <1>4
  <2>2. text[(n + 1) - 1] = "<"
    BY <2>1, <1>1, <1>4 DEF WellFormed
  <2>3. part[n] = text[n]
    <3>1. \A i \in 1..n : text[i] \in Byte
      BY <1>1 DEF Text
    <3>2. \A i \in 1..n - 1 + 1 : SubSeq(text, 1, n)[i] = text[1 + i - 1]
      BY <3>1, <1>1, SubSeqProperties
    <3>3. n \in 1..n - 1 + 1 /\ 1 + n - 1 = n
      BY <2>1, <1>1
    <3> QED BY <3>2, <3>3 DEF Until
  <2>4. part[n] = "<"
    BY <2>1, <2>2, <2>3
  <2> HIDE DEF part
  <2>5. n < Len(part)
    BY <2>1, <2>4, <1>3 DEF WellFormed, part
  <2> QED BY <2>5, <1>1, <1>2
<1> HIDE DEF L
<1>5. n \in 0..L
  BY <1>1
<1> QED
  BY <1>4, <1>5 DEF WholeAt, Whole, L

LEMMA ChunkSizeWhole ==
  ASSUME NEW rest \in Text, WellFormed(rest)
  PROVE  WholeAt(rest, ChunkSize(rest))
<1> DEFINE p == PrefixThroughTokens(rest, RequestTokens)
           n == IF Len(rest) < MaxNewBytes THEN Len(rest) ELSE MaxNewBytes
           q == SafeCut(rest, n)
<1>1. Len(rest) \in Nat /\ TokenCount(rest) \in Nat
  BY TokenOffsets
<1>2. RequestTokens \in Nat /\ RequestTokens >= 1 /\ MaxNewBytes \in Nat
  BY TranscriptAssumption
<1>3. WholeAt(rest, p)
  <2>1. CASE TokenCount(rest) <= RequestTokens
    BY <2>1, EdgesWhole DEF PrefixThroughTokens
  <2>2. CASE ~(TokenCount(rest) <= RequestTokens)
    <3>1. RequestTokens <= TokenCount(rest)
      BY <1>1, <1>2, <2>2
    <3>2. WholeAt(rest, Nth(RequestTokens, Ends(rest)))
      BY <1>2, <3>1, NthEndWhole
    <3> QED BY <2>2, <3>2 DEF PrefixThroughTokens
  <2> QED BY <2>1, <2>2
<1>4. n \in Nat /\ n <= Len(rest)
  BY <1>1, <1>2
<1> HIDE DEF n, p
<1>5. WholeAt(rest, q)
  BY <1>4, SafeCutWhole
<1>6. ChunkSize(rest) = LeastOf({p, q})
  BY DEF ChunkSize, Utf8SafePrefixBytes, n, p
<1> HIDE DEF q
<1>7. {p, q} \subseteq Nat /\ {p, q} # {}
  BY <1>1, <1>3, <1>5 DEF WholeAt
<1>8. LeastOf({p, q}) \in {p, q}
  BY <1>7, LeastIsLeast
<1> QED
  BY <1>3, <1>5, <1>6, <1>8

\* A text is cut into spans between characters.
LEMMA CutsWhole ==
  ASSUME NEW text \in Text, WellFormed(text), NEW c \in CutLists(text)
  PROVE  \A i \in 1..Len(c) : WholeAt(text, c[i])
<1> DEFINE n == Len(c)
           S == {k \in Nat : k + 1 <= n => WholeAt(text, c[k + 1])}
<1>1. n \in Nat /\ n >= 1 /\ \A i \in 1..n : c[i] \in 0..Len(text)
  BY CutListFacts
<1>2. c[1] = 0 /\ \A i \in 1..n - 1 : c[i + 1] = c[i] + ChunkSize(From(text, c[i]))
  BY DEF CutLists
<1> HIDE DEF n
<1>3. 0 \in S
  <2>1. WholeAt(text, c[0 + 1])
    BY <1>2, EdgesWhole
  <2> QED BY <2>1
<1>4. ASSUME NEW k \in Nat, k \in S PROVE k + 1 \in S
  <2> SUFFICES ASSUME (k + 1) + 1 <= n PROVE WholeAt(text, c[(k + 1) + 1])
    OBVIOUS
  <2> DEFINE l == c[k + 1]
             rest == From(text, l)
  <2>1. k + 1 \in 1..n - 1 /\ k + 1 \in 1..n /\ k + 1 <= n
    BY <1>1
  <2>2. WholeAt(text, l) /\ l \in 0..Len(text)
    BY <1>1, <1>4, <2>1
  <2>3. c[(k + 1) + 1] = l + ChunkSize(rest)
    BY <1>2, <2>1
  <2> HIDE DEF l
  <2>4. rest \in Text /\ WellFormed(rest)
    BY <2>2, RestOfText, SplitWellFormed
  <2>5. WholeAt(rest, ChunkSize(rest))
    BY <2>4, ChunkSizeWhole
  <2>6. WholeAt(text, l + ChunkSize(rest))
    BY <2>2, <2>5, WholeInPart
  <2> QED BY <2>3, <2>6
<1> HIDE DEF S
<1>5. ASSUME NEW i \in 1..n PROVE WholeAt(text, c[i])
  <2>1. i - 1 \in Nat /\ (i - 1) + 1 = i /\ i <= n
    BY <1>1
  <2>2. i - 1 \in S
    BY <2>1, <1>3, <1>4, SetInduction
  <2>3. (i - 1) + 1 <= n
    BY <2>1
  <2>4. WholeAt(text, c[(i - 1) + 1])
    BY <2>2, <2>3 DEF S
  <2> QED BY <2>1, <2>4
<1> QED
  BY <1>5 DEF n

\* So are its spans and what they take of it well-formed.
LEMMA ChunksWellFormed ==
  ASSUME NEW text \in Text, WellFormed(text)
  PROVE  /\ \A k \in 1..Len(Chunks(text)) : WellFormed(Chunks(text)[k])
         /\ WellFormed(Until(text, Last(Cuts(text))))
<1> DEFINE c == Cuts(text)
           n == Len(Chunks(text))
<1>1. c \in CutLists(text)
  BY CutsList
<1>2. \A i \in 1..Len(c) : WholeAt(text, c[i])
  BY <1>1, CutsWhole
<1>3. /\ Len(c) \in Nat /\ Len(c) >= 1 /\ n = Len(c) - 1
      /\ \A k \in 1..n : /\ c[k] \in 0..Len(text) /\ c[k + 1] \in 0..Len(text) /\ c[k] < c[k + 1]
                         /\ Chunks(text)[k] = SubSeq(text, c[k] + 1, c[k + 1])
  BY ChunksOfText
<1>4. Last(c) = c[Len(c)]
  BY <1>1, CutListFacts
<1> HIDE DEF c, n
<1>5. ASSUME NEW k \in 1..n PROVE WellFormed(Chunks(text)[k])
  <2>1. k \in 1..Len(c) /\ k + 1 \in 1..Len(c)
    BY <1>3
  <2>2. WholeAt(text, c[k]) /\ WholeAt(text, c[k + 1])
    BY <2>1, <1>2
  <2>3. c[k] <= c[k + 1] /\ Chunks(text)[k] = SubSeq(text, c[k] + 1, c[k + 1])
    <3>1. Len(text) \in Nat
      BY DEF Text
    <3> QED BY <3>1, <1>3
  <2> QED BY <2>2, <2>3, PartWellFormed
<1>6. WellFormed(Until(text, Last(c)))
  <2>1. Len(c) \in 1..Len(c)
    BY <1>3
  <2>2. WholeAt(text, Last(c))
    BY <2>1, <1>2, <1>4
  <2> QED BY <2>2, SplitWellFormed
<1> QED
  BY <1>5, <1>6 DEF n, c

\* Spans of well-formed texts give a well-formed text.
LEMMA JoinedWellFormed ==
  ASSUME NEW spans \in Spans, \A k \in 1..Len(spans) : WellFormed(spans[k].text)
  PROVE  WellFormed(Joined(spans))
<1> DEFINE n == Len(spans)
<1>1. PICK f : Joins(f, spans) /\ Joined(spans) = f[n]
  BY JoinedJoins
<1>2. /\ f \in [0..n -> Text] /\ f[0] = <<>>
      /\ \A k \in 1..n : f[k] = AppendText(f[k - 1], spans[k].text)
  BY <1>1 DEF Joins
<1>3. n \in Nat /\ \A k \in 1..n : spans[k].text \in Text /\ WellFormed(spans[k].text)
  BY SpanTypes
<1> HIDE DEF n
<1> DEFINE S == {k \in Nat : k <= n => WellFormed(f[k])}
<1>4. 0 \in S
  <2>1. WellFormed(<<>>)
    BY DEF WellFormed
  <2> QED BY <2>1, <1>2
<1>5. ASSUME NEW k \in Nat, k \in S PROVE k + 1 \in S
  <2> SUFFICES ASSUME k + 1 <= n PROVE WellFormed(f[k + 1])
    OBVIOUS
  <2>1. k + 1 \in 1..n /\ (k + 1) - 1 = k /\ k \in 0..n
    BY <1>3
  <2>2. f[k] \in Text /\ WellFormed(f[k])
    BY <2>1, <1>2, <1>5
  <2>3. f[k + 1] = AppendText(f[k], spans[k + 1].text)
    BY <2>1, <1>2
  <2>4. spans[k + 1].text \in Text /\ WellFormed(spans[k + 1].text)
    BY <2>1, <1>3
  <2> QED BY <2>2, <2>3, <2>4, AppendWellFormed
<1> HIDE DEF S
<1>6. n \in S
  BY <1>3, <1>4, <1>5, SetInduction
<1>7. WellFormed(f[n])
  BY <1>3, <1>6 DEF S
<1> QED
  BY <1>1, <1>7

\* An offset between characters of the front of a text is one of the text.
LEMMA WholeInFront ==
  ASSUME NEW text \in Text, NEW n, WholeAt(text, n), NEW m, WholeAt(Until(text, n), m)
  PROVE  WholeAt(text, m)
<1> DEFINE part == Until(text, n)
           L == Len(text)
<1>1. n \in 0..L /\ L \in Nat
  BY DEF WholeAt, Text
<1>2. Len(part) = n
  BY <1>1, RestOfText
<1>3. m \in 0..n /\ Whole(part, m)
  BY <1>2 DEF WholeAt
<1>4. CASE m = n
  BY <1>4
<1>5. CASE m # n
  <2>1. ASSUME m # 0, Continuation(text[m + 1]) PROVE FALSE
    <3>1. part[m + 1] = text[m + 1]
      <4>1. \A i \in 1..n : text[i] \in Byte
        BY <1>1 DEF Text
      <4>2. \A i \in 1..n - 1 + 1 : SubSeq(text, 1, n)[i] = text[1 + i - 1]
        BY <4>1, <1>1, SubSeqProperties
      <4>3. m + 1 \in 1..n - 1 + 1 /\ 1 + (m + 1) - 1 = m + 1
        <5> HIDE DEF L
        <5> QED BY <1>1, <1>3, <1>5
      <4>4. SubSeq(text, 1, n)[m + 1] = text[1 + (m + 1) - 1]
        BY <4>2, <4>3
      <4> QED BY <4>3, <4>4 DEF Until
    <3> HIDE DEF part
    <3>2. ~Continuation(part[m + 1])
      BY <2>1, <1>2, <1>3, <1>5 DEF Whole
    <3> QED BY <2>1, <3>1, <3>2
  <2>2. m \in 0..L
    <3> HIDE DEF L
    <3> QED BY <1>1, <1>3
  <2> QED BY <2>1, <2>2 DEF WholeAt, Whole
<1> QED
  BY <1>4, <1>5

LEMMA ConfirmedWhole ==
  ASSUME NEW hypotheses, Last(hypotheses) \in Text, WellFormed(Last(hypotheses))
  PROVE  WholeAt(Last(hypotheses), Confirmed(hypotheses))
<1> DEFINE text == Last(hypotheses)
           common == LeastOf({Utf8SafeCommonPrefix(Head(hypotheses), hypotheses[k]) :
                              k \in DOMAIN hypotheses})
           boundary == TokenBoundaryAtOrBefore(text, common)
           shared == Until(text, boundary)
           count == TokenCount(shared)
           n == Nth(count - ProtectedTokens, Ends(shared))
<1>1. Confirmed(hypotheses) = IF count <= ProtectedTokens THEN 0 ELSE n
  BY DEF Confirmed
<1> HIDE DEF common
<1>2. WholeAt(text, boundary)
  BY BoundaryWhole
<1> HIDE DEF boundary, text
<1>3. text \in Text /\ WellFormed(text) /\ boundary \in 0..Len(text)
  BY <1>2 DEF WholeAt, text
<1>4. shared \in Text /\ WellFormed(shared)
  BY <1>2, <1>3, RestOfText, SplitWellFormed
<1>5. count \in Nat /\ ProtectedTokens \in Nat
  BY <1>4, TokenOffsets, TranscriptAssumption
<1>6. CASE count <= ProtectedTokens
  BY <1>1, <1>3, <1>6, EdgesWhole DEF text
<1>7. CASE ~(count <= ProtectedTokens)
  <2>1. count - ProtectedTokens \in Nat /\ 1 <= count - ProtectedTokens /\ count - ProtectedTokens <= count
    <3> HIDE DEF count
    <3> QED BY <1>5, <1>7
  <2>2. WholeAt(shared, n)
    BY <1>4, <2>1, NthEndWhole
  <2>3. WholeAt(text, n)
    BY <1>2, <1>3, <2>2, WholeInFront
  <2> QED BY <1>1, <1>7, <2>3 DEF text
<1> QED
  BY <1>6, <1>7

\* The read-only context is the end of the frozen text, from between characters on.
LEMMA ContextWellFormed ==
  ASSUME frozen \in Text, WellFormed(frozen)
  PROVE  ReadOnlyContext \in Text /\ WellFormed(ReadOnlyContext)
<1> DEFINE a == LastTokens(frozen, ContextTokens)
           b == Utf8SafeSuffixStart(frozen, MaxReadOnlyBytes)
           n == GreatestOf({a, b})
<1>1. WholeAt(frozen, a) /\ WholeAt(frozen, b) /\ Len(frozen) \in Nat
  BY LastTokensWhole, SuffixStartWhole, TranscriptAssumption DEF Text
<1>2. ReadOnlyContext = From(frozen, n)
  BY DEF ReadOnlyContext, SuffixByTokens
<1> HIDE DEF a, b
<1>3. {a, b} \subseteq 0..Len(frozen) /\ {a, b} # {}
  BY <1>1 DEF WholeAt
<1>4. n \in {a, b}
  BY <1>1, <1>3, GreatestIsGreatest
<1> HIDE DEF n
<1>5. WholeAt(frozen, n) /\ n \in 0..Len(frozen)
  BY <1>1, <1>3, <1>4
<1> QED
  BY <1>2, <1>5, RestOfText, SplitWellFormed

LEMMA WellFormedEdges ==
  ASSUME NEW text \in Text, WellFormed(text), text # <<>>
  PROVE  ~Continuation(Head(text)) /\ Last(text) # "<"
<1> DEFINE L == Len(text)
<1>1. L \in Nat /\ DOMAIN text = 1..L /\ Head(text) = text[1] /\ Last(text) = text[L] /\ L # 0
  BY DEF Text, Last
<1> HIDE DEF L
<1>2. 1 \in DOMAIN text /\ L \in DOMAIN text
  BY <1>1
<1>3. /\ Continuation(text[1]) => 1 > 1
      /\ text[L] = "<" => L < L
  BY <1>2 DEF WellFormed, L
<1> QED
  BY <1>1, <1>3

SnapshotWhole(s) ==
  /\ s.new \in Text /\ WellFormed(s.new)
  /\ s.context \in Text /\ WellFormed(s.context)
  /\ s.editable \in Text /\ WellFormed(s.editable)

\* Every text that is kept consists of whole characters.
CharInv ==
  /\ frozen \in Text /\ WellFormed(frozen)
  /\ editable \in Text /\ WellFormed(editable)
  /\ WellFormed(suffix) /\ WellFormed(promoted)
  /\ \A k \in 1..Len(backlog) : WellFormed(backlog[k].text)
  /\ \A s \in held : SnapshotWhole(s)

\* An answer of the model is JSON too: asked with well-formed texts it is one.
ReplacementsAreTexts ==
  \A s : SnapshotWhole(s) => Replacements(s) \subseteq {text \in Text : WellFormed(text)}

LEMMA EmptyWhole == <<>> \in Text /\ WellFormed(<<>>)
BY TextConcat DEF WellFormed

LEMMA HypothesisWhole ==
  ASSUME NEW text \in Hypotheses
  PROVE  text \in Text /\ WellFormed(text)
<1>1. WellFormed(text)
  BY TranscriptAssumption
<1> QED
  BY <1>1, HypothesisPaired

LEMMA TextsOfList == ASSUME NEW list \in Seq(Text) PROVE \A k \in 1..Len(list) : list[k] \in Text
<1>1. ASSUME NEW T, NEW s \in Seq(T) PROVE \A k \in 1..Len(s) : s[k] \in T
  OBVIOUS
<1> QED
  BY <1>1

\* What the spans of the backlog and the new ones have in common, all then have.
LEMMA AddSpansKeep ==
  ASSUME backlog \in Spans, nextSpan \in Nat, NEW W,
         \A k \in 1..Len(backlog) : backlog[k].text \in W,
         NEW chunks \in Seq(Text), \A k \in 1..Len(chunks) : chunks[k] \in W,
         AddSpans(chunks)
  PROVE  \A k \in 1..Len(backlog') : backlog'[k].text \in W
<1> DEFINE m == Len(backlog)
           more == Labelled(chunks)
           n == Len(more)
           after == backlog'
<1>1. after = backlog \o more
  BY DEF AddSpans, Labelled
<1>2. more \in Spans /\ n = Len(chunks) /\ \A k \in 1..n : more[k].text = chunks[k]
  BY LabelledSpans
<1>3. m \in Nat /\ n \in Nat
  BY <1>2, SpanTypes
<1>4. Len(after) = m + n /\ \A k \in 1..m + n : after[k] = IF k <= m THEN backlog[k] ELSE more[k - m]
  <2>1. ASSUME NEW T, NEW s \in Seq(T), NEW t \in Seq(T)
        PROVE  /\ Len(s \o t) = Len(s) + Len(t)
               /\ \A k \in 1..Len(s) + Len(t) : (s \o t)[k] = IF k <= Len(s) THEN s[k] ELSE t[k - Len(s)]
    BY ConcatProperties
  <2>2. backlog \in Seq([id : Int, text : Text]) /\ more \in Seq([id : Int, text : Text])
    BY <1>2 DEF Spans
  <2> HIDE DEF more
  <2> QED BY <1>1, <2>1, <2>2, Zenon
<1>5. \A k \in 1..n : more[k].text \in W
  BY <1>2
<1> HIDE DEF more, n, m, after
<1>6. ASSUME NEW k \in 1..m + n PROVE after[k].text \in W
  <2>1. CASE k <= m
    <3>1. k \in 1..m /\ after[k] = backlog[k]
      BY <2>1, <1>3, <1>4
    <3> QED BY <3>1 DEF m
  <2>2. CASE ~(k <= m)
    <3>1. k - m \in 1..n /\ after[k] = more[k - m]
      BY <2>2, <1>3, <1>4
    <3> QED BY <3>1, <1>5
  <2> QED BY <2>1, <2>2
<1> QED
  BY <1>4, <1>6 DEF after

LEMMA AddSpansWhole ==
  ASSUME backlog \in Spans, nextSpan \in Nat, \A k \in 1..Len(backlog) : WellFormed(backlog[k].text),
         NEW chunks \in Seq(Text), \A k \in 1..Len(chunks) : WellFormed(chunks[k]),
         AddSpans(chunks)
  PROVE  \A k \in 1..Len(backlog') : WellFormed(backlog'[k].text)
<1> DEFINE W == {text \in Text : WellFormed(text)}
<1>1. \A k \in 1..Len(backlog) : backlog[k].text \in W
  BY SpanTypes
<1>2. \A k \in 1..Len(chunks) : chunks[k] \in W
  BY TextsOfList
<1>3. \A text \in W : WellFormed(text)
  OBVIOUS
<1> HIDE DEF W
<1> QED
  BY <1>1, <1>2, <1>3, AddSpansKeep

LEMMA CharInit == TranscriptInit => CharInv
BY EmptyWhole DEF TranscriptInit, CharInv

LEMMA CharUpdate ==
  ASSUME RegionsInv, CharInv, Update
  PROVE  CharInv'
<1>1. PICK text \in Hypotheses : (UpdateRevised(text) \/ UpdateExtends(text)) /\ current' = text
  BY DEF Update
<1>2. text \in Text /\ WellFormed(text)
  BY HypothesisWhole
<1>3. UNCHANGED <<frozen, editable, held>>
  BY DEF Update, tail
<1>4. WellFormed(suffix') /\ WellFormed(promoted') /\ \A k \in 1..Len(backlog') : WellFormed(backlog'[k].text)
  <2>1. CASE UpdateRevised(text)
    <3>1. backlog' = <<>> /\ suffix' = text /\ promoted' = promoted
      BY <2>1 DEF UpdateRevised
    <3>2. \A k \in 1..Len(backlog') : FALSE
      BY <3>1
    <3> QED BY <3>1, <3>2, <1>2 DEF CharInv
  <2>2. CASE UpdateExtends(text)
    <3> DEFINE n == Confirmed(recent')
    <3>1. ~Revises(text) /\ recent' = Remember(text) /\ suffix' = From(text, Len(promoted'))
      BY <2>2 DEF UpdateExtends
    <3>2. promoted \in Text /\ WellFormed(promoted) /\ recent \in Seq(Text) /\ backlog \in Spans /\ nextSpan \in Nat
      BY DEF RegionsInv, TextsHold, CountersHold, CharInv
    <3>3. \A k \in 1..Len(backlog) : WellFormed(backlog[k].text)
      BY DEF CharInv
    <3>4. Len(promoted) \in 0..Len(text) /\ promoted = Until(text, Len(promoted))
      BY <1>2, <3>1, <3>2, PromotedPrefix
    <3>5. /\ WellFormed(promoted') /\ \A k \in 1..Len(backlog') : WellFormed(backlog'[k].text)
          /\ Len(promoted') \in 0..Len(text) /\ promoted' = Until(text, Len(promoted'))
      <4>1. CASE safe /\ n > Len(promoted) /\ PromoteThrough(text, n)
        <5>1. Last(recent') = text
          BY <1>2, <3>1, <3>2, RememberedTexts
        <5>2. WholeAt(text, n) /\ n \in 0..Len(text)
          BY <1>2, <5>1, ConfirmedWhole DEF WholeAt
        <5>3. UNCHANGED <<covered, finished>>
          BY DEF Update, tail
        <5> HIDE DEF n
        <5>4. Len(promoted') \in 0..Len(text) /\ promoted' = Until(text, Len(promoted'))
          BY <1>2, <3>1, <4>1, <5>2, <5>3, PromoteMoves
        <5>5. WholeAt(text, Len(promoted))
          BY <1>2, <3>2, <3>4, PrefixWhole
        <5> DEFINE fresh == SubSeq(text, Len(promoted) + 1, n)
        <5>6. fresh \in Text /\ WellFormed(fresh)
          <6>1. Len(promoted) <= n
            BY <3>4, <4>1, <5>2
          <6> QED BY <1>2, <5>2, <5>5, <6>1, PartWellFormed
        <5>7. AddSpans(Chunks(fresh)) /\ promoted' = promoted \o Until(fresh, Last(Cuts(fresh)))
          BY <4>1 DEF PromoteThrough
        <5> HIDE DEF fresh
        <5>8. Last(Cuts(fresh)) \in 0..Len(fresh)
          <6>1. Cuts(fresh) \in CutLists(fresh)
            BY <5>6, CutsList
          <6> QED BY <5>6, <6>1, CutListFacts
        <5>9. Until(fresh, Last(Cuts(fresh))) \in Text /\ WellFormed(Until(fresh, Last(Cuts(fresh))))
          BY <5>6, <5>8, RestOfText, ChunksWellFormed
        <5>10. WellFormed(promoted')
          BY <3>2, <5>7, <5>9, ConcatWellFormed
        <5>11. \A k \in 1..Len(backlog') : WellFormed(backlog'[k].text)
          <6>1. Chunks(fresh) \in Seq(Text) /\ \A k \in 1..Len(Chunks(fresh)) : WellFormed(Chunks(fresh)[k])
            BY <5>6, ChunksOfText, ChunksWellFormed
          <6> QED BY <3>2, <3>3, <5>7, <6>1, AddSpansWhole
        <5> QED BY <5>4, <5>10, <5>11
      <4>2. CASE UNCHANGED <<backlog, promoted, nextSpan>>
        BY <4>2, <3>2, <3>3, <3>4
      <4> QED BY <2>2, <4>1, <4>2 DEF UpdateExtends
    <3>6. WholeAt(text, Len(promoted'))
      BY <1>2, <3>5, PrefixWhole
    <3>7. WellFormed(From(text, Len(promoted')))
      BY <1>2, <3>6, SplitWellFormed
    <3> QED BY <3>1, <3>5, <3>7
  <2> QED BY <1>1, <2>1, <2>2
<1> QED
  BY <1>3, <1>4 DEF CharInv, SnapshotWhole

LEMMA CharFinalize ==
  ASSUME RegionsInv, CharInv, Finalize
  PROVE  CharInv'
<1>1. PICK text \in Hypotheses :
        IF Revises(text)
        THEN safe' = FALSE /\ backlog' = <<>> /\ UNCHANGED nextSpan
        ELSE /\ AddSpans(IF safe THEN Chunks(From(text, Len(promoted))) ELSE <<>>)
             /\ UNCHANGED safe
  BY DEF Finalize
<1>2. text \in Text /\ WellFormed(text)
  BY HypothesisWhole
<1>3. UNCHANGED <<frozen, editable, held>> /\ suffix' = <<>> /\ promoted' = <<>>
  BY DEF Finalize, tail
<1>4. promoted \in Text /\ WellFormed(promoted) /\ backlog \in Spans /\ nextSpan \in Nat
  BY DEF RegionsInv, TextsHold, CountersHold, CharInv
<1>5. \A k \in 1..Len(backlog) : WellFormed(backlog[k].text)
  BY DEF CharInv
<1>6. \A k \in 1..Len(backlog') : WellFormed(backlog'[k].text)
  <2>1. CASE Revises(text)
    <3>1. backlog' = <<>>
      BY <1>1, <2>1
    <3>2. \A k \in 1..Len(backlog') : FALSE
      BY <3>1
    <3> QED BY <3>2
  <2>2. CASE ~Revises(text)
    <3> DEFINE rest == From(text, Len(promoted))
               chunks == IF safe THEN Chunks(rest) ELSE <<>>
    <3>1. Len(promoted) \in 0..Len(text) /\ promoted = Until(text, Len(promoted))
      BY <1>2, <1>4, <2>2, PromotedPrefix
    <3>2. WholeAt(text, Len(promoted))
      BY <1>2, <1>4, <3>1, PrefixWhole
    <3>3. rest \in Text /\ WellFormed(rest)
      BY <1>2, <3>1, <3>2, RestOfText, SplitWellFormed
    <3>4. AddSpans(chunks)
      BY <1>1, <2>2
    <3> HIDE DEF rest
    <3>5. chunks \in Seq(Text) /\ \A k \in 1..Len(chunks) : WellFormed(chunks[k])
      <4>1. Chunks(rest) \in Seq(Text) /\ \A k \in 1..Len(Chunks(rest)) : WellFormed(Chunks(rest)[k])
        BY <3>3, ChunksOfText, ChunksWellFormed
      <4>2. <<>> \in Seq(Text) /\ \A k \in 1..Len(<<>>) : FALSE
        OBVIOUS
      <4>3. CASE safe
        BY <4>1, <4>3
      <4>4. CASE ~safe
        BY <4>2, <4>4
      <4> QED BY <4>3, <4>4
    <3> HIDE DEF chunks
    <3> QED BY <1>4, <1>5, <3>4, <3>5, AddSpansWhole
  <2> QED BY <2>1, <2>2
<1> QED
  BY <1>3, <1>6, EmptyWhole DEF CharInv, SnapshotWhole

LEMMA FrontSpans ==
  ASSUME NEW spans \in Spans, NEW n \in 0..Len(spans)
  PROVE  /\ SubSeq(spans, 1, n) \in Spans /\ Len(SubSeq(spans, 1, n)) = n
         /\ \A k \in 1..n : SubSeq(spans, 1, n)[k] = spans[k]
<1>1. ASSUME NEW T, NEW s \in Seq(T), NEW m \in 0..Len(s)
      PROVE  \A k \in 1..m : SubSeq(s, 1, m)[k] = s[k]
  <2>1. \A i \in 1..m : s[i] \in T
    BY <1>1
  <2>2. \A k \in 1..m - 1 + 1 : SubSeq(s, 1, m)[k] = s[1 + k - 1]
    BY <2>1, <1>1, SubSeqProperties
  <2>3. \A k \in 1..m : k \in 1..m - 1 + 1 /\ 1 + k - 1 = k
    BY <1>1
  <2> QED BY <2>2, <2>3
<1> QED
  BY <1>1, SplitSpans DEF Spans

LEMMA CharSnapshot ==
  ASSUME RegionsInv, CharInv, MakeSnapshot \/ DropSnapshot
  PROVE  CharInv'
<1>1. UNCHANGED <<frozen, editable, backlog, suffix, promoted>>
  BY DEF MakeSnapshot, DropSnapshot, asr, tail
<1>2. CASE DropSnapshot
  <2>1. held' \subseteq held
    BY <1>2 DEF DropSnapshot
  <2>2. \A s \in held' : SnapshotWhole(s)
    BY <2>1 DEF CharInv
  <2>3. \A k \in 1..Len(backlog') : WellFormed(backlog'[k].text)
    BY <1>1 DEF CharInv
  <2> QED BY <1>1, <2>2, <2>3 DEF CharInv, SnapshotWhole
<1>3. CASE MakeSnapshot
  <2> DEFINE s == NewSnapshot
             spans == SubSeq(backlog, 1, Requested)
  <2>1. held' = held \cup {s} /\ backlog \in Spans /\ backlog # <<>>
    BY <1>3 DEF MakeSnapshot, RegionsInv, TextsHold
  <2>2. Requested \in 1..Len(backlog) /\ Len(backlog) \in Nat
    BY <2>1, RequestedRange, SpanTypes
  <2>3. /\ spans \in Spans /\ Len(spans) = Requested
        /\ \A k \in 1..Requested : spans[k] = backlog[k]
    <3>1. Requested \in 0..Len(backlog)
      BY <2>2
    <3> QED BY <2>1, <3>1, FrontSpans
  <2>4. \A k \in 1..Len(spans) : WellFormed(spans[k].text)
    <3>1. \A k \in 1..Requested : k \in 1..Len(backlog)
      BY <2>2
    <3> QED BY <3>1, <2>3 DEF CharInv
  <2> HIDE DEF spans
  <2>5. Joined(spans) \in Text /\ WellFormed(Joined(spans))
    BY <2>3, <2>4, JoinedType, JoinedWellFormed
  <2>6. s.new = Joined(spans) /\ s.context = ReadOnlyContext /\ s.editable = editable
    BY DEF NewSnapshot, spans
  <2>7. ReadOnlyContext \in Text /\ WellFormed(ReadOnlyContext)
    BY ContextWellFormed DEF CharInv
  <2> HIDE DEF s
  <2>8. SnapshotWhole(s)
    BY <2>5, <2>6, <2>7 DEF SnapshotWhole, CharInv
  <2>9. \A t \in held' : SnapshotWhole(t)
    BY <2>1, <2>8 DEF CharInv
  <2>10. \A k \in 1..Len(backlog') : WellFormed(backlog'[k].text)
    BY <1>1 DEF CharInv
  <2> QED BY <1>1, <2>9, <2>10 DEF CharInv, SnapshotWhole
<1> QED
  BY <1>2, <1>3

LEMMA CharReplace ==
  ASSUME RegionsInv, CharInv, NEW s \in held, CanCommit(s),
         NEW text \in Text, WellFormed(text), ReplaceTail(s, text)
  PROVE  CharInv'
<1> DEFINE split == EditableSuffixStart(text, EditableTokens)
           old == Until(text, split)
<1>1. /\ ConsumeStableSpans(s) /\ UNCHANGED <<suffix, promoted, held>>
      /\ frozen' = AppendText(frozen, old) /\ editable' = From(text, split)
  BY DEF ReplaceTail, FreezeOldEditable, asr
<1>2. PICK k \in 1..Len(backlog) : backlog' = From(backlog, k)
  BY <1>1, CommitSplits
<1>3. backlog \in Spans /\ Len(backlog) \in Nat
  BY SpanTypes DEF RegionsInv, TextsHold
<1>4. \A j \in 1..Len(backlog') : WellFormed(backlog'[j].text)
  <2> DEFINE m == Len(backlog)
  <2>1. k \in 0..m
    BY <1>3
  <2>2. Len(backlog') = m - k /\ \A j \in 1..m - k : backlog'[j] = backlog[k + j]
    BY <1>2, <1>3, <2>1, SplitSpans
  <2>3. m \in Nat /\ k \in 1..m
    BY <1>3
  <2>4. \A j \in 1..m : WellFormed(backlog[j].text)
    BY DEF CharInv
  <2> HIDE DEF m
  <2>5. \A j \in 1..m - k : k + j \in 1..m
    BY <2>3
  <2> QED BY <2>2, <2>4, <2>5
<1>5. WholeAt(text, split)
  BY EditableStartWhole
<1> HIDE DEF split
<1>6. /\ old \in Text /\ WellFormed(old)
      /\ From(text, split) \in Text /\ WellFormed(From(text, split))
  <2>1. split \in 0..Len(text)
    BY <1>5 DEF WholeAt
  <2> QED BY <1>5, <2>1, RestOfText, SplitWellFormed
<1> HIDE DEF old
<1>7. frozen \in Text /\ WellFormed(frozen)
  BY DEF CharInv
<1>8. AppendText(frozen, old) \in Text /\ WellFormed(AppendText(frozen, old))
  BY <1>6, <1>7, LettersAppendText, AppendWellFormed
<1>9. \A t \in held' : SnapshotWhole(t)
  BY <1>1 DEF CharInv
<1> QED
  BY <1>1, <1>4, <1>6, <1>8, <1>9 DEF CharInv, SnapshotWhole

LEMMA CharCommit ==
  ASSUME ReplacementsAreTexts, RegionsInv, CharInv, Commit \/ PreserveRaw
  PROVE  CharInv'
<1>1. ASSUME NEW s \in held
      PROVE  AppendText(editable, s.new) \in Text /\ WellFormed(AppendText(editable, s.new))
  <2>1. s.new \in Text /\ WellFormed(s.new) /\ editable \in Text /\ WellFormed(editable)
    BY DEF CharInv, SnapshotWhole
  <2> QED BY <2>1, LettersAppendText, AppendWellFormed
<1>2. CASE Commit
  <2>0. PICK s \in held : \E text \in Replacements(s) :
          /\ CanCommit(s)
          /\ ReplaceTail(s, text) \/ ReplaceTail(s, AppendText(editable, s.new))
    BY <1>2 DEF Commit
  <2>1. PICK text \in Replacements(s) :
          /\ CanCommit(s)
          /\ ReplaceTail(s, text) \/ ReplaceTail(s, AppendText(editable, s.new))
    BY <2>0
  <2>2. text \in Text /\ WellFormed(text)
    BY DEF ReplacementsAreTexts, CharInv
  <2>3. CASE ReplaceTail(s, text)
    BY <2>1, <2>2, <2>3, CharReplace
  <2>4. CASE ReplaceTail(s, AppendText(editable, s.new))
    BY <1>1, <2>1, <2>4, CharReplace
  <2> QED BY <2>1, <2>3, <2>4
<1>3. CASE PreserveRaw
  BY <1>1, <1>3, CharReplace DEF PreserveRaw
<1> QED
  BY <1>2, <1>3

LEMMA CharNext ==
  ASSUME ReplacementsAreTexts, RegionsInv, CharInv, [TranscriptNext]_vars
  PROVE  CharInv'
<1>1. CASE Reset \/ BeginSegment
  <2>1. suffix' = <<>> /\ promoted' = <<>> /\ held' = held
    BY <1>1 DEF Reset, BeginSegment
  <2>2. (frozen' = <<>> /\ editable' = <<>> /\ backlog' = <<>>) \/ UNCHANGED <<frozen, editable, backlog>>
    BY <1>1 DEF Reset, BeginSegment
  <2>3. \A k \in 1..Len(backlog') : WellFormed(backlog'[k].text)
    <3>1. \A k \in 1..Len(<<>>) : FALSE
      OBVIOUS
    <3> QED BY <2>2, <3>1 DEF CharInv
  <2> QED BY <2>1, <2>2, <2>3, EmptyWhole DEF CharInv, SnapshotWhole
<1>2. CASE Update
  BY <1>2, CharUpdate
<1>3. CASE Finalize
  BY <1>3, CharFinalize
<1>4. CASE MakeSnapshot \/ DropSnapshot
  BY <1>4, CharSnapshot
<1>5. CASE Commit \/ PreserveRaw
  BY <1>5, CharCommit
<1>6. CASE UNCHANGED vars
  <2>1. UNCHANGED <<frozen, editable, backlog, suffix, promoted, held>>
    BY <1>6 DEF vars
  <2>2. \A k \in 1..Len(backlog') : WellFormed(backlog'[k].text)
    BY <2>1 DEF CharInv
  <2> QED BY <2>1, <2>2 DEF CharInv, SnapshotWhole
<1> QED
  BY <1>1, <1>2, <1>3, <1>4, <1>5, <1>6 DEF TranscriptNext

\* Region, spans and requests consist of whole characters, for all limits and
\* for all hypotheses and answers that do.
THEOREM NoCharacterIsCut ==
  ASSUME ReplacementsAreTexts
  PROVE  TranscriptSpec => []CharactersWhole
<1>1. TranscriptInit => CharInv
  BY CharInit
<1>2. RegionsInv /\ CharInv /\ [TranscriptNext]_vars => CharInv'
  BY CharNext
<1>3. RegionsInv /\ CharInv => CharactersWhole
  <2> SUFFICES ASSUME RegionsInv, CharInv PROVE CharactersWhole
    OBVIOUS
  <2>1. \A text \in {frozen, editable, suffix} : text \in Text /\ WellFormed(text)
    BY DEF RegionsInv, TextsHold, CharInv
  <2>2. \A text \in {backlog[k].text : k \in DOMAIN backlog} : text \in Text /\ WellFormed(text)
    <3>1. DOMAIN backlog = 1..Len(backlog) /\ \A k \in 1..Len(backlog) : backlog[k].text \in Text
      BY SpanTypes DEF RegionsInv, TextsHold
    <3> QED BY <3>1 DEF CharInv
  <2>3. \A text \in UNION {{s.new, s.context} : s \in held} : text \in Text /\ WellFormed(text)
    BY DEF CharInv, SnapshotWhole
  <2> QED BY <2>1, <2>2, <2>3, WellFormedEdges DEF CharactersWhole
<1> QED
  BY <1>1, <1>2, <1>3, RegionsInvariant, PTL DEF TranscriptSpec

-----------------------------------------------------------------------------
(* Limits *)

LEMMA PartBytes ==
  ASSUME NEW text \in Text, NEW n \in 0..Len(text)
  PROVE  /\ \A i \in 1..n : Until(text, n)[i] = text[i]
         /\ \A i \in 1..Len(text) - n : From(text, n)[i] = text[n + i]
<1> DEFINE L == Len(text)
<1>1. L \in Nat /\ n \in Int /\ 0 <= n /\ n <= L /\ \A i \in 1..L : text[i] \in Byte
  BY DEF Text
<1>2. \A i \in 1..n : Until(text, n)[i] = text[i]
  <2> HIDE DEF L
  <2>1. \A i \in 1..n : text[i] \in Byte
    BY <1>1
  <2>2. \A i \in 1..n - 1 + 1 : SubSeq(text, 1, n)[i] = text[1 + i - 1]
    BY <2>1, <1>1, SubSeqProperties
  <2>3. \A i \in 1..n : i \in 1..n - 1 + 1 /\ 1 + i - 1 = i
    BY <1>1
  <2> QED BY <2>2, <2>3 DEF Until
<1>3. \A i \in 1..L - n : SubSeq(text, n + 1, L)[i] = text[n + i]
  <2> HIDE DEF L
  <2>1. \A i \in n + 1..L : text[i] \in Byte
    BY <1>1
  <2>2. \A i \in 1..L - (n + 1) + 1 : SubSeq(text, n + 1, L)[i] = text[n + 1 + i - 1]
    BY <2>1, <1>1, SubSeqProperties
  <2>3. \A i \in 1..L - n : i \in 1..L - (n + 1) + 1 /\ n + 1 + i - 1 = n + i
    BY <1>1
  <2> QED BY <2>2, <2>3
<1> QED
  BY <1>2, <1>3 DEF From

LEMMA FewerOffsets ==
  ASSUME NEW n \in Nat, NEW S, S \subseteq 0..n, NEW T, T \subseteq S
  PROVE  Cardinality(T) \in Nat /\ Cardinality(S) \in Nat /\ Cardinality(T) <= Cardinality(S)
<1>1. IsFiniteSet(S) /\ Cardinality(S) \in Nat
  BY OffsetsFinite
<1>2. T \in SUBSET S
  OBVIOUS
<1>3. IsFiniteSet(T) /\ Cardinality(T) <= Cardinality(S)
  BY <1>1, <1>2, FS_Subset
<1> QED
  BY <1>1, <1>3, FS_CardinalityType

\* The front of a text has the tokens that start in it.
LEMMA TokensOfFront ==
  ASSUME NEW text \in Text, NEW k \in Nat \ {0}, NEW n \in 0..PrefixThroughTokens(text, k)
  PROVE  TokenCount(Until(text, n)) <= k
<1> DEFINE L == Len(text)
           B == Begins(text)
           E == Ends(text)
           front == Begins(Until(text, n))
           e == Nth(k, E)
<1>1. /\ L \in Nat /\ B \subseteq 0..L /\ E \subseteq 0..L
      /\ TokenCount(text) = Cardinality(B) /\ Cardinality(B) \in Nat
      /\ Cardinality(E) = Cardinality(B)
  BY TokenOffsets DEF TokenCount
<1>2. PrefixThroughTokens(text, k) \in 0..L
  BY PrefixRange
<1>3. n \in 0..L
  BY <1>1, <1>2
<1>4. Until(text, n) \in Text /\ Len(Until(text, n)) = n /\ \A i \in 1..n : Until(text, n)[i] = text[i]
  BY <1>3, RestOfText, PartBytes
<1>5. \A m \in front : m \in B /\ m < n /\ m \in 0..L
  <2> SUFFICES ASSUME NEW m \in front PROVE m \in B /\ m < n /\ m \in 0..L
    OBVIOUS
  <2> DEFINE part == Until(text, n)
  <2>1. m \in 0..n - 1 /\ ~Space(part[m + 1]) /\ (m = 0 \/ Space(part[m]))
    BY <1>4 DEF Begins
  <2>2. part[m + 1] = text[m + 1] /\ (m # 0 => part[m] = text[m])
    <3>1. m + 1 \in 1..n /\ (m # 0 => m \in 1..n)
      BY <1>3, <2>1
    <3> HIDE DEF part
    <3> QED BY <3>1, <1>4 DEF part
  <2> HIDE DEF part
  <2>3. m \in 0..Len(text) - 1 /\ m < n /\ m \in 0..L
    BY <1>1, <1>3, <2>1
  <2>4. ~Space(text[m + 1]) /\ (m = 0 \/ Space(text[m]))
    BY <2>1, <2>2
  <2> QED BY <2>3, <2>4 DEF Begins
<1> HIDE DEF L, B, front
<1>6. front \subseteq B
  BY <1>5
<1>7. CASE TokenCount(text) <= k
  <2>1. Cardinality(front) \in Nat /\ Cardinality(front) <= Cardinality(B)
    BY <1>1, <1>6, FewerOffsets
  <2>2. Cardinality(front) <= k
    BY <2>1, <1>1, <1>7
  <2> QED BY <2>2 DEF TokenCount, front
<1>8. CASE ~(TokenCount(text) <= k)
  <2>1. k \in 1..Cardinality(E) /\ Cardinality(B) # 0
    BY <1>1, <1>8
  <2>2. e \in E /\ Cardinality({x \in E : x < e}) = k - 1
    BY <1>1, <2>1, NthExists
  <2>3. n \in Int /\ e \in Int /\ n <= e
    <3>1. PrefixThroughTokens(text, k) = e
      BY <1>8 DEF PrefixThroughTokens
    <3>2. e \in 0..L
      BY <1>1, <2>2
    <3> HIDE DEF e
    <3> QED BY <3>1, <3>2, <1>1
  <2> DEFINE b == LeastOf(B)
             below == {x \in E : x < e}
  <2>4. B # {}
    BY <2>1, FS_EmptySet
  <2>5. B \ {b} \subseteq E
    BY <2>4 DEF Ends, B
  <2> HIDE DEF E, e
  <2>6. \A m \in front : m = b \/ m \in below
    <3> TAKE m \in front
    <3>1. m \in B /\ m < n /\ m \in 0..L
      BY <1>5
    <3>2. m < e
      BY <3>1, <2>3, <1>1
    <3> QED BY <3>1, <3>2, <2>5
  <2> HIDE DEF b
  <2>7. IsFiniteSet(below) /\ Cardinality(below) = k - 1
    <3>1. below \subseteq 0..L
      BY <1>1
    <3> HIDE DEF below
    <3>2. IsFiniteSet(below)
      BY <1>1, <3>1, OffsetsFinite
    <3> QED BY <2>2, <3>2 DEF below
  <2> HIDE DEF below
  <2>8. IsFiniteSet(below \cup {b}) /\ Cardinality(below \cup {b}) <= k
    <3>1. /\ IsFiniteSet(below \cup {b})
          /\ Cardinality(below \cup {b}) = IF b \in below THEN Cardinality(below) ELSE Cardinality(below) + 1
      BY <2>7, FS_AddElement
    <3> QED BY <3>1, <2>7
  <2>9. front \in SUBSET (below \cup {b})
    BY <2>6
  <2>10. IsFiniteSet(front) /\ Cardinality(front) <= Cardinality(below \cup {b})
    BY <2>8, <2>9, FS_Subset
  <2>11. Cardinality(front) <= k
    <3>1. Cardinality(front) \in Nat /\ Cardinality(below \cup {b}) \in Nat
      BY <2>8, <2>10, FS_CardinalityType
    <3> QED BY <3>1, <2>8, <2>10
  <2> QED BY <2>11 DEF TokenCount, front
<1> QED
  BY <1>7, <1>8

\* Where a token lies a token starts, there or before.
LEMMA TokenStarts ==
  ASSUME NEW text \in Text, NEW n \in 0..Len(text) - 1, ~Space(text[n + 1])
  PROVE  \E b \in Begins(text) : b <= n
<1> DEFINE S == {x \in 0..n : x = 0 \/ Space(text[x])}
           b == GreatestOf(S)
<1>1. Len(text) \in Nat /\ n \in Nat /\ n < Len(text)
  BY DEF Text
<1>2. 0 \in S /\ S \subseteq 0..n
  BY <1>1
<1>3. b \in S /\ \A y \in S : b >= y
  BY <1>1, <1>2, GreatestIsGreatest
<1>4. b \in 0..n /\ (b = 0 \/ Space(text[b]))
  BY <1>3
<1> HIDE DEF b
<1>5. ~Space(text[b + 1])
  <2>1. CASE b = n
    BY <2>1
  <2>2. CASE b # n
    <3>1. b + 1 \in 0..n /\ ~(b >= b + 1)
      BY <1>1, <1>4, <2>2
    <3>2. b + 1 \notin S
      BY <1>3, <3>1
    <3> QED BY <3>1, <3>2
  <2> QED BY <2>1, <2>2
<1>6. b \in 0..Len(text) - 1 /\ b <= n
  <2> DEFINE L == Len(text)
  <2> HIDE DEF L
  <2>1. L \in Nat /\ n < L
    BY <1>1 DEF L
  <2>2. b \in 0..L - 1 /\ b <= n
    BY <2>1, <1>1, <1>4
  <2> QED BY <2>2 DEF L
<1> QED
  BY <1>4, <1>5, <1>6 DEF Begins

\* A rest has the tokens that start behind its first byte and at most one more.
LEMMA RestTokens ==
  ASSUME NEW text \in Text, NEW n \in 0..Len(text), NEW b \in 0..n,
         0 \in Begins(From(text, n)) => b \in Begins(text)
  PROVE  TokenCount(From(text, n)) <= Cardinality({x \in Begins(text) : x > n \/ x = b})
<1> DEFINE L == Len(text)
           B == Begins(text)
           rest == From(text, n)
           A == Begins(rest)
           Q == {x \in B : x > n \/ x = b}
           g == [m \in A |-> IF m = 0 THEN b ELSE n + m]
<1>1. L \in Nat /\ B \subseteq 0..L /\ n \in Nat /\ n <= L
  BY TokenOffsets
<1>2. rest \in Text /\ Len(rest) = L - n /\ \A i \in 1..L - n : rest[i] = text[n + i]
  BY RestOfText, PartBytes
<1>3. \A m \in A : m \in 0..Len(rest) - 1 /\ ~Space(rest[m + 1]) /\ (m = 0 \/ Space(rest[m]))
  BY DEF Begins
<1> HIDE DEF rest
<1>4. ASSUME NEW m \in A, m # 0 PROVE n + m \in B /\ n + m > n
  <2>1. m \in 0..Len(rest) - 1 /\ ~Space(rest[m + 1]) /\ Space(rest[m])
    BY <1>3, <1>4
  <2> HIDE DEF A, B, L
  <2>2. m \in 1..L - n /\ m + 1 \in 1..L - n /\ n + (m + 1) = (n + m) + 1
    BY <2>1, <1>1, <1>2, <1>4
  <2>3. ~Space(text[(n + m) + 1]) /\ Space(text[n + m])
    BY <2>1, <2>2, <1>2
  <2>4. n + m \in 0..L - 1 /\ n + m > n
    BY <2>2, <1>1
  <2> QED BY <2>3, <2>4 DEF Begins, B, L
<1>5. A \subseteq Nat
  BY <1>3
<1>6. 0 \in A => b \in B
  BY DEF rest
<1> HIDE DEF A, B, L
<1>7. ASSUME NEW m \in A PROVE g[m] \in Q
  <2>1. CASE m = 0
    BY <2>1, <1>6
  <2>2. CASE m # 0
    BY <2>2, <1>4
  <2> QED BY <2>1, <2>2
<1>8. ASSUME NEW i \in A, NEW j \in A, g[i] = g[j] PROVE i = j
  <2>1. i \in Nat /\ j \in Nat /\ b \in Int /\ b <= n /\ n \in Nat
    BY <1>1, <1>5
  <2>2. /\ g[i] = IF i = 0 THEN b ELSE n + i
        /\ g[j] = IF j = 0 THEN b ELSE n + j
    OBVIOUS
  <2> HIDE DEF g
  <2>3. (IF i = 0 THEN b ELSE n + i) = (IF j = 0 THEN b ELSE n + j)
    BY <1>8, <2>2
  <2> QED BY <2>1, <2>3
<1>9. IsFiniteSet(Q)
  <2>1. Q \subseteq 0..L
    BY <1>1
  <2> HIDE DEF Q
  <2> QED BY <1>1, <2>1, OffsetsFinite
<1>10. g \in [A -> Q]
  BY <1>7
<1> HIDE DEF Q, g
<1>11. g \in Injection(A, Q)
  BY <1>8, <1>10 DEF Injection, IsInjective
<1>12. Cardinality(A) <= Cardinality(Q)
  BY <1>9, <1>11, FS_Injection
<1> QED
  BY <1>12 DEF TokenCount, A, Q, B, rest

\* From where the last k tokens start, or later, there are no more than k.
LEMMA TokensOfRest ==
  ASSUME NEW text \in Text, NEW k \in Nat \ {0}, NEW n \in LastTokens(text, k)..Len(text)
  PROVE  TokenCount(From(text, n)) <= k
<1> DEFINE L == Len(text)
           B == Begins(text)
           l == LastTokens(text, k)
           T == Cardinality(B)
           Q(b) == {x \in B : x > n \/ x = b}
<1>1. /\ L \in Nat /\ B \subseteq 0..L /\ TokenCount(text) = T /\ T \in Nat
  BY TokenOffsets DEF TokenCount
<1>2. l \in 0..L
  BY LastTokensRange
<1>3. n \in 0..L /\ n \in Nat /\ l <= n
  BY <1>1, <1>2
<1>4. From(text, n) \in Text /\ Len(From(text, n)) = L - n /\ TokenCount(From(text, n)) \in Nat
  BY <1>3, RestOfText, TokenOffsets
<1>5. CASE TokenCount(text) <= k
  <2>1. \E b \in 0..n : 0 \in Begins(From(text, n)) => b \in B
    <3>1. CASE 0 \in Begins(From(text, n))
      <4>1. 0 \in 0..(L - n) - 1 /\ ~Space(From(text, n)[0 + 1])
        BY <3>1, <1>4 DEF Begins
      <4>2. n \in 0..L - 1 /\ 1 \in 1..L - n
        <5> HIDE DEF L
        <5> QED BY <4>1, <1>1, <1>3
      <4>3. From(text, n)[1] = text[n + 1]
        BY <4>2, <1>3, PartBytes
      <4>4. \E b \in B : b <= n
        BY <4>1, <4>2, <4>3, TokenStarts
      <4>5. \A b \in B : b \in Nat
        BY <1>1
      <4> QED BY <4>4, <4>5, <1>3
    <3>2. CASE 0 \notin Begins(From(text, n))
      BY <3>2, <1>3
    <3> QED BY <3>1, <3>2
  <2>2. PICK b \in 0..n : 0 \in Begins(From(text, n)) => b \in B
    BY <2>1
  <2>3. TokenCount(From(text, n)) <= Cardinality(Q(b))
    BY <2>2, <1>3, RestTokens
  <2>4. Cardinality(Q(b)) \in Nat /\ Cardinality(Q(b)) <= T
    <3>1. Q(b) \subseteq B
      OBVIOUS
    <3> HIDE DEF Q, B
    <3> QED BY <3>1, <1>1, FewerOffsets
  <2> HIDE DEF Q, T
  <2> QED BY <2>3, <2>4, <1>1, <1>4, <1>5
<1>6. CASE ~(TokenCount(text) <= k)
  <2>1. T - k + 1 \in 1..T
    BY <1>1, <1>6
  <2>2. l = Nth(T - k + 1, B)
    BY <1>1, <1>6 DEF LastTokens
  <2>3. l \in B /\ Cardinality({x \in B : x < l}) = (T - k + 1) - 1
    <3> DEFINE j == T - k + 1
    <3> HIDE DEF B, l, j
    <3>1. j \in 1..Cardinality(B) /\ l = Nth(j, B)
      BY <2>1, <2>2 DEF j
    <3>2. Nth(j, B) \in B /\ Cardinality({x \in B : x < Nth(j, B)}) = j - 1
      <4>1. L \in Nat /\ B \subseteq 0..L
        BY <1>1
      <4> HIDE DEF L
      <4> QED BY <4>1, <3>1, NthExists
    <3> QED BY <3>1, <3>2 DEF j
  <2> HIDE DEF l
  <2>4. l \in 0..n
    BY <1>2, <1>3
  <2>5. TokenCount(From(text, n)) <= Cardinality(Q(l))
    BY <2>3, <2>4, <1>3, RestTokens
  <2> DEFINE below == {x \in B : x < l}
  <2>6. IsFiniteSet(B) /\ Cardinality(B \ below) = T - Cardinality(B \cap below)
    <3> HIDE DEF B, below
    <3>1. IsFiniteSet(B)
      BY <1>1, OffsetsFinite
    <3> QED BY <3>1, FS_Difference
  <2>7. B \cap below = below /\ B \ below \subseteq 0..L /\ Q(l) \subseteq B \ below
    <3>1. \A x \in B : x \in Nat
      BY <1>1
    <3>2. \A x \in B : (x > n \/ x = l) => ~(x < l)
      BY <3>1, <1>3, <2>4
    <3> HIDE DEF B
    <3> QED BY <3>2, <1>1
  <2>8. Cardinality(B \ below) = k
    <3>1. Cardinality(B \ below) = T - ((T - k + 1) - 1)
      BY <2>3, <2>6, <2>7
    <3> HIDE DEF T
    <3> QED BY <3>1, <1>1
  <2>9. Cardinality(Q(l)) \in Nat /\ Cardinality(Q(l)) <= k
    <3> HIDE DEF Q, below
    <3> QED BY <1>1, <2>7, <2>8, FewerOffsets
  <2> HIDE DEF Q
  <2> QED BY <2>5, <2>9, <1>4
<1> QED
  BY <1>5, <1>6

\* A text one request can carry.
Fits(text) == TokenCount(text) <= RequestTokens /\ Len(text) <= MaxNewBytes

LEMMA ChunkSizeFits ==
  ASSUME NEW rest \in Text
  PROVE  Fits(Until(rest, ChunkSize(rest)))
<1> DEFINE p == PrefixThroughTokens(rest, RequestTokens)
           n == IF Len(rest) < MaxNewBytes THEN Len(rest) ELSE MaxNewBytes
           q == SafeCut(rest, n)
           size == ChunkSize(rest)
<1>1. Len(rest) \in Nat /\ RequestTokens \in Nat \ {0} /\ MaxNewBytes \in Nat
  BY TranscriptAssumption DEF Text
<1>2. p \in 0..Len(rest)
  BY <1>1, PrefixRange
<1>3. n \in Nat /\ n <= Len(rest) /\ n <= MaxNewBytes
  BY <1>1
<1> HIDE DEF n, p
<1>4. q \in 0..n
  BY <1>3, SafeCutRange
<1>5. size = LeastOf({p, q})
  BY DEF ChunkSize, Utf8SafePrefixBytes, n, p
<1> HIDE DEF q, size
<1>6. {p, q} \subseteq Nat /\ {p, q} # {}
  BY <1>1, <1>2, <1>3, <1>4
<1>7. size \in {p, q} /\ size <= p /\ size <= q
  BY <1>5, <1>6, LeastIsLeast
<1>8. size \in 0..p /\ size \in 0..Len(rest) /\ size <= MaxNewBytes
  BY <1>1, <1>2, <1>3, <1>4, <1>6, <1>7
<1>9. TokenCount(Until(rest, size)) <= RequestTokens
  BY <1>1, <1>8, TokensOfFront DEF p
<1>10. Len(Until(rest, size)) = size
  BY <1>8, RestOfText
<1> QED
  BY <1>8, <1>9, <1>10 DEF Fits, size

LEMMA ChunksFit ==
  ASSUME NEW text \in Text
  PROVE  \A k \in 1..Len(Chunks(text)) : Fits(Chunks(text)[k])
<1> DEFINE c == Cuts(text)
           n == Len(Chunks(text))
           L == Len(text)
<1>1. c \in CutLists(text)
  BY CutsList
<1>2. \A i \in 1..Len(c) - 1 : c[i + 1] = c[i] + ChunkSize(From(text, c[i]))
  BY <1>1 DEF CutLists
<1>3. /\ Len(c) \in Nat /\ n = Len(c) - 1
      /\ \A k \in 1..n : /\ c[k] \in 0..L /\ c[k + 1] \in 0..L /\ c[k] < c[k + 1]
                         /\ Chunks(text)[k] = SubSeq(text, c[k] + 1, c[k + 1])
  BY ChunksOfText
<1>4. L \in Nat
  BY DEF Text
<1> HIDE DEF c, n
<1>5. ASSUME NEW k \in 1..n PROVE Fits(Chunks(text)[k])
  <2> DEFINE a == c[k]
             b == c[k + 1]
             rest == From(text, a)
             size == ChunkSize(rest)
  <2>1. /\ a \in 0..L /\ b \in 0..L /\ a < b /\ Chunks(text)[k] = SubSeq(text, a + 1, b)
        /\ b = a + size
    BY <1>2, <1>3
  <2> HIDE DEF a, b
  <2>2. rest \in Text
    BY <2>1, RestOfText
  <2>3. Fits(Until(rest, size)) /\ size \in 0..Len(rest)
    BY <2>2, ChunkSizeFits, ChunkSizeRange
  <2>4. size \in Nat /\ size >= 1
    <3>1. size \in Int
      BY <2>3
    <3> HIDE DEF size
    <3> QED BY <3>1, <2>1, <1>4
  <2>5. Until(rest, size) = SubSeq(text, a + 1, b)
    <3> HIDE DEF size, L
    <3>1. /\ a + 1 \in 1..L /\ L \in 1..L
          /\ 1 \in 1..L - (a + 1) + 1 /\ size \in 1..L - (a + 1) + 1
          /\ (a + 1) + 1 - 1 = a + 1 /\ (a + 1) + size - 1 = b
      BY <2>1, <2>4, <1>4
    <3>2. SubSeq(SubSeq(text, a + 1, L), 1, size) = SubSeq(text, (a + 1) + 1 - 1, (a + 1) + size - 1)
      BY <3>1, SubSeqOfSubSeq, SMTT(30) DEF Text, L
    <3> QED BY <3>1, <3>2 DEF From, Until, L
  <2> HIDE DEF rest, size
  <2> QED BY <2>1, <2>3, <2>5
<1> QED
  BY <1>5 DEF n

LEMMA JoinedOne ==
  ASSUME NEW spans \in Spans, Len(spans) = 1
  PROVE  Joined(spans) = spans[1].text
<1>1. PICK f : Joins(f, spans) /\ Joined(spans) = f[Len(spans)]
  BY JoinedJoins
<1>2. f[0] = <<>> /\ f[1] = AppendText(f[1 - 1], spans[1].text) /\ Joined(spans) = f[1] /\ 1 - 1 = 0
  BY <1>1 DEF Joins
<1>3. spans[1].text \in Text
  BY SpanTypes
<1>4. <<>> \o spans[1].text = spans[1].text
  BY <1>3, TextConcat
<1>5. AppendText(<<>>, spans[1].text) = <<>> \o spans[1].text
  BY DEF AppendText
<1>6. Joined(spans) = AppendText(<<>>, spans[1].text)
  BY <1>2
<1> QED
  BY <1>4, <1>5, <1>6

\* What the limits keep: spans and requests that fit, a bounded tail.
RequestFits(s) ==
  /\ Fits(s.new)
  /\ TokenCount(s.context) <= ContextTokens /\ Len(s.context) <= MaxReadOnlyBytes
  /\ Len(s.editable) <= MaxEditableBytes + BlankReach

LimitsInv ==
  /\ \A k \in 1..Len(backlog) : Fits(backlog[k].text)
  /\ Len(editable) <= MaxEditableBytes + BlankReach
  /\ \A s \in held : RequestFits(s)

LEMMA ContextFits ==
  ASSUME frozen \in Text
  PROVE  TokenCount(ReadOnlyContext) <= ContextTokens /\ Len(ReadOnlyContext) <= MaxReadOnlyBytes
<1> DEFINE a == LastTokens(frozen, ContextTokens)
           b == Utf8SafeSuffixStart(frozen, MaxReadOnlyBytes)
           n == GreatestOf({a, b})
           L == Len(frozen)
<1>1. L \in Nat /\ MaxReadOnlyBytes \in Nat /\ ContextTokens \in Nat \ {0}
  BY TranscriptAssumption DEF Text
<1>2. a \in 0..L /\ b \in 0..L /\ b >= L - MaxReadOnlyBytes
  BY <1>1, LastTokensRange, SuffixStartRange, SuffixStartWhole
<1>3. ReadOnlyContext = From(frozen, n)
  BY DEF ReadOnlyContext, SuffixByTokens
<1> HIDE DEF a, b, L
<1>4. n \in {a, b} /\ n >= a /\ n >= b
  <2>1. {a, b} \subseteq 0..L /\ {a, b} # {}
    BY <1>2
  <2> QED BY <1>1, <2>1, GreatestIsGreatest
<1> HIDE DEF n
<1>5. n \in a..L /\ n \in 0..L /\ L - n <= MaxReadOnlyBytes
  BY <1>1, <1>2, <1>4
<1>6. TokenCount(From(frozen, n)) <= ContextTokens
  BY <1>1, <1>5, TokensOfRest DEF a, L
<1>7. Len(From(frozen, n)) = L - n
  BY <1>5, RestOfText DEF L
<1> QED
  BY <1>3, <1>5, <1>6, <1>7

LEMMA AddSpansFit ==
  ASSUME backlog \in Spans, nextSpan \in Nat, \A k \in 1..Len(backlog) : Fits(backlog[k].text),
         NEW chunks \in Seq(Text), \A k \in 1..Len(chunks) : Fits(chunks[k]),
         AddSpans(chunks)
  PROVE  \A k \in 1..Len(backlog') : Fits(backlog'[k].text)
<1> DEFINE W == {text \in Text : Fits(text)}
<1>1. \A k \in 1..Len(backlog) : backlog[k].text \in W
  BY SpanTypes
<1>2. \A k \in 1..Len(chunks) : chunks[k] \in W
  BY TextsOfList
<1>3. \A text \in W : Fits(text)
  OBVIOUS
<1> HIDE DEF W
<1> QED
  BY <1>1, <1>2, <1>3, AddSpansKeep

LEMMA LimitsInit == TranscriptInit => LimitsInv
<1> SUFFICES ASSUME TranscriptInit PROVE LimitsInv
  OBVIOUS
<1>1. backlog = <<>> /\ editable = <<>> /\ held = {}
  BY DEF TranscriptInit
<1>2. Len(<<>>) = 0 /\ \A k \in 1..Len(<<>>) : FALSE
  OBVIOUS
<1>3. 0 <= MaxEditableBytes + BlankReach
  BY TranscriptAssumption
<1> QED
  BY <1>1, <1>2, <1>3 DEF LimitsInv

\* A hypothesis adds the spans of a part of it, or it takes all spans away.
LEMMA LimitsHypothesis ==
  ASSUME RegionsInv, LimitsInv, Update \/ Finalize
  PROVE  LimitsInv'
<1>1. UNCHANGED <<editable, held>>
  BY DEF Update, Finalize, tail
<1>2. backlog \in Spans /\ nextSpan \in Nat /\ \A k \in 1..Len(backlog) : Fits(backlog[k].text)
  BY DEF RegionsInv, TextsHold, CountersHold, LimitsInv
<1>3. \/ backlog' = <<>> \/ backlog' = backlog
      \/ AddSpans(<<>>) \/ \E part \in Text : AddSpans(Chunks(part))
  <2>1. CASE Update
    <3>1. PICK text \in Hypotheses : UpdateRevised(text) \/ UpdateExtends(text)
      BY <2>1 DEF Update
    <3>2. CASE UpdateRevised(text)
      BY <3>2 DEF UpdateRevised
    <3>3. CASE UpdateExtends(text)
      <4> DEFINE n == Confirmed(recent')
                 fresh == SubSeq(text, Len(promoted) + 1, n)
      <4>1. UNCHANGED backlog \/ PromoteThrough(text, n)
        BY <3>3 DEF UpdateExtends
      <4>2. UNCHANGED backlog \/ AddSpans(Chunks(fresh))
        BY <4>1 DEF PromoteThrough
      <4>3. fresh \in Text
        <5>1. text \in Text /\ recent \in Seq(Text) /\ promoted \in Text
          BY HypothesisPaired DEF RegionsInv, TextsHold
        <5>2. Last(recent') = text
          BY <3>3, <5>1, RememberedTexts DEF UpdateExtends
        <5>3. n \in 0..Len(text)
          BY <5>1, <5>2, ConfirmedRange
        <5>4. Len(promoted) + 1 \in Nat /\ 1 <= Len(promoted) + 1
          BY <5>1 DEF Text
        <5>5. Paired(text)
          BY HypothesisPaired
        <5> HIDE DEF n
        <5> QED BY <5>1, <5>3, <5>4, <5>5, PartPaired
      <4> HIDE DEF fresh
      <4> QED BY <4>2, <4>3
    <3> QED BY <3>1, <3>2, <3>3
  <2>2. CASE Finalize
    <3>1. PICK text \in Hypotheses :
            IF Revises(text)
            THEN safe' = FALSE /\ backlog' = <<>> /\ UNCHANGED nextSpan
            ELSE /\ AddSpans(IF safe THEN Chunks(From(text, Len(promoted))) ELSE <<>>)
                 /\ UNCHANGED safe
      BY <2>2 DEF Finalize
    <3>2. CASE Revises(text)
      BY <3>1, <3>2
    <3>3. CASE ~Revises(text)
      <4>1. text \in Text /\ promoted \in Text
        BY HypothesisPaired DEF RegionsInv, TextsHold
      <4>2. From(text, Len(promoted)) \in Text
        BY <4>1, <3>3, PromotedPrefix, RestOfText
      <4>3. AddSpans(<<>>) \/ AddSpans(Chunks(From(text, Len(promoted))))
        BY <3>1, <3>3
      <4> QED BY <4>2, <4>3
    <3> QED BY <3>2, <3>3
  <2> QED BY <2>1, <2>2
<1>4. \A k \in 1..Len(backlog') : Fits(backlog'[k].text)
  <2>1. CASE backlog' = <<>>
    <3>1. \A k \in 1..Len(<<>>) : FALSE
      OBVIOUS
    <3> QED BY <2>1, <3>1
  <2>2. CASE backlog' = backlog
    BY <2>2, <1>2
  <2>3. CASE AddSpans(<<>>)
    <3>1. <<>> \in Seq(Text) /\ \A k \in 1..Len(<<>>) : FALSE
      OBVIOUS
    <3>2. \A k \in 1..Len(<<>>) : Fits(<<>>[k])
      BY <3>1
    <3> QED BY <2>3, <1>2, <3>1, <3>2, AddSpansFit
  <2>4. CASE \E part \in Text : AddSpans(Chunks(part))
    <3>1. PICK part \in Text : AddSpans(Chunks(part))
      BY <2>4
    <3>2. Chunks(part) \in Seq(Text) /\ \A k \in 1..Len(Chunks(part)) : Fits(Chunks(part)[k])
      BY ChunksOfText, ChunksFit
    <3> QED BY <1>2, <3>1, <3>2, AddSpansFit
  <2> QED BY <1>3, <2>1, <2>2, <2>3, <2>4
<1> QED
  BY <1>1, <1>4 DEF LimitsInv, RequestFits

LEMMA LimitsSnapshot ==
  ASSUME RegionsInv, CharInv, LimitsInv, MakeSnapshot \/ DropSnapshot
  PROVE  LimitsInv'
<1>1. UNCHANGED <<editable, backlog>>
  BY DEF MakeSnapshot, DropSnapshot, tail
<1>2. \A k \in 1..Len(backlog') : Fits(backlog'[k].text)
  BY <1>1 DEF LimitsInv
<1>3. \A s \in held' : RequestFits(s)
  <2>1. CASE DropSnapshot
    BY <2>1 DEF DropSnapshot, LimitsInv
  <2>2. CASE MakeSnapshot
    <3> DEFINE s == NewSnapshot
               spans == SubSeq(backlog, 1, Requested)
    <3>1. held' = held \cup {s} /\ backlog \in Spans /\ backlog # <<>>
      BY <2>2 DEF MakeSnapshot, RegionsInv, TextsHold
    <3>2. /\ Requested \in 1..Len(backlog) /\ Len(backlog) \in Nat
          /\ \A j \in 2..Requested : Fits(Joined(SubSeq(backlog, 1, j)))
      BY <3>1, RequestedRange, SpanTypes DEF Fits
    <3>3. Fits(Joined(spans))
      <4>1. CASE Requested = 1
        <5>1. 1 \in 0..Len(backlog) /\ 1 \in 1..Len(backlog) /\ 1 \in 1..1
          BY <3>2
        <5>2. spans \in Spans /\ Len(spans) = 1 /\ spans[1] = backlog[1]
          BY <3>1, <4>1, <5>1, FrontSpans
        <5> HIDE DEF spans
        <5>3. Joined(spans) = backlog[1].text
          BY <5>2, JoinedOne
        <5> QED BY <5>1, <5>3 DEF LimitsInv
      <4>2. CASE Requested # 1
        <5>1. Requested \in 2..Requested
          BY <3>2, <4>2
        <5> QED BY <3>2, <5>1
      <4> QED BY <4>1, <4>2
    <3> HIDE DEF spans
    <3>4. s.new = Joined(spans) /\ s.context = ReadOnlyContext /\ s.editable = editable
      BY DEF NewSnapshot, spans
    <3>5. TokenCount(ReadOnlyContext) <= ContextTokens /\ Len(ReadOnlyContext) <= MaxReadOnlyBytes
      BY ContextFits DEF CharInv
    <3> HIDE DEF s
    <3>6. RequestFits(s)
      BY <3>3, <3>4, <3>5 DEF RequestFits, LimitsInv
    <3> QED BY <3>1, <3>6 DEF LimitsInv
  <2> QED BY <2>1, <2>2
<1> QED
  BY <1>1, <1>2, <1>3 DEF LimitsInv, RequestFits

LEMMA LimitsReplace ==
  ASSUME RegionsInv, LimitsInv, NEW s \in held, CanCommit(s), NEW text \in Text, ReplaceTail(s, text)
  PROVE  LimitsInv'
<1> DEFINE split == EditableSuffixStart(text, EditableTokens)
           L == Len(text)
<1>1. ConsumeStableSpans(s) /\ UNCHANGED held /\ editable' = From(text, split)
  BY DEF ReplaceTail, FreezeOldEditable
<1>2. PICK k \in 1..Len(backlog) : backlog' = From(backlog, k)
  BY <1>1, CommitSplits
<1>3. backlog \in Spans /\ Len(backlog) \in Nat
  BY SpanTypes DEF RegionsInv, TextsHold
<1>4. \A j \in 1..Len(backlog') : Fits(backlog'[j].text)
  <2> DEFINE m == Len(backlog)
  <2>1. k \in 0..m
    BY <1>3
  <2>2. Len(backlog') = m - k /\ \A j \in 1..m - k : backlog'[j] = backlog[k + j]
    BY <1>2, <1>3, <2>1, SplitSpans
  <2>3. m \in Nat /\ k \in 1..m
    BY <1>3
  <2>4. \A j \in 1..m : Fits(backlog[j].text)
    BY DEF LimitsInv
  <2> HIDE DEF m
  <2>5. \A j \in 1..m - k : k + j \in 1..m
    BY <2>3
  <2> QED BY <2>2, <2>4, <2>5
<1>5. split \in 0..L /\ split >= L - MaxEditableBytes - BlankReach
  BY EditableStartRange, EditableStartWhole
<1> HIDE DEF split
<1>6. Len(editable') = L - split
  BY <1>1, <1>5, RestOfText
<1>7. L \in Nat /\ MaxEditableBytes \in Nat /\ BlankReach \in Nat
  BY TranscriptAssumption DEF Text
<1> HIDE DEF L
<1>8. L - split <= MaxEditableBytes + BlankReach
  BY <1>5, <1>7
<1> QED
  BY <1>1, <1>4, <1>6, <1>8 DEF LimitsInv, RequestFits

LEMMA LimitsNext ==
  ASSUME ReplacementsAreTexts, RegionsInv, CharInv, LimitsInv, [TranscriptNext]_vars
  PROVE  LimitsInv'
<1>1. CASE Reset
  <2>1. editable' = <<>> /\ backlog' = <<>> /\ held' = held
    BY <1>1 DEF Reset
  <2>2. Len(<<>>) = 0 /\ \A k \in 1..Len(<<>>) : FALSE
    OBVIOUS
  <2>3. 0 <= MaxEditableBytes + BlankReach
    BY TranscriptAssumption
  <2> QED BY <2>1, <2>2, <2>3 DEF LimitsInv, RequestFits
<1>2. CASE Update \/ Finalize
  BY <1>2, LimitsHypothesis
<1>3. CASE MakeSnapshot \/ DropSnapshot
  BY <1>3, LimitsSnapshot
<1>4. CASE Commit
  <2>0. PICK s \in held : \E text \in Replacements(s) :
          /\ CanCommit(s)
          /\ ReplaceTail(s, text) \/ ReplaceTail(s, AppendText(editable, s.new))
    BY <1>4 DEF Commit
  <2>1. PICK text \in Replacements(s) :
          /\ CanCommit(s)
          /\ ReplaceTail(s, text) \/ ReplaceTail(s, AppendText(editable, s.new))
    BY <2>0
  <2>2. text \in Text /\ AppendText(editable, s.new) \in Text
    BY LettersAppendText DEF ReplacementsAreTexts, CharInv, SnapshotWhole
  <2> QED BY <2>1, <2>2, LimitsReplace
<1>5. CASE PreserveRaw
  <2>1. PICK s \in held : CanCommit(s) /\ ReplaceTail(s, AppendText(editable, s.new))
    BY <1>5 DEF PreserveRaw
  <2>2. AppendText(editable, s.new) \in Text
    BY LettersAppendText DEF CharInv, SnapshotWhole
  <2> QED BY <2>1, <2>2, LimitsReplace
<1>6. CASE BeginSegment \/ UNCHANGED vars
  <2>1. UNCHANGED <<editable, backlog, held>>
    BY <1>6 DEF BeginSegment, vars
  <2> QED BY <2>1 DEF LimitsInv, RequestFits
<1> QED
  BY <1>1, <1>2, <1>3, <1>4, <1>5, <1>6 DEF TranscriptNext

\* No request exceeds its limits, whatever they are, however long a dictation is
\* and however the caller's answers grow.
THEOREM NoRequestTooLong ==
  ASSUME ReplacementsAreTexts
  PROVE  TranscriptSpec => []RequestsBounded
<1>1. TranscriptInit => CharInv /\ LimitsInv
  BY CharInit, LimitsInit
<1>2. RegionsInv /\ CharInv /\ LimitsInv /\ [TranscriptNext]_vars => CharInv' /\ LimitsInv'
  BY CharNext, LimitsNext
<1>3. LimitsInv => RequestsBounded
  BY DEF LimitsInv, RequestFits, Fits, RequestsBounded
<1> QED
  BY <1>1, <1>2, <1>3, RegionsInvariant, PTL DEF TranscriptSpec
=============================================================================
