----------------------------- MODULE SimFlowProofs -----------------------------
(***************************************************************************)
(* Theorems about an invocation, for every input: the jobs it gives to the  *)
(* scheduler are a graph the scheduler can run, and the exit code tells     *)
(* what became of them.                                                    *)
(***************************************************************************)
EXTENDS SimFlow, SequenceTheorems, FiniteSetTheorems, WellFoundedInduction, TLAPS

-----------------------------------------------------------------------------
(* Folds.  Induction over numbers takes the form of a least one for which a *)
(* fact fails.                                                             *)
LEMMA Least ==
  ASSUME NEW T \in SUBSET Nat, T # {}
  PROVE  \E m \in T : \A k \in T : m <= k
<1> DEFINE R == OpToRel(<, Nat)
<1>1. \A x, y \in Nat : x < y => <<x, y>> \in R
  BY DEF OpToRel
<1>2. IsWellFoundedOn(R, Nat)
  BY NatLessThanWellFounded
<1> HIDE DEF R
<1>3. PICK m \in T : \A k \in T : ~(<<k, m>> \in R)
  BY <1>2, WFMin
<1>4. ASSUME NEW k \in T PROVE m <= k
  <2>1. k \in Nat /\ m \in Nat
    OBVIOUS
  <2>2. ~(k < m)
    BY <1>1, <1>3, <2>1
  <2>3. QED BY <2>1, <2>2
<1>5. QED BY <1>4

(* G is a set of numbers from 0 to n that has 0 and every successor.        *)
LEMMA Climb ==
  ASSUME NEW n \in Nat, NEW G, 0 \in G, \A k \in 1..n : k - 1 \in G => k \in G
  PROVE  \A k \in 0..n : k \in G
<1> DEFINE T == {k \in 0..n : k \notin G}
<1>1. ASSUME T # {} PROVE FALSE
  <2>1. PICK m \in T : \A k \in T : m <= k
    <3>1. T \in SUBSET Nat
      OBVIOUS
    <3> HIDE DEF T
    <3>2. QED BY <1>1, <3>1, Least
  <2>2. m \in 0..n /\ m # 0 /\ m \notin G
    OBVIOUS
  <2>3. m - 1 \in 0..n /\ ~(m <= m - 1)
    BY <2>2
  <2>4. m - 1 \in G
    BY <2>1, <2>3
  <2>5. QED BY <2>2, <2>4
<1>2. QED BY <1>1

(* A fold over 1..n by a step function: the largest of a set comes last.    *)
FoldsBy(h, step, base, n) ==
  h = [s \in SUBSET (1..n) |->
         IF s = {} THEN base ELSE step[<<Max(s), h[s \ {Max(s)}]>>]]

LEMMA MaxIs ==
  ASSUME NEW s \in SUBSET Int, NEW m \in s, \A k \in s : k <= m
  PROVE  Max(s) = m
<1>1. \A y \in s : m >= y
  OBVIOUS
<1>2. Max(s) \in s /\ \A y \in s : Max(s) >= y
  BY <1>1 DEF Max
<1> DEFINE x == Max(s)
<1>3. x \in s /\ x >= m
  BY <1>2
<1> HIDE DEF x
<1>4. x \in Int /\ m \in Int /\ x <= m
  BY <1>3
<1>5. x = m
  BY <1>3, <1>4
<1>6. QED BY <1>5 DEF x

LEMMA MaxBelow ==
  ASSUME NEW n \in Nat, NEW s \in SUBSET (1..n), s # {}
  PROVE  Max(s) \in s /\ \A k \in s : k <= Max(s)
<1> DEFINE T == {n - k : k \in s}
<1>1. PICK d \in T : \A e \in T : d <= e
  <2>1. T \in SUBSET Nat /\ T # {}
    <3>1. \A k \in s : n - k \in Nat
      OBVIOUS
    <3>2. QED BY <3>1
  <2> HIDE DEF T
  <2>2. QED BY <2>1, Least
<1>2. n - d \in s /\ \A k \in s : k <= n - d
  <2>1. PICK k \in s : d = n - k
    BY <1>1
  <2>2. n - d = k
    BY <2>1
  <2>3. \A l \in s : n - l \in T
    OBVIOUS
  <2>4. \A l \in s : d <= n - l
    BY <1>1, <2>3
  <2>5. QED BY <2>1, <2>2, <2>4
<1>3. QED BY <1>2, MaxIs

LEMMA FoldExists ==
  ASSUME NEW n \in Nat, NEW Acc, NEW base \in Acc, NEW step \in [(1..n) \X Acc -> Acc]
  PROVE  \E h \in [SUBSET (1..n) -> Acc] : FoldsBy(h, step, base, n)
<1> DEFINE Good(m) == \E h \in [SUBSET (1..m) -> Acc] : FoldsBy(h, step, base, m)
           G == {m \in 0..n : Good(m)}
<1>1. 0 \in G
  <2> DEFINE h == [s \in SUBSET (1..0) |-> base]
  <2>1. 1..0 = {}
    OBVIOUS
  <2>2. h \in [SUBSET (1..0) -> Acc]
    OBVIOUS
  <2>3. h = [s \in SUBSET (1..0) |->
               IF s = {} THEN base ELSE step[<<Max(s), h[s \ {Max(s)}]>>]]
    BY <2>1
  <2>4. FoldsBy(h, step, base, 0)
    BY <2>3 DEF FoldsBy
  <2> HIDE DEF h
  <2>5. Good(0)
    BY <2>2, <2>4
  <2> HIDE DEF Good
  <2>6. QED BY <2>5
<1>2. ASSUME NEW m \in 1..n, m - 1 \in G PROVE m \in G
  <2>1. PICK h \in [SUBSET (1..m - 1) -> Acc] : FoldsBy(h, step, base, m - 1)
    BY <1>2
  <2> DEFINE g == [s \in SUBSET (1..m) |-> IF m \in s THEN step[<<m, h[s \ {m}]>>] ELSE h[s]]
  <2>2. \A s \in SUBSET (1..m) : s \ {m} \in SUBSET (1..m - 1)
    OBVIOUS
  <2>3. \A s \in SUBSET (1..m) : m \notin s => s \in SUBSET (1..m - 1)
    OBVIOUS
  <2>4. g \in [SUBSET (1..m) -> Acc]
    <3>1. ASSUME NEW s \in SUBSET (1..m) PROVE g[s] \in Acc
      <4>1. CASE m \in s
        <5>1. h[s \ {m}] \in Acc
          BY <2>2
        <5>2. QED BY <4>1, <5>1
      <4>2. CASE m \notin s
        BY <2>3, <4>2
      <4>3. QED BY <4>1, <4>2
    <3>2. QED BY <3>1
  <2>5. ASSUME NEW s \in SUBSET (1..m)
        PROVE  g[s] = IF s = {} THEN base ELSE step[<<Max(s), g[s \ {Max(s)}]>>]
    <3>1. CASE m \in s
      <4>1. Max(s) = m
        <5>1. s \in SUBSET Int /\ \A k \in s : k <= m
          OBVIOUS
        <5>2. QED BY <3>1, <5>1, MaxIs
      <4>2. g[s] = step[<<m, h[s \ {m}]>>]
        BY <3>1
      <4>3. g[s \ {m}] = h[s \ {m}]
        BY <2>2
      <4>4. QED BY <3>1, <4>1, <4>2, <4>3
    <3>2. CASE m \notin s
      <4>1. s \in SUBSET (1..m - 1) /\ g[s] = h[s]
        BY <2>3, <3>2
      <4>2. h[s] = IF s = {} THEN base ELSE step[<<Max(s), h[s \ {Max(s)}]>>]
        BY <2>1, <4>1 DEF FoldsBy
      <4>3. g[s \ {Max(s)}] = h[s \ {Max(s)}]
        <5>1. m \notin s \ {Max(s)} /\ s \ {Max(s)} \in SUBSET (1..m)
          BY <3>2
        <5>2. QED BY <5>1
      <4>4. QED BY <4>1, <4>2, <4>3
    <3>3. QED BY <3>1, <3>2
  <2>6. FoldsBy(g, step, base, m)
    <3>1. g = [s \in SUBSET (1..m) |-> g[s]]
      OBVIOUS
    <3> HIDE DEF g
    <3>2. QED BY <2>5, <3>1 DEF FoldsBy
  <2> HIDE DEF g
  <2>7. QED BY <2>4, <2>6
<1> HIDE DEF G
<1>3. n \in G
  BY <1>1, <1>2, Climb
<1>4. QED BY <1>3 DEF G

LEMMA InitialParts ==
  ASSUME NEW n \in Nat
  PROVE  /\ 1..0 = {}
         /\ \A k \in 1..n : /\ 1..k \in SUBSET (1..n) /\ 1..k # {}
                           /\ Max(1..k) = k /\ (1..k) \ {k} = 1..k - 1
<1>1. ASSUME NEW k \in 1..n PROVE Max(1..k) = k
  <2>1. 1..k \in SUBSET Int /\ k \in 1..k /\ \A i \in 1..k : i <= k
    OBVIOUS
  <2>2. QED BY <2>1, MaxIs
<1>2. QED BY <1>1

(* What the n steps of a fold leave, from base on.                         *)
LEMMA FoldSteps ==
  ASSUME NEW n \in Nat, NEW Acc, NEW base \in Acc, NEW step \in [(1..n) \X Acc -> Acc],
         NEW h, FoldsBy(h, step, base, n)
  PROVE  /\ h[1..0] = base
         /\ \A k \in 0..n : h[1..k] \in Acc
         /\ \A k \in 1..n : h[1..k] = step[<<k, h[1..k - 1]>>]
<1>1. \A s \in SUBSET (1..n) : h[s] = IF s = {} THEN base ELSE step[<<Max(s), h[s \ {Max(s)}]>>]
  BY DEF FoldsBy
<1>2. h[1..0] = base
  BY <1>1, InitialParts
<1>3. ASSUME NEW k \in 1..n PROVE h[1..k] = step[<<k, h[1..k - 1]>>]
  <2>1. /\ 1..k \in SUBSET (1..n) /\ 1..k # {}
        /\ Max(1..k) = k /\ (1..k) \ {k} = 1..k - 1
    BY InitialParts
  <2>2. h[1..k] = step[<<Max(1..k), h[(1..k) \ {Max(1..k)}]>>]
    BY <1>1, <2>1
  <2>3. QED BY <2>1, <2>2
<1> DEFINE G == {k \in 0..n : h[1..k] \in Acc}
<1>4. 0 \in G
  BY <1>2
<1>5. ASSUME NEW k \in 1..n, k - 1 \in G PROVE k \in G
  <2>1. h[1..k - 1] \in Acc /\ k \in 0..n
    BY <1>5
  <2>2. step[<<k, h[1..k - 1]>>] \in Acc
    BY <2>1
  <2>3. QED BY <1>3, <2>1, <2>2
<1> HIDE DEF G
<1>6. \A k \in 0..n : k \in G
  BY <1>4, <1>5, Climb
<1>7. QED BY <1>2, <1>3, <1>6 DEF G

-----------------------------------------------------------------------------
(* A line takes one occurrence of a pattern off a list, if it has one.      *)
CrossedAt(left, rest, m) ==
  /\ Len(rest) = Len(left) - 1
  /\ \A i \in 1..Len(left) - 1 : rest[i] = left[IF i < m THEN i ELSE i + 1]

LEMMA CrossOffDoes ==
  ASSUME NEW P, NEW left \in Seq(P), NEW l
  PROVE  /\ CrossOff(left, l) \in Seq(P)
         /\ \/ CrossOff(left, l) = left /\ \A i \in 1..Len(left) : left[i] \notin l.hits
            \/ \E m \in 1..Len(left) :
                 left[m] \in l.hits /\ CrossedAt(left, CrossOff(left, l), m)
<1> DEFINE I == {i \in 1..Len(left) : left[i] \in l.hits}
           m == Min(I)
<1>1. SelectInSeq(left, LAMBDA p : p \in l.hits) = IF I # {} THEN m ELSE 0
  BY DEF SelectInSeq
<1>2. CASE I = {}
  <2>1. CrossOff(left, l) = left
    BY <1>1, <1>2 DEF CrossOff
  <2>2. QED BY <1>2, <2>1
<1>3. CASE I # {}
  <2>1. m \in I
    <3>1. PICK x \in I : \A k \in I : x <= k
      <4>1. I \in SUBSET Nat
        OBVIOUS
      <4> HIDE DEF I
      <4>2. QED BY <1>3, <4>1, Least
    <3> HIDE DEF I
    <3>2. QED BY <3>1 DEF Min
  <2> HIDE DEF m
  <2>2. m \in 1..Len(left) /\ left[m] \in l.hits /\ m # 0
    BY <2>1
  <2>3. CrossOff(left, l) = SubSeq(left, 1, m - 1) \o SubSeq(left, m + 1, Len(left))
    BY <1>1, <1>3, <2>2 DEF CrossOff, RemoveAt
  <2> DEFINE a == SubSeq(left, 1, m - 1)
             b == SubSeq(left, m + 1, Len(left))
  <2>4. a \in Seq(P) /\ Len(a) = m - 1 /\ \A i \in 1..m - 1 : a[i] = left[i]
    BY <2>2
  <2>5. b \in Seq(P) /\ Len(b) = Len(left) - m /\ \A i \in 1..Len(left) - m : b[i] = left[m + i]
    BY <2>2
  <2> HIDE DEF a, b
  <2>6. /\ a \o b \in Seq(P) /\ Len(a \o b) = Len(left) - 1
        /\ \A i \in 1..Len(left) - 1 : (a \o b)[i] = IF i <= m - 1 THEN a[i] ELSE b[i - (m - 1)]
    <3>1. /\ a \o b \in Seq(P) /\ Len(a \o b) = Len(a) + Len(b)
          /\ \A i \in 1..Len(a) + Len(b) :
               (a \o b)[i] = IF i <= Len(a) THEN a[i] ELSE b[i - Len(a)]
      BY <2>4, <2>5, ConcatProperties
    <3>2. Len(a) = m - 1 /\ Len(a) + Len(b) = Len(left) - 1
      BY <2>2, <2>4, <2>5
    <3>3. QED BY <3>1, <3>2
  <2>7. ASSUME NEW i \in 1..Len(left) - 1
        PROVE  (a \o b)[i] = left[IF i < m THEN i ELSE i + 1]
    <3>1. CASE i < m
      BY <2>2, <2>4, <2>6, <3>1
    <3>2. CASE ~(i < m)
      <4>1. i - (m - 1) \in 1..Len(left) - m /\ m + (i - (m - 1)) = i + 1 /\ ~(i <= m - 1)
        BY <2>2, <3>2
      <4>2. QED BY <2>5, <2>6, <3>2, <4>1
    <3>3. QED BY <3>1, <3>2
  <2>8. QED BY <2>2, <2>3, <2>6, <2>7 DEF a, b, CrossedAt
<1>4. QED BY <1>2, <1>3

(* The patterns that the lines of a log leave, one line after the other.    *)
Remaining(pass, lines) == FoldLeft(CrossOff, pass, lines)
CrossesOff(r, P, pass, lines) ==
  /\ r \in [0..Len(lines) -> Seq(P)]
  /\ r[0] = pass
  /\ \A k \in 1..Len(lines) : r[k] = CrossOff(r[k - 1], lines[k])
  /\ Remaining(pass, lines) = r[Len(lines)]

LEMMA LeftFolds ==
  ASSUME NEW pass, NEW P, pass \in Seq(P), NEW lines, NEW L, lines \in Seq(L)
  PROVE  \E r : CrossesOff(r, P, pass, lines)
<1> DEFINE n == Len(lines)
           step == [x \in (1..n) \X Seq(P) |-> CrossOff(x[2], lines[x[1]])]
           Rec(h) == h = [s \in SUBSET DOMAIN lines |->
                            IF s = {} THEN pass ELSE CrossOff(h[s \ {Max(s)}], lines[Max(s)])]
           h == CHOOSE h : Rec(h)
<1>1. Remaining(pass, lines) = h[DOMAIN lines]
  BY DEF Remaining, FoldLeft, MapThenFoldSet
<1>2. n \in Nat /\ DOMAIN lines = 1..n /\ \A k \in 1..n : lines[k] \in L
  OBVIOUS
<1>3. step \in [(1..n) \X Seq(P) -> Seq(P)]
  <2>1. \A left \in Seq(P), l \in L : CrossOff(left, l) \in Seq(P)
    BY CrossOffDoes
  <2>2. QED BY <1>2, <2>1
<1> HIDE DEF n
<1>4. PICK g \in [SUBSET (1..n) -> Seq(P)] : FoldsBy(g, step, pass, n)
  <2> HIDE DEF step
  <2>1. QED BY <1>2, <1>3, FoldExists
<1>5. Rec(g)
  <2>1. ASSUME NEW s \in SUBSET (1..n), s # {}
        PROVE  step[<<Max(s), g[s \ {Max(s)}]>>] = CrossOff(g[s \ {Max(s)}], lines[Max(s)])
    <3>1. Max(s) \in 1..n /\ s \ {Max(s)} \in SUBSET (1..n)
      BY <1>2, <2>1, MaxBelow
    <3>2. QED BY <3>1
  <2>2. QED BY <1>2, <1>4, <2>1 DEF FoldsBy
<1>6. Rec(h)
  <2> HIDE DEF Rec
  <2>1. QED BY <1>5
<1> HIDE DEF h
<1>7. h = [s \in SUBSET (1..n) |->
             IF s = {} THEN pass ELSE CrossOff(h[s \ {Max(s)}], lines[Max(s)])]
  BY <1>2, <1>6
<1> DEFINE r == [k \in 0..n |-> h[1..k]]
<1>8. r[0] = pass
  BY <1>2, <1>7, InitialParts
<1>9. ASSUME NEW k \in 1..n PROVE r[k] = CrossOff(r[k - 1], lines[k])
  <2>1. /\ 1..k \in SUBSET (1..n) /\ 1..k # {}
        /\ Max(1..k) = k /\ (1..k) \ {k} = 1..k - 1
    BY <1>2, InitialParts
  <2>2. h[1..k] = CrossOff(h[(1..k) \ {Max(1..k)}], lines[Max(1..k)])
    BY <1>7, <2>1
  <2>3. k - 1 \in 0..n /\ k \in 0..n
    BY <1>2
  <2>4. QED BY <2>1, <2>2, <2>3
<1> DEFINE G == {k \in 0..n : r[k] \in Seq(P)}
<1>10. \A k \in 0..n : k \in G
  <2>1. 0 \in G
    BY <1>2, <1>8
  <2>2. ASSUME NEW k \in 1..n, k - 1 \in G PROVE k \in G
    <3>1. r[k - 1] \in Seq(P) /\ lines[k] \in L /\ k \in 0..n
      BY <1>2, <2>2
    <3>2. CrossOff(r[k - 1], lines[k]) \in Seq(P)
      BY <3>1, CrossOffDoes
    <3> HIDE DEF r
    <3>3. QED BY <1>9, <3>1, <3>2
  <2> HIDE DEF G
  <2>3. QED BY <1>2, <2>1, <2>2, Climb
<1>11. r \in [0..n -> Seq(P)]
  BY <1>10
<1>12. Remaining(pass, lines) = r[n]
  BY <1>1, <1>2
<1> HIDE DEF r
<1>13. CrossesOff(r, P, pass, lines)
  BY <1>8, <1>9, <1>11, <1>12 DEF n, CrossesOff
<1>14. QED BY <1>13

(* An element in a sequence is one of its values, and the other way round.  *)
LEMMA Values ==
  ASSUME NEW S, NEW s \in Seq(S)
  PROVE  /\ ToSet(s) = {s[i] : i \in 1..Len(s)}
         /\ s = <<>> <=> ToSet(s) = {}
         /\ ToSet(s) \subseteq S
<1>1. DOMAIN s = 1..Len(s) /\ Len(s) \in Nat
  OBVIOUS
<1>2. ToSet(s) = {s[i] : i \in 1..Len(s)}
  BY <1>1 DEF ToSet
<1>3. ASSUME s # <<>> PROVE s[1] \in ToSet(s)
  <2>1. Len(s) # 0
    BY <1>3
  <2>2. 1 \in 1..Len(s)
    BY <1>1, <2>1
  <2>3. QED BY <1>2, <2>2
<1>4. s = <<>> => ToSet(s) = {}
  BY <1>2
<1>5. ToSet(s) \subseteq S
  BY <1>2
<1>6. QED BY <1>2, <1>3, <1>4, <1>5

(* All patterns that are crossed off were found.                           *)
LEMMA AllFound ==
  ASSUME NEW pass, NEW P, pass \in Seq(P), NEW lines, NEW L, lines \in Seq(L)
  PROVE  Remaining(pass, lines) = <<>> => ToSet(pass) \subseteq UNION {l.hits : l \in ToSet(lines)}
<1> DEFINE n == Len(lines)
<1>1. n \in Nat /\ \A k \in 1..n : lines[k] \in ToSet(lines) /\ lines[k] \in L
  BY Values
<1>2. PICK r \in [0..n -> Seq(P)] :
        /\ r[0] = pass
        /\ \A k \in 1..n : r[k] = CrossOff(r[k - 1], lines[k])
        /\ Remaining(pass, lines) = r[n]
  <2>1. PICK r : CrossesOff(r, P, pass, lines)
    BY LeftFolds
  <2>2. QED BY <2>1 DEF CrossesOff
<1> HIDE DEF n
<1> DEFINE seen == UNION {l.hits : l \in ToSet(lines)}
           G == {k \in 0..n : ToSet(pass) \subseteq ToSet(r[k]) \cup seen}
<1>3. 0 \in G
  BY <1>1, <1>2
<1>4. ASSUME NEW k \in 1..n, k - 1 \in G PROVE k \in G
  <2> DEFINE left == r[k - 1]
             rest == r[k]
  <2>1. left \in Seq(P) /\ rest \in Seq(P) /\ rest = CrossOff(left, lines[k]) /\ k \in 0..n
    <3> HIDE DEF G
    <3>1. k - 1 \in 0..n /\ k \in 0..n
      BY <1>1
    <3>2. left \in Seq(P) /\ rest \in Seq(P)
      BY <1>2, <3>1
    <3>3. QED BY <1>2, <3>1, <3>2
  <2>2. ToSet(pass) \subseteq ToSet(left) \cup seen
    BY <1>4
  <2>3. lines[k].hits \subseteq seen
    BY <1>1
  <2> HIDE DEF left, rest
  <2>4. ToSet(left) \subseteq ToSet(rest) \cup seen
    <3>1. CASE rest = left
      BY <3>1
    <3>2. ASSUME NEW m \in 1..Len(left), left[m] \in lines[k].hits, CrossedAt(left, rest, m)
          PROVE  ToSet(left) \subseteq ToSet(rest) \cup seen
      <4>1. ASSUME NEW i \in 1..Len(left), i # m PROVE left[i] \in ToSet(rest)
        <5> DEFINE j == IF i < m THEN i ELSE i - 1
        <5>1. j \in 1..Len(left) - 1 /\ (IF j < m THEN j ELSE j + 1) = i
          BY <2>1, <4>1
        <5>2. rest[j] = left[i] /\ j \in 1..Len(rest)
          BY <3>2, <5>1 DEF CrossedAt
        <5> HIDE DEF j
        <5>3. QED BY <2>1, <5>2, Values
      <4>2. left[m] \in seen
        BY <2>3, <3>2
      <4>3. QED BY <2>1, <4>1, <4>2, Values
    <3>3. QED BY <2>1, <3>1, <3>2, CrossOffDoes
  <2>5. QED BY <2>1, <2>2, <2>4 DEF rest
<1> HIDE DEF G
<1>5. n \in G
  <2>1. n \in Nat
    BY <1>1
  <2>2. \A k \in 0..n : k \in G
    BY <1>3, <1>4, <2>1, Climb
  <2>3. QED BY <2>1, <2>2
<1>6. ToSet(<<>>) = {}
  BY DEF ToSet
<1>7. QED BY <1>2, <1>5, <1>6 DEF G

(* If each pattern is given once, and no line has two of them, those that   *)
(* are found are all crossed off.                                          *)
LEMMA FoundOnce ==
  ASSUME NEW pass, NEW P, pass \in Seq(P), NEW lines, NEW L, lines \in Seq(L),
         ToSet(pass) \subseteq UNION {l.hits : l \in ToSet(lines)},
         \A i, j \in DOMAIN pass : pass[i] = pass[j] => i = j,
         \A l \in ToSet(lines) : \A p, q \in l.hits \cap ToSet(pass) : p = q
  PROVE  Remaining(pass, lines) = <<>>
<1> DEFINE n == Len(lines)
<1>1. /\ n \in Nat /\ ToSet(lines) = {lines[k] : k \in 1..n}
      /\ \A k \in 1..n : lines[k] \in ToSet(lines) /\ lines[k] \in L
  BY Values
<1>2. PICK r \in [0..n -> Seq(P)] :
        /\ r[0] = pass
        /\ \A k \in 1..n : r[k] = CrossOff(r[k - 1], lines[k])
        /\ Remaining(pass, lines) = r[n]
  <2>1. PICK r : CrossesOff(r, P, pass, lines)
    BY LeftFolds
  <2>2. QED BY <2>1 DEF CrossesOff
<1> HIDE DEF n
<1> DEFINE Once(left) == \A i, j \in 1..Len(left) : left[i] = left[j] => i = j
           None_(left, k) == \A p \in ToSet(left) : \A h \in 1..k : p \notin lines[h].hits
           G == {k \in 0..n : Once(r[k]) /\ ToSet(r[k]) \subseteq ToSet(pass) /\ None_(r[k], k)}
<1>3. 0 \in G
  BY <1>1, <1>2
<1>5. ASSUME NEW k \in 1..n, k - 1 \in G PROVE k \in G
  <2> DEFINE left == r[k - 1]
             rest == r[k]
  <2>1. left \in Seq(P) /\ rest \in Seq(P) /\ rest = CrossOff(left, lines[k]) /\ k \in 0..n
    <3> HIDE DEF G
    <3>1. k - 1 \in 0..n /\ k \in 0..n
      BY <1>1
    <3>2. left \in Seq(P) /\ rest \in Seq(P)
      BY <1>2, <3>1
    <3>3. QED BY <1>2, <3>1, <3>2
  <2>2. Once(left) /\ ToSet(left) \subseteq ToSet(pass) /\ None_(left, k - 1)
    BY <1>5
  <2>3. lines[k] \in ToSet(lines)
    BY <1>1
  <2> HIDE DEF left, rest
  <2>4. ToSet(rest) = {rest[i] : i \in 1..Len(rest)}
    BY <2>1, Values
  <2>5. Once(rest) /\ ToSet(rest) \subseteq ToSet(left)
        /\ \A p \in ToSet(rest) : p \notin lines[k].hits
    <3>1. CASE rest = left /\ \A i \in 1..Len(left) : left[i] \notin lines[k].hits
      <4>1. ToSet(left) = {left[i] : i \in 1..Len(left)}
        BY <2>1, Values
      <4>2. QED BY <2>2, <3>1, <4>1
    <3>2. ASSUME NEW m \in 1..Len(left), left[m] \in lines[k].hits, CrossedAt(left, rest, m)
          PROVE  /\ Once(rest) /\ ToSet(rest) \subseteq ToSet(left)
                 /\ \A p \in ToSet(rest) : p \notin lines[k].hits
      <4> DEFINE At(i) == IF i < m THEN i ELSE i + 1
      <4>1. Len(left) \in Nat /\ Len(rest) = Len(left) - 1
            /\ \A i \in 1..Len(rest) : rest[i] = left[At(i)]
        BY <2>1, <3>2 DEF CrossedAt
      <4>2. \A i \in 1..Len(rest) : At(i) \in 1..Len(left) /\ At(i) # m
        BY <4>1
      <4>3. \A i, j \in 1..Len(rest) : At(i) = At(j) => i = j
        BY <4>1
      <4> HIDE DEF At
      <4>4. Once(rest)
        BY <2>2, <4>1, <4>2, <4>3
      <4>5. ToSet(rest) \subseteq ToSet(left)
        <5>1. /\ ToSet(left) = {left[i] : i \in 1..Len(left)}
              /\ ToSet(rest) = {rest[i] : i \in 1..Len(rest)}
          <6>1. ToSet(left) = {left[i] : i \in 1..Len(left)}
            BY <2>1, Values
          <6>2. QED BY <2>4, <6>1
        <5>2. QED BY <4>1, <4>2, <5>1
      <4>6. ASSUME NEW i \in 1..Len(rest), rest[i] \in lines[k].hits PROVE FALSE
        <5>1. left[At(i)] # left[m]
          BY <2>2, <4>2
        <5>2. left[At(i)] \in ToSet(pass) /\ left[m] \in ToSet(pass)
          <6>1. ToSet(left) = {left[h] : h \in 1..Len(left)}
            BY <2>1, Values
          <6>2. left[At(i)] \in ToSet(left) /\ left[m] \in ToSet(left)
            BY <3>2, <4>2, <4>6, <6>1
          <6>3. QED BY <2>2, <6>2
        <5>3. left[At(i)] \in lines[k].hits
          BY <4>1, <4>6
        <5>4. QED BY <2>3, <3>2, <5>1, <5>2, <5>3
      <4>7. QED BY <2>4, <4>4, <4>5, <4>6
    <3>3. QED BY <2>1, <3>1, <3>2, CrossOffDoes
  <2>6. None_(rest, k)
    <3>1. \A h \in 1..k : h = k \/ h \in 1..k - 1
      BY <1>1
    <3>2. QED BY <2>2, <2>5, <3>1
  <2>7. QED BY <2>1, <2>2, <2>5, <2>6 DEF rest
<1>6. n \in G
  <2> HIDE DEF G
  <2>1. n \in Nat
    BY <1>1
  <2>2. \A k \in 0..n : k \in G
    BY <1>3, <1>5, <2>1, Climb
  <2>3. QED BY <2>1, <2>2
<1>7. ToSet(r[n]) = {}
  <2>1. ASSUME NEW p \in ToSet(r[n]) PROVE FALSE
    <3>1. PICK l \in ToSet(lines) : p \in l.hits
      BY <1>6
    <3>2. PICK k \in 1..n : l = lines[k]
      BY <1>1
    <3>3. QED BY <1>6, <3>1, <3>2
  <2>2. QED BY <2>1
<1>8. r[n] \in Seq(P)
  BY <1>1, <1>2
<1>9. QED BY <1>2, <1>7, <1>8, Values

-----------------------------------------------------------------------------
(* Times in numbered units.  A scale says what each unit is worth, such as  *)
(* the femtoseconds in it, and two times are the same if they are by it.    *)
Times == [n : Nat, d : Nat \ {0}, unit : 1..8]
InLargest(t) == t.unit = 1 \/ t.n < t.d * Divider(t.unit)
Scales(scale) == scale \in [1..8 -> Nat] /\ \A u \in 2..8 : scale[u - 1] = Divider(u) * scale[u]
SameTime(t, x, scale) == x.n = t.n /\ x.d * scale[t.unit] = t.d * scale[x.unit]

LEMMA LargerUnitKeeps ==
  ASSUME NEW t \in Times, NEW x \in Times, NEW scale, Scales(scale), SameTime(t, x, scale)
  PROVE  /\ LargerUnit(x) \in Times /\ SameTime(t, LargerUnit(x), scale)
         /\ InLargest(x) => LargerUnit(x) = x
         /\ ~InLargest(x) => LargerUnit(x).unit = x.unit - 1
<1>1. x.n \in Nat /\ x.d \in Nat \ {0} /\ x.unit \in 1..8
  BY DEF Times
<1>2. CASE InLargest(x)
  <2>1. LargerUnit(x) = x
    BY <1>1, <1>2 DEF LargerUnit, InLargest, Divider
  <2>2. QED BY <1>2, <2>1
<1>3. CASE ~InLargest(x)
  <2> DEFINE u == x.unit
             D == Divider(u)
             y == [n |-> x.n, d |-> x.d * D, unit |-> u - 1]
  <2>1. u \in 2..8 /\ LargerUnit(x) = y
    BY <1>1, <1>3 DEF LargerUnit, InLargest, Divider
  <2>2. D = 60 \/ D = 1000
    BY DEF Divider
  <2>3. y \in Times
    BY <1>1, <2>1, <2>2 DEF Times
  <2>4. SameTime(t, y, scale)
    <3> DEFINE a == scale[t.unit]
               b == scale[u]
               c == scale[u - 1]
    <3>1. t.d \in Nat /\ t.unit \in 1..8
      BY DEF Times
    <3>2. a \in Nat /\ b \in Nat /\ c = D * b
      BY <2>1, <3>1 DEF Scales
    <3>3. x.n = t.n /\ x.d * a = t.d * b
      BY DEF SameTime
    <3> HIDE DEF a, b, c, D, u
    <3>4. x.d * D * a = t.d * c
      <4>1. x.d \in Nat /\ D \in Nat
        BY <1>1, <2>2
      <4>2. x.d * D * a = D * (x.d * a) /\ D * (t.d * b) = t.d * (D * b)
        BY <3>1, <3>2, <4>1
      <4>3. QED BY <3>2, <3>3, <4>2
    <3>5. QED BY <3>3, <3>4 DEF SameTime, a, c
  <2>5. QED BY <1>3, <2>1, <2>3, <2>4
<1>4. QED BY <1>2, <1>3

(* _normalize() (job/time.py:102): a time keeps its value, and its unit     *)
(* becomes the largest one in which it is one or more, in no more steps     *)
(* than there are units.                                                   *)
THEOREM TimeNormalized ==
  ASSUME NEW t \in Times, NEW scale, Scales(scale)
  PROVE  Normalized(t) \in Times /\ InLargest(Normalized(t)) /\ SameTime(t, Normalized(t), scale)
<1> DEFINE step == [x \in (1..8) \X Times |-> LargerUnit(x[2])]
           Rec(h) == h = [s \in SUBSET DOMAIN Units |-> IF s = {} THEN t ELSE LargerUnit(h[s \ {Max(s)}])]
           h == CHOOSE h : Rec(h)
<1>1. Normalized(t) = h[DOMAIN Units]
  BY DEF Normalized, FoldLeft, MapThenFoldSet
<1>2. DOMAIN Units = 1..8
  BY DEF Units
<1>3. \A x \in Times : SameTime(x, x, scale)
  BY DEF SameTime
<1>4. step \in [(1..8) \X Times -> Times]
  <2>1. \A x \in Times : LargerUnit(x) \in Times
    BY <1>3, LargerUnitKeeps
  <2> HIDE DEF Times
  <2>2. QED BY <2>1
<1>5. PICK g \in [SUBSET (1..8) -> Times] : FoldsBy(g, step, t, 8)
  <2> HIDE DEF step
  <2>1. QED BY <1>4, FoldExists
<1>6. Rec(g)
  <2>1. ASSUME NEW s \in SUBSET (1..8), s # {}
        PROVE  step[<<Max(s), g[s \ {Max(s)}]>>] = LargerUnit(g[s \ {Max(s)}])
    <3>1. Max(s) \in 1..8 /\ s \ {Max(s)} \in SUBSET (1..8)
      BY <2>1, MaxBelow
    <3>2. QED BY <3>1
  <2> HIDE DEF step
  <2>2. QED BY <1>2, <1>5, <2>1 DEF FoldsBy
<1>7. Rec(h)
  <2> HIDE DEF Rec
  <2>1. QED BY <1>6
<1> HIDE DEF h
<1>8. h = [s \in SUBSET (1..8) |-> IF s = {} THEN t ELSE LargerUnit(h[s \ {Max(s)}])]
  BY <1>2, <1>7
<1> DEFINE G == {k \in 0..8 : /\ h[1..k] \in Times /\ SameTime(t, h[1..k], scale)
                              /\ InLargest(h[1..k]) \/ h[1..k].unit <= 8 - k}
<1>9. 0 \in G
  <2>1. h[1..0] = t
    BY <1>8, InitialParts
  <2>2. t.unit <= 8 - 0
    BY DEF Times
  <2>3. QED BY <1>3, <2>1, <2>2
<1>10. ASSUME NEW k \in 1..8, k - 1 \in G PROVE k \in G
  <2> DEFINE x == h[1..k - 1]
             y == h[1..k]
  <2>1. x \in Times /\ SameTime(t, x, scale) /\ (InLargest(x) \/ x.unit <= 8 - (k - 1))
    BY <1>10
  <2>2. y = LargerUnit(x)
    <3>1. /\ 1..k \in SUBSET (1..8) /\ 1..k # {}
          /\ Max(1..k) = k /\ (1..k) \ {k} = 1..k - 1
      <4> HIDE DEF G
      <4>1. 8 \in Nat
        OBVIOUS
      <4>2. QED BY <4>1, InitialParts
    <3>2. h[1..k] = LargerUnit(h[(1..k) \ {Max(1..k)}])
      BY <1>8, <3>1
    <3>3. QED BY <3>1, <3>2
  <2> HIDE DEF x, y
  <2>3. /\ y \in Times /\ SameTime(t, y, scale)
        /\ InLargest(x) => y = x
        /\ ~InLargest(x) => y.unit = x.unit - 1
    BY <2>1, <2>2, LargerUnitKeeps
  <2>4. InLargest(y) \/ y.unit <= 8 - k
    <3>1. x.unit \in 1..8
      BY <2>1 DEF Times
    <3>2. QED BY <2>1, <2>3, <3>1
  <2>5. QED BY <2>3, <2>4 DEF y
<1>11. 8 \in G
  <2> HIDE DEF G
  <2>1. \A k \in 0..8 : k \in G
    BY <1>9, <1>10, Climb
  <2>2. QED BY <2>1
<1> DEFINE z == h[1..8]
<1>12. z \in Times /\ SameTime(t, z, scale) /\ (InLargest(z) \/ z.unit <= 0)
  BY <1>11
<1> HIDE DEF z
<1>13. InLargest(z)
  BY <1>12 DEF Times
<1>14. QED BY <1>1, <1>2, <1>12, <1>13 DEF z

-----------------------------------------------------------------------------
(* What becomes of a job, from its log.                                    *)
SeenIn(log) == UNION {l.hits : l \in ToSet(log.lines)}
Ends == {"PASSED", "FAILED", "KILLED"}

LEMMA FailingLine ==
  ASSUME NEW j, NEW log
  PROVE  Failing(j, log) <=> j.fail \cap SeenIn(log) # {}
<1>1. ToSet(log.lines) = {log.lines[k] : k \in DOMAIN log.lines}
  BY DEF ToSet
<1>2. QED BY <1>1 DEF Failing, SeenIn

LEMMA MissingPatterns ==
  ASSUME NEW j, NEW log
  PROVE  Missing(j, log) = {} <=> ToSet(j.pass) \subseteq SeenIn(log)
<1>1. ToSet(log.lines) = {log.lines[k] : k \in DOMAIN log.lines}
  BY DEF ToSet
<1>2. QED BY <1>1 DEF Missing, SeenIn

(* What the local backend makes of a log: a job passes if and only if its  *)
(* exit code is 0, no line is failing and every pass pattern was found, in a *)
(* log that could be read unless there is nothing to look for.             *)
LEMMA FinishJobPasses ==
  ASSUME NEW j, NEW P, j.pass \in Seq(P), NEW log
  PROVE  /\ FinishJob(j, log).status \in Ends
         /\ FinishJob(j, log).status # "PASSED" => FinishJob(j, log).message \in Messages
         /\ FinishJob(j, log).status = "PASSED" <=>
              /\ log.exit = 0 /\ j.fail \cap SeenIn(log) = {} /\ ToSet(j.pass) \subseteq SeenIn(log)
              /\ log.readable \/ (j.pass = <<>> /\ j.fail = {})
<1>1. ToSet(<<>>) = {}
  BY DEF ToSet
<1>2. log.exit = 0 => log.exit # None
  BY NoneAssumption
<1>3. QED BY <1>1, <1>2, FailingLine, MissingPatterns DEF FinishJob, Result, Ends, Messages

(* What an older launcher makes of it: the log must be readable, and no     *)
(* line is to be the only one of two patterns.                             *)
LEMMA CheckStatusPasses ==
  ASSUME NEW j, NEW P, j.pass \in Seq(P), NEW log, NEW L, log.lines \in Seq(L)
  PROVE  /\ CheckStatus(j, log).status \in Ends
         /\ CheckStatus(j, log).status # "PASSED" => CheckStatus(j, log).message \in Messages
         /\ CheckStatus(j, log).status = "PASSED" =>
              /\ log.exit = 0 /\ j.fail \cap SeenIn(log) = {} /\ ToSet(j.pass) \subseteq SeenIn(log)
              /\ log.readable
         /\ /\ log.exit = 0 /\ j.fail \cap SeenIn(log) = {} /\ ToSet(j.pass) \subseteq SeenIn(log)
            /\ log.readable
            /\ OnOwnLines(j, log)
            => CheckStatus(j, log).status = "PASSED"
<1>1. PatternsLeft(j, log) = Remaining(j.pass, log.lines)
  BY DEF PatternsLeft, Remaining
<1>2. PatternsLeft(j, log) = <<>> => ToSet(j.pass) \subseteq SeenIn(log)
  BY <1>1, AllFound DEF SeenIn
<1>3. ASSUME ToSet(j.pass) \subseteq SeenIn(log), OnOwnLines(j, log)
      PROVE  PatternsLeft(j, log) = <<>>
  <2>1. /\ ToSet(j.pass) \subseteq UNION {l.hits : l \in ToSet(log.lines)}
        /\ \A i, k \in DOMAIN j.pass : j.pass[i] = j.pass[k] => i = k
        /\ \A l \in ToSet(log.lines) : \A p, q \in l.hits \cap ToSet(j.pass) : p = q
    BY <1>3 DEF SeenIn, OnOwnLines
  <2>2. Remaining(j.pass, log.lines) = <<>>
    BY <2>1, FoundOnce
  <2>3. QED BY <1>1, <2>2
<1>4. log.exit = 0 => log.exit # None
  BY NoneAssumption
<1>5. QED BY <1>2, <1>3, <1>4, FailingLine DEF CheckStatus, Result, Ends, Messages

(* The end that the scheduler is told of a job: it passed if and only if    *)
(* the job is clean; for the older launchers, if its patterns are on lines  *)
(* of their own.  One that did not pass has a message.                     *)
LEMMA PolledPasses ==
  ASSUME NEW b, NEW j, NEW P, j.pass \in Seq(P), NEW log, NEW L, log.lines \in Seq(L)
  PROVE  LET end == Polled(b, j, log)
         IN /\ end.status \in Ends
            /\ end.status # "PASSED" => end.message \in Messages
            /\ end.status = "PASSED" => CheckStatus(j, log).status = "PASSED"
            /\ CheckStatus(j, log).status = "PASSED" /\ ~Unreadable(j, log) => end.status = "PASSED"
<1>1. CASE b = "nc" /\ PostFinishRaises(j, CheckStatus(j, log).status, log)
  BY <1>1 DEF Polled, PostFinishRaises, Result, Ends, Messages
<1>2. CASE ~(b = "nc" /\ PostFinishRaises(j, CheckStatus(j, log).status, log))
  <2>1. Polled(b, j, log) = CheckStatus(j, log)
    BY <1>2 DEF Polled
  <2>2. QED BY <2>1, CheckStatusPasses
<1>3. QED BY <1>1, <1>2

LEMMA OutcomePasses ==
  ASSUME NEW j, NEW P, j.pass \in Seq(P), NEW log, NEW L, log.lines \in Seq(L)
  PROVE  LET end == Outcome(args.backend, j, log)
         IN /\ end.status \in Ends /\ end.log = log
            /\ end.status # "PASSED" => end.message \in Messages
            /\ end.status = "PASSED" /\ ~PostFinishRaises(j, end.status, log) => Clean(j, log)
            /\ Clean(j, log) /\ (args.backend = "local" \/ OnOwnLines(j, log)) => end.status = "PASSED"
<1> DEFINE end == Outcome(args.backend, j, log)
           found == log.exit = 0 /\ j.fail \cap SeenIn(log) = {} /\ ToSet(j.pass) \subseteq SeenIn(log)
           dry == j.dry /\ (args.backend = "local" \/ log.exit # None)
<1>1. Clean(j, log) <=>
        /\ ~Unreadable(j, log)
        /\ \/ args.backend = "fake" /\ (j.target = "run" => log.exit = 0)
           \/ j.dry /\ (args.backend = "local" \/ (args.backend # "fake" /\ log.exit # None))
           \/ found /\ (log.readable \/ (args.backend = "local" /\ j.pass = <<>> /\ j.fail = {}))
  BY DEF Clean, SeenIn
<1>2. log.exit = 0 => log.exit # None
  BY NoneAssumption
<1> HIDE DEF found
<1>3. end.status = "PASSED" /\ ~PostFinishRaises(j, end.status, log) => ~Unreadable(j, log)
  BY DEF PostFinishRaises
<1>4. CASE args.backend = "fake"
  <2>1. end = EndOf(Result(IF j.target = "run" /\ log.exit # 0 THEN "FAILED" ELSE "PASSED", "fake"),
                    NoTime, NoTime, log)
    BY <1>4 DEF Outcome
  <2>2. /\ end.status = IF j.target = "run" /\ log.exit # 0 THEN "FAILED" ELSE "PASSED"
        /\ end.message = "fake" /\ end.log = log
    BY <2>1 DEF EndOf, Result
  <2>3. found => log.exit = 0
    BY DEF found
  <2> HIDE DEF end
  <2>4. QED BY <1>1, <1>3, <1>4, <2>2, <2>3 DEF end, Ends, Messages
<1>5. CASE dry /\ args.backend # "fake"
  <2>1. end.status = "PASSED" /\ end.log = log
    BY <1>5 DEF Outcome, EndOf, Result
  <2> HIDE DEF end
  <2>2. QED BY <1>1, <1>3, <1>5, <2>1 DEF end, Ends
<1>6. CASE ~dry /\ args.backend = "local"
  <2>1. end = EndOf(FinishJob(j, log), Runtime(j, log, log.wall), Simulated(j, log), log)
    BY <1>6 DEF Outcome
  <2>2. end.status = FinishJob(j, log).status /\ end.message = FinishJob(j, log).message /\ end.log = log
    BY <2>1 DEF EndOf
  <2>3. /\ end.status \in Ends /\ (end.status # "PASSED" => end.message \in Messages)
        /\ end.status = "PASSED" <=> found /\ (log.readable \/ (j.pass = <<>> /\ j.fail = {}))
    BY <2>2, FinishJobPasses DEF found
  <2> HIDE DEF end
  <2>4. QED BY <1>1, <1>3, <1>6, <2>2, <2>3 DEF end
<1>7. CASE ~dry /\ args.backend \notin {"fake", "local"}
  <2>1. /\ end.status = Polled(args.backend, j, log).status
        /\ end.message = Polled(args.backend, j, log).message /\ end.log = log
    BY <1>7 DEF Outcome, EndOf
  <2>2. /\ end.status \in Ends /\ (end.status # "PASSED" => end.message \in Messages)
        /\ end.status = "PASSED" => CheckStatus(j, log).status = "PASSED"
        /\ CheckStatus(j, log).status = "PASSED" /\ ~Unreadable(j, log) => end.status = "PASSED"
    <3>1. LET told == Polled(args.backend, j, log)
          IN /\ told.status \in Ends
             /\ told.status # "PASSED" => told.message \in Messages
             /\ told.status = "PASSED" => CheckStatus(j, log).status = "PASSED"
             /\ CheckStatus(j, log).status = "PASSED" /\ ~Unreadable(j, log) => told.status = "PASSED"
      BY PolledPasses
    <3> HIDE DEF end
    <3>2. QED BY <2>1, <3>1
  <2>3. /\ CheckStatus(j, log).status = "PASSED" => found /\ log.readable
        /\ found /\ log.readable /\ OnOwnLines(j, log) => CheckStatus(j, log).status = "PASSED"
    BY CheckStatusPasses DEF found
  <2> HIDE DEF end
  <2>4. QED BY <1>1, <1>2, <1>3, <1>7, <2>1, <2>2, <2>3 DEF end
<1>8. QED BY <1>4, <1>5, <1>6, <1>7

-----------------------------------------------------------------------------
(* The jobs given to the scheduler: one after the other, the first of an id *)
(* is kept.                                                                *)
KeepsFirst(r, S, specs) ==
  /\ r \in [0..Len(specs) -> Seq(S)]
  /\ r[0] = <<>>
  /\ \A k \in 1..Len(specs) : r[k] = Keep(r[k - 1], specs[k])
  /\ Kept(specs) = r[Len(specs)]

LEMMA KeptFolds ==
  ASSUME NEW S, NEW specs \in Seq(S)
  PROVE  \E r : KeepsFirst(r, S, specs)
<1> DEFINE n == Len(specs)
           step == [x \in (1..n) \X Seq(S) |-> Keep(x[2], specs[x[1]])]
           Rec(h) == h = [s \in SUBSET DOMAIN specs |->
                            IF s = {} THEN <<>> ELSE Keep(h[s \ {Max(s)}], specs[Max(s)])]
           h == CHOOSE h : Rec(h)
<1>1. Kept(specs) = h[DOMAIN specs]
  BY DEF Kept, FoldLeft, MapThenFoldSet
<1>2. n \in Nat /\ DOMAIN specs = 1..n /\ \A k \in 1..n : specs[k] \in S
  OBVIOUS
<1>3. step \in [(1..n) \X Seq(S) -> Seq(S)]
  <2>1. \A acc \in Seq(S), j \in S : Keep(acc, j) \in Seq(S)
    BY DEF Keep
  <2>2. QED BY <1>2, <2>1
<1> HIDE DEF n
<1>4. PICK g \in [SUBSET (1..n) -> Seq(S)] : FoldsBy(g, step, <<>>, n)
  <2>1. <<>> \in Seq(S)
    OBVIOUS
  <2> HIDE DEF step
  <2>2. QED BY <1>2, <1>3, <2>1, FoldExists
<1>5. Rec(g)
  <2>1. ASSUME NEW s \in SUBSET (1..n), s # {}
        PROVE  step[<<Max(s), g[s \ {Max(s)}]>>] = Keep(g[s \ {Max(s)}], specs[Max(s)])
    <3>1. Max(s) \in 1..n /\ s \ {Max(s)} \in SUBSET (1..n)
      BY <1>2, <2>1, MaxBelow
    <3>2. QED BY <3>1
  <2>2. QED BY <1>2, <1>4, <2>1 DEF FoldsBy
<1>6. Rec(h)
  <2> HIDE DEF Rec
  <2>1. QED BY <1>5
<1> HIDE DEF h
<1>7. h = [s \in SUBSET (1..n) |->
             IF s = {} THEN <<>> ELSE Keep(h[s \ {Max(s)}], specs[Max(s)])]
  BY <1>2, <1>6
<1> DEFINE r == [k \in 0..n |-> h[1..k]]
<1>8. r[0] = <<>>
  BY <1>2, <1>7, InitialParts
<1>9. ASSUME NEW k \in 1..n PROVE r[k] = Keep(r[k - 1], specs[k])
  <2>1. /\ 1..k \in SUBSET (1..n) /\ 1..k # {}
        /\ Max(1..k) = k /\ (1..k) \ {k} = 1..k - 1
    BY <1>2, InitialParts
  <2>2. h[1..k] = Keep(h[(1..k) \ {Max(1..k)}], specs[Max(1..k)])
    BY <1>7, <2>1
  <2>3. k - 1 \in 0..n /\ k \in 0..n
    BY <1>2
  <2>4. QED BY <2>1, <2>2, <2>3
<1> DEFINE G == {k \in 0..n : r[k] \in Seq(S)}
<1>10. \A k \in 0..n : k \in G
  <2>1. 0 \in G
    <3>1. <<>> \in Seq(S) /\ 0 \in 0..n
      BY <1>2
    <3> HIDE DEF r
    <3>2. QED BY <1>8, <3>1
  <2>2. ASSUME NEW k \in 1..n, k - 1 \in G PROVE k \in G
    <3>1. r[k - 1] \in Seq(S) /\ specs[k] \in S /\ k \in 0..n
      BY <1>2, <2>2
    <3>2. Keep(r[k - 1], specs[k]) \in Seq(S)
      BY <3>1 DEF Keep
    <3> HIDE DEF r
    <3>3. QED BY <1>9, <3>1, <3>2
  <2> HIDE DEF G
  <2>3. QED BY <1>2, <2>1, <2>2, Climb
<1>11. r \in [0..n -> Seq(S)]
  BY <1>10
<1>12. Kept(specs) = r[n]
  BY <1>1, <1>2
<1> HIDE DEF r
<1>13. KeepsFirst(r, S, specs)
  BY <1>8, <1>9, <1>11, <1>12 DEF n, KeepsFirst
<1>14. QED BY <1>13

(* What is kept: a job of every id, and no two of one.                     *)
Distinct(specs) == \A i, k \in 1..Len(specs) : specs[i].id = specs[k].id => i = k
OneOfEach(kept, specs) ==
  /\ Distinct(kept)
  /\ ToSet(kept) \subseteq ToSet(specs)
  /\ Ids(kept) = Ids(specs)

IdsIn(s) == {s[i].id : i \in 1..Len(s)}

LEMMA KeepAdds ==
  ASSUME NEW S, NEW acc \in Seq(S), NEW j \in S
  PROVE  /\ Keep(acc, j) \in Seq(S)
         /\ Distinct(acc) => Distinct(Keep(acc, j))
         /\ ToSet(Keep(acc, j)) \subseteq ToSet(acc) \cup {j}
         /\ IdsIn(Keep(acc, j)) = IdsIn(acc) \cup {j.id}
<1>1. DOMAIN acc = 1..Len(acc) /\ Len(acc) \in Nat
  OBVIOUS
<1>2. CASE \E k \in DOMAIN acc : acc[k].id = j.id
  <2>1. Keep(acc, j) = acc
    BY <1>2 DEF Keep
  <2>2. j.id \in IdsIn(acc)
    BY <1>1, <1>2 DEF IdsIn
  <2>3. QED BY <2>1, <2>2
<1>3. CASE ~ \E k \in DOMAIN acc : acc[k].id = j.id
  <2> DEFINE new == Append(acc, j)
             n == Len(acc)
  <2>1. Keep(acc, j) = new
    BY <1>3 DEF Keep
  <2>2. new \in Seq(S) /\ Len(new) = n + 1
        /\ \A i \in 1..n + 1 : new[i] = IF i = n + 1 THEN j ELSE acc[i]
    OBVIOUS
  <2>3. \A i \in 1..n : acc[i].id # j.id
    BY <1>1, <1>3
  <2>4. n \in Nat
    OBVIOUS
  <2> HIDE DEF new, n
  <2>5. \A i \in 1..n + 1 : i = n + 1 \/ i \in 1..n
    BY <2>4
  <2>6. Distinct(acc) => Distinct(new)
    <3>1. Distinct(acc) => \A i, k \in 1..n : acc[i].id = acc[k].id => i = k
      BY DEF Distinct, n
    <3>2. Distinct(new) <=> \A i, k \in 1..n + 1 : new[i].id = new[k].id => i = k
      BY <2>2 DEF Distinct
    <3>3. QED BY <2>2, <2>3, <2>5, <3>1, <3>2
  <2>7. ToSet(new) \subseteq ToSet(acc) \cup {j}
    <3>1. ToSet(new) = {new[i] : i \in 1..n + 1}
      BY <2>2, Values
    <3>2. ToSet(acc) = {acc[i] : i \in 1..n}
      BY Values DEF n
    <3>3. QED BY <2>2, <2>5, <3>1, <3>2
  <2>8. IdsIn(new) = IdsIn(acc) \cup {j.id}
    <3>1. \A i \in 1..n : i \in 1..n + 1 /\ i # n + 1
      BY <2>4
    <3>2. n + 1 \in 1..n + 1
      BY <2>4
    <3>3. {acc[i].id : i \in 1..n} \cup {j.id} = {new[i].id : i \in 1..n + 1}
      BY <2>2, <2>5, <3>1, <3>2
    <3>4. QED BY <2>2, <3>3 DEF IdsIn, n
  <2>9. QED BY <2>1, <2>2, <2>6, <2>7, <2>8
<1>4. QED BY <1>2, <1>3

LEMMA KeptAreFirst ==
  ASSUME NEW S, NEW specs \in Seq(S)
  PROVE  Kept(specs) \in Seq(S) /\ OneOfEach(Kept(specs), specs)
<1> DEFINE n == Len(specs)
           First(k) == {specs[i].id : i \in 1..k}
<1>1. n \in Nat /\ DOMAIN specs = 1..n /\ \A k \in 1..n : specs[k] \in S /\ specs[k] \in ToSet(specs)
  BY Values
<1>2. PICK r \in [0..n -> Seq(S)] :
        /\ r[0] = <<>>
        /\ \A k \in 1..n : r[k] = Keep(r[k - 1], specs[k])
        /\ Kept(specs) = r[n]
  <2>1. PICK r : KeepsFirst(r, S, specs)
    BY KeptFolds
  <2>2. QED BY <2>1 DEF KeepsFirst
<1>3. \A s \in Seq(S) : Ids(s) = IdsIn(s) /\ DOMAIN s = 1..Len(s)
  BY DEF Ids, IdsIn
<1> DEFINE G == {k \in 0..n : /\ Distinct(r[k]) /\ ToSet(r[k]) \subseteq ToSet(specs)
                              /\ IdsIn(r[k]) = First(k)}
<1>4. 0 \in G
  <2>1. Distinct(<<>>) /\ IdsIn(<<>>) = {} /\ First(0) = {} /\ ToSet(<<>>) = {}
    BY DEF Distinct, IdsIn, ToSet
  <2>2. 0 \in 0..n
    BY <1>1
  <2> HIDE DEF First
  <2>3. QED BY <1>2, <2>1, <2>2
<1>5. ASSUME NEW k \in 1..n, k - 1 \in G PROVE k \in G
  <2> DEFINE acc == r[k - 1]
             new == r[k]
  <2>1. acc \in Seq(S) /\ new = Keep(acc, specs[k]) /\ specs[k] \in S /\ specs[k] \in ToSet(specs)
    BY <1>1, <1>2
  <2>2. Distinct(acc) /\ ToSet(acc) \subseteq ToSet(specs) /\ IdsIn(acc) = First(k - 1)
    BY <1>5
  <2> HIDE DEF acc, new
  <2>3. Distinct(new)
    BY <2>1, <2>2, KeepAdds
  <2>4. ToSet(new) \subseteq ToSet(specs)
    <3>1. ToSet(new) \subseteq ToSet(acc) \cup {specs[k]}
      BY <2>1, KeepAdds
    <3>2. QED BY <2>1, <2>2, <3>1
  <2>5. IdsIn(new) = IdsIn(acc) \cup {specs[k].id}
    <3>1. ASSUME NEW j \in S PROVE IdsIn(Keep(acc, j)) = IdsIn(acc) \cup {j.id}
      BY <2>1, <3>1, KeepAdds
    <3>2. QED BY <2>1, <3>1
  <2>6. First(k) = First(k - 1) \cup {specs[k].id}
    <3>1. \A i \in 1..k : i = k \/ i \in 1..k - 1
      BY <1>1
    <3>2. \A i \in 1..k - 1 : i \in 1..k
      BY <1>1
    <3>3. k \in 1..k
      BY <1>1
    <3>4. QED BY <3>1, <3>2, <3>3
  <2> HIDE DEF First
  <2>7. IdsIn(new) = First(k) /\ k \in 0..n
    BY <1>1, <2>2, <2>5, <2>6
  <2>8. QED BY <2>3, <2>4, <2>7 DEF new
<1>6. n \in G
  <2> HIDE DEF G
  <2>1. \A k \in 0..n : k \in G
    BY <1>1, <1>4, <1>5, Climb
  <2>2. QED BY <1>1, <2>1
<1>7. /\ Kept(specs) \in Seq(S) /\ Distinct(Kept(specs))
      /\ ToSet(Kept(specs)) \subseteq ToSet(specs) /\ IdsIn(Kept(specs)) = First(n)
  <2> HIDE DEF First
  <2>1. QED BY <1>1, <1>2, <1>6
<1>8. Ids(Kept(specs)) = IdsIn(Kept(specs)) /\ Ids(specs) = First(n)
  BY <1>1, <1>3, <1>7 DEF Ids
<1>9. QED BY <1>7, <1>8 DEF OneOfEach

(* FlattenSeq() of the community modules, one sequence after the other.     *)
FlattenTrace(r, S, seqs) ==
  /\ r[0] = <<>> /\ \A k \in 1..Len(seqs) : r[k] = r[k - 1] \o seqs[k]
  /\ \A k \in 0..Len(seqs) : r[k] \in Seq(S)
  /\ FlattenSeq(seqs) = r[Len(seqs)]

LEMMA FlattenSteps ==
  ASSUME NEW S, NEW seqs \in Seq(Seq(S))
  PROVE  \E r : FlattenTrace(r, S, seqs)
<1> DEFINE n == Len(seqs)
           Rec(f) == f = [i \in 1..n |-> IF i = 1 THEN seqs[i] ELSE f[i - 1] \o seqs[i]]
           flatten == CHOOSE f : Rec(f)
           step == [x \in (1..n) \X Seq(S) |-> x[2] \o seqs[x[1]]]
<1>1. FlattenSeq(seqs) = IF n = 0 THEN seqs ELSE flatten[n]
  BY DEF FlattenSeq
<1>2. n \in Nat /\ \A k \in 1..n : seqs[k] \in Seq(S)
  OBVIOUS
<1>3. CASE n = 0
  <2>1. seqs = <<>>
    BY <1>3
  <2> DEFINE r == [k \in {0} |-> <<>>]
  <2>2. r[0] = <<>> /\ <<>> \in Seq(S) /\ 1..0 = {} /\ 0..0 = {0}
    OBVIOUS
  <2> HIDE DEF r
  <2>3. FlattenTrace(r, S, seqs)
    BY <1>1, <1>3, <2>1, <2>2 DEF FlattenTrace
  <2>4. QED BY <2>3
<1>4. CASE n # 0
  <2>1. step \in [(1..n) \X Seq(S) -> Seq(S)]
    BY <1>2
  <2>2. <<>> \in Seq(S)
    OBVIOUS
  <2>3. PICK h : FoldsBy(h, step, <<>>, n)
    <3> HIDE DEF step
    <3>1. QED BY <1>2, <2>1, <2>2, FoldExists
  <2>4. /\ h[1..0] = <<>>
        /\ \A k \in 0..n : h[1..k] \in Seq(S)
        /\ \A k \in 1..n : h[1..k] = step[<<k, h[1..k - 1]>>]
    <3> DEFINE Acc == Seq(S)
    <3>1. n \in Nat /\ <<>> \in Acc /\ step \in [(1..n) \X Acc -> Acc]
      BY <1>2, <2>1, <2>2
    <3>2. \A k \in 0..n : h[1..k] \in Acc
      <4> HIDE DEF step, Acc, n
      <4>1. QED BY <2>3, <3>1, FoldSteps
    <3>3. ASSUME NEW k \in 1..n PROVE h[1..k] = step[<<k, h[1..k - 1]>>]
      <4> HIDE DEF step, Acc, n
      <4>1. 1..k \in SUBSET (1..n) /\ 1..k # {} /\ Max(1..k) = k /\ (1..k) \ {k} = 1..k - 1
        BY <3>1, InitialParts
      <4>2. h[1..k] = step[<<Max(1..k), h[(1..k) \ {Max(1..k)}]>>]
        BY <2>3, <4>1 DEF FoldsBy
      <4>3. QED BY <4>1, <4>2
    <3>4. h[1..0] = <<>>
      BY <2>3, InitialParts DEF FoldsBy
    <3>5. QED BY <3>2, <3>3, <3>4
  <2>5. ASSUME NEW k \in 1..n PROVE h[1..k] = IF k = 1 THEN seqs[k] ELSE h[1..k - 1] \o seqs[k]
    <3>1. h[1..k - 1] \in Seq(S) /\ seqs[k] \in Seq(S)
      BY <1>2, <2>4
    <3>2. h[1..k] = h[1..k - 1] \o seqs[k]
      BY <2>4, <3>1
    <3>3. CASE k = 1
      <4>1. h[1..k - 1] = <<>>
        BY <2>4, <3>3
      <4>2. <<>> \o seqs[k] = seqs[k]
        BY <3>1
      <4>3. QED BY <3>2, <3>3, <4>1, <4>2
    <3>4. QED BY <3>2, <3>3
  <2> DEFINE g == [i \in 1..n |-> h[1..i]]
  <2>6. Rec(g)
    <3>1. \A i \in 1..n : i # 1 => i - 1 \in 1..n
      BY <1>2
    <3>2. \A i \in 1..n : g[i] = IF i = 1 THEN seqs[i] ELSE g[i - 1] \o seqs[i]
      BY <2>5, <3>1
    <3>3. g = [i \in 1..n |-> g[i]]
      OBVIOUS
    <3> HIDE DEF g
    <3>4. QED BY <3>2, <3>3
  <2>7. Rec(flatten)
    <3> HIDE DEF Rec
    <3>1. QED BY <2>6
  <2> HIDE DEF flatten
  <2>8. \A i \in 1..n : flatten[i] = IF i = 1 THEN seqs[i] ELSE flatten[i - 1] \o seqs[i]
    BY <2>7
  <2> DEFINE r == [k \in 0..n |-> IF k = 0 THEN <<>> ELSE flatten[k]]
             G == {k \in 0..n : r[k] \in Seq(S)}
  <2>9. r[0] = <<>> /\ r[n] = flatten[n]
    BY <1>2, <1>4
  <2>10. ASSUME NEW k \in 1..n, r[k - 1] \in Seq(S) PROVE r[k] = r[k - 1] \o seqs[k]
    <3>1. k \in 0..n /\ k - 1 \in 0..n /\ seqs[k] \in Seq(S) /\ r[k] = flatten[k]
      BY <1>2
    <3>2. CASE k = 1
      <4>1. r[k - 1] = <<>> /\ <<>> \o seqs[k] = seqs[k]
        BY <2>9, <3>1, <3>2
      <4> HIDE DEF r
      <4>2. QED BY <2>8, <3>1, <3>2, <4>1
    <3>3. CASE k # 1
      <4>1. r[k - 1] = flatten[k - 1]
        BY <3>1, <3>3
      <4> HIDE DEF r
      <4>2. QED BY <2>8, <3>1, <3>3, <4>1
    <3>4. QED BY <3>2, <3>3
  <2> HIDE DEF r
  <2>11. \A k \in 0..n : r[k] \in Seq(S)
    <3>1. 0 \in G
      <4>1. <<>> \in Seq(S) /\ 0 \in 0..n
        BY <1>2
      <4>2. QED BY <2>9, <4>1
    <3>2. ASSUME NEW k \in 1..n, k - 1 \in G PROVE k \in G
      <4>1. r[k - 1] \in Seq(S) /\ seqs[k] \in Seq(S) /\ k \in 0..n
        BY <1>2, <3>2
      <4>2. r[k - 1] \o seqs[k] \in Seq(S)
        BY <4>1
      <4>3. r[k] = r[k - 1] \o seqs[k]
        BY <2>10, <4>1
      <4>4. QED BY <4>1, <4>2, <4>3
    <3> HIDE DEF G
    <3>3. \A k \in 0..n : k \in G
      BY <1>2, <3>1, <3>2, Climb
    <3>4. QED BY <3>3 DEF G
  <2>12. \A k \in 1..n : r[k] = r[k - 1] \o seqs[k]
    <3>1. ASSUME NEW k \in 1..n PROVE r[k] = r[k - 1] \o seqs[k]
      <4>1. k - 1 \in 0..n
        BY <1>2
      <4>2. QED BY <2>10, <2>11, <4>1
    <3>2. QED BY <3>1
  <2>13. FlattenTrace(r, S, seqs)
    <3>1. FlattenSeq(seqs) = r[n]
      BY <1>1, <1>4, <2>9
    <3>2. QED BY <2>9, <2>11, <2>12, <3>1 DEF FlattenTrace
  <2>14. QED BY <2>13
<1>5. QED BY <1>3, <1>4

(* validate_acyclic(): if the peeling reaches every job, no jobs wait for   *)
(* each other; among any of them there is one that waits for none of them.  *)

LEMMA Flattened ==
  ASSUME NEW S, NEW seqs \in Seq(Seq(S))
  PROVE  FlattenSeq(seqs) \in Seq(S)
<1>1. PICK r : FlattenTrace(r, S, seqs)
  BY FlattenSteps
<1>2. Len(seqs) \in 0..Len(seqs)
  OBVIOUS
<1>3. QED BY <1>1, <1>2 DEF FlattenTrace


LEMMA PeelsFold ==
  ASSUME NEW S, NEW specs \in Seq(S), Acyclic(specs)
  PROVE  \E r : /\ r[0] = {} /\ r[Len(specs)] = Ids(specs)
                /\ \A k \in 1..Len(specs) : r[k] = Peel(specs, r[k - 1])
<1> DEFINE n == Len(specs)
           A == SUBSET Ids(specs)
           step == [x \in (1..n) \X A |-> Peel(specs, x[2])]
           Rec(h) == h = [s \in SUBSET DOMAIN specs |->
                            IF s = {} THEN {} ELSE Peel(specs, h[s \ {Max(s)}])]
           h == CHOOSE h : Rec(h)
<1>1. Ids(specs) = h[DOMAIN specs]
  BY DEF Acyclic, FoldLeft, MapThenFoldSet
<1>2. n \in Nat /\ DOMAIN specs = 1..n
  OBVIOUS
<1>3. step \in [(1..n) \X A -> A]
  <2>1. \A v \in A : Peel(specs, v) \in A
    BY DEF Peel, Ids
  <2> HIDE DEF A
  <2>2. QED BY <2>1
<1> HIDE DEF n
<1>4. PICK g \in [SUBSET (1..n) -> A] : FoldsBy(g, step, {}, n)
  <2>1. {} \in A
    OBVIOUS
  <2> HIDE DEF step, A
  <2>2. QED BY <1>2, <1>3, <2>1, FoldExists
<1>5. Rec(g)
  <2>1. ASSUME NEW s \in SUBSET (1..n), s # {}
        PROVE  step[<<Max(s), g[s \ {Max(s)}]>>] = Peel(specs, g[s \ {Max(s)}])
    <3>1. Max(s) \in 1..n /\ s \ {Max(s)} \in SUBSET (1..n)
      BY <1>2, <2>1, MaxBelow
    <3> HIDE DEF A
    <3>2. QED BY <3>1
  <2> HIDE DEF step, A
  <2>2. QED BY <1>2, <1>4, <2>1 DEF FoldsBy
<1>6. Rec(h)
  <2> HIDE DEF Rec
  <2>1. QED BY <1>5
<1> HIDE DEF h
<1>7. h = [s \in SUBSET (1..n) |-> IF s = {} THEN {} ELSE Peel(specs, h[s \ {Max(s)}])]
  BY <1>2, <1>6
<1> DEFINE r == [k \in 0..n |-> h[1..k]]
<1>8. r[0] = {}
  BY <1>2, <1>7, InitialParts
<1>9. ASSUME NEW k \in 1..n PROVE r[k] = Peel(specs, r[k - 1])
  <2>1. /\ 1..k \in SUBSET (1..n) /\ 1..k # {}
        /\ Max(1..k) = k /\ (1..k) \ {k} = 1..k - 1
    BY <1>2, InitialParts
  <2>2. h[1..k] = Peel(specs, h[(1..k) \ {Max(1..k)}])
    BY <1>7, <2>1
  <2>3. k - 1 \in 0..n /\ k \in 0..n
    BY <1>2
  <2>4. QED BY <2>1, <2>2, <2>3
<1>10. r[n] = Ids(specs)
  BY <1>1, <1>2
<1> HIDE DEF r
<1>11. QED BY <1>8, <1>9, <1>10 DEF n

LEMMA SomeWaitForNone ==
  ASSUME NEW S, NEW specs \in Seq(S), Acyclic(specs),
         NEW U \in SUBSET Ids(specs), U # {}
  PROVE  \E k \in DOMAIN specs : specs[k].id \in U /\ ToSet(specs[k].deps) \cap U = {}
<1>1. SUFFICES ASSUME \A k \in DOMAIN specs : specs[k].id \in U => ToSet(specs[k].deps) \cap U # {}
               PROVE  FALSE
  OBVIOUS
<1> DEFINE n == Len(specs)
<1>2. PICK r : /\ r[0] = {} /\ r[n] = Ids(specs)
               /\ \A k \in 1..n : r[k] = Peel(specs, r[k - 1])
  BY PeelsFold
<1> DEFINE G == {k \in 0..n : r[k] \cap U = {}}
<1>3. n \in Nat
  OBVIOUS
<1> HIDE DEF n
<1>4. 0 \in G
  BY <1>2, <1>3
<1>5. ASSUME NEW k \in 1..n, k - 1 \in G PROVE k \in G
  <2>1. r[k - 1] \cap U = {} /\ r[k] = Peel(specs, r[k - 1]) /\ k \in 0..n
    BY <1>2, <1>3, <1>5
  <2>2. Peel(specs, r[k - 1]) \cap U = {}
    BY <1>1, <2>1 DEF Peel
  <2>3. QED BY <2>1, <2>2
<1>6. n \in G
  <2> HIDE DEF G
  <2>1. \A k \in 0..n : k \in G
    BY <1>3, <1>4, <1>5, Climb
  <2>2. QED BY <1>3, <2>1
<1>7. QED BY <1>2, <1>6

-----------------------------------------------------------------------------
LEMMA Subsets ==
  ASSUME NEW n \in Nat, NEW m \in 1..n, NEW s \in SUBSET (1..m)
  PROVE  /\ s \ {m} \in SUBSET (1..m) /\ s \ {m} \in SUBSET (1..m - 1)
         /\ m \in s => s # {} /\ Max(s) = m
         /\ m \notin s => /\ s \in SUBSET (1..m - 1)
                          /\ s \ {Max(s)} \in SUBSET (1..m) /\ m \notin s \ {Max(s)}
<1>1. ASSUME m \in s PROVE Max(s) = m
  <2>1. s \in SUBSET Int /\ \A k \in s : k <= m
    OBVIOUS
  <2>2. QED BY <1>1, <2>1, MaxIs
<1>2. \A k \in 1..m : k # m => k \in 1..m - 1
  OBVIOUS
<1>3. QED BY <1>1, <1>2

(* The folds of the model, named.                                          *)
ModesMerged(t, seq) == FoldLeft(MergeInto, t, seq)
RegressionsAdded(c, seq) == FoldLeft(AddRegression, c, seq)
AllReseeded(ts, seq) == FoldLeft(Reseed, ts, seq)
BuildsAdded(none, seq) == FoldLeft(AddBuild, none, seq)
FilesLoaded(files, fixed, at0, seq) ==
  FoldLeft(LAMBDA acc, step : Then(acc, LAMBDA at : LoadFile(files, fixed, at)), at0, seq)
Loading(files, fixed, acc) == IF acc = Exit THEN Exit ELSE LoadFile(files, fixed, acc)

(* What a fold passes through, from what it starts with to its result.  The *)
(* provers do not instantiate a lemma with an operator, hence one argument   *)
(* for each of the folds.                                                   *)
OnlyTrace(r, set, seq) ==
  /\ r[0] = <<>> /\ \A k \in 1..Len(seq) : r[k] = IF seq[k] \in set THEN Append(r[k - 1], seq[k]) ELSE r[k - 1]
  /\ Only(seq, set) = r[Len(seq)]

LEMMA OnlySteps ==
  ASSUME NEW set, NEW seq, Len(seq) \in Nat, DOMAIN seq = 1..Len(seq)
  PROVE  \E r : OnlyTrace(r, set, seq)
<1> DEFINE n == Len(seq)
           Op(acc, x) == IF x \in set THEN Append(acc, x) ELSE acc
           Rec(h, d) == h = [s \in SUBSET d |->
                               IF s = {} THEN <<>> ELSE Op(h[s \ {Max(s)}], seq[Max(s)])]
           G == {m \in 0..n : \E g : Rec(g, 1..m)}
           h == CHOOSE h : Rec(h, DOMAIN seq)
           r == [k \in 0..n |-> h[1..k]]
<1>1. Only(seq, set) = h[DOMAIN seq]
  BY DEF Only, FoldLeft, MapThenFoldSet
<1>2. DOMAIN seq = 1..n /\ n \in Nat /\ {0, n} \subseteq 0..n
  OBVIOUS
<1> HIDE DEF n, Op
<1>3. ASSUME NEW m \in 1..n, m - 1 \in G PROVE m \in G
  <2>1. PICK g : Rec(g, 1..m - 1)
    BY <1>3
  <2> DEFINE f == [s \in SUBSET (1..m) |-> IF m \in s THEN Op(g[s \ {m}], seq[m]) ELSE g[s]]
  <2>2. ASSUME NEW s \in SUBSET (1..m)
        PROVE  f[s] = IF s = {} THEN <<>> ELSE Op(f[s \ {Max(s)}], seq[Max(s)])
    <3>1. CASE m \in s
      <4>1. s # {} /\ Max(s) = m /\ f[s \ {m}] = g[s \ {m}] /\ f[s] = Op(g[s \ {m}], seq[m])
        BY <1>2, <3>1, Subsets
      <4> HIDE DEF f
      <4>2. QED BY <4>1
    <3>2. CASE m \notin s
      <4>1. s \in SUBSET (1..m - 1) /\ f[s \ {Max(s)}] = g[s \ {Max(s)}] /\ f[s] = g[s]
        BY <1>2, <3>2, Subsets
      <4> HIDE DEF f
      <4>2. QED BY <2>1, <4>1
    <3>3. QED BY <3>1, <3>2
  <2>3. Rec(f, 1..m)
    BY <2>2
  <2> HIDE DEF Rec, f
  <2>4. QED BY <2>3
<1>4. 0 \in G
  <2>1. Rec([s \in SUBSET (1..0) |-> <<>>], 1..0)
    BY InitialParts
  <2> HIDE DEF Rec
  <2>2. QED BY <1>2, <2>1
<1>5. Rec(h, 1..n)
  <2>1. n \in G
    <3> HIDE DEF G
    <3> QED BY <1>2, <1>3, <1>4, Climb
  <2> HIDE DEF Rec
  <2>2. QED BY <1>2, <2>1
<1> HIDE DEF h
<1>7. r[0] = <<>> /\ r[n] = h[1..n]
  <2>1. h[1..0] = <<>>
    BY <1>5, InitialParts
  <2>2. QED BY <1>2, <2>1
<1>8. ASSUME NEW k \in 1..n PROVE r[k] = Op(r[k - 1], seq[k])
  <2>1. h[1..k] = Op(h[(1..k) \ {Max(1..k)}], seq[Max(1..k)])
    BY <1>2, <1>5, InitialParts
  <2>2. k \in 0..n /\ k - 1 \in 0..n
    BY <1>2
  <2>3. QED BY <1>2, <2>1, <2>2, InitialParts
<1> HIDE DEF r
<1>9. QED BY <1>1, <1>2, <1>7, <1>8 DEF n, Op, OnlyTrace

FirstsTrace(r, seq) ==
  /\ r[0] = <<>> /\ \A k \in 1..Len(seq) : r[k] = IF Contains(r[k - 1], seq[k]) THEN r[k - 1] ELSE Append(r[k - 1], seq[k])
  /\ Firsts(seq) = r[Len(seq)]

LEMMA FirstsSteps ==
  ASSUME NEW seq, Len(seq) \in Nat, DOMAIN seq = 1..Len(seq)
  PROVE  \E r : FirstsTrace(r, seq)
<1> DEFINE n == Len(seq)
           Op(acc, x) == IF Contains(acc, x) THEN acc ELSE Append(acc, x)
           Rec(h, d) == h = [s \in SUBSET d |->
                               IF s = {} THEN <<>> ELSE Op(h[s \ {Max(s)}], seq[Max(s)])]
           G == {m \in 0..n : \E g : Rec(g, 1..m)}
           h == CHOOSE h : Rec(h, DOMAIN seq)
           r == [k \in 0..n |-> h[1..k]]
<1>1. Firsts(seq) = h[DOMAIN seq]
  BY DEF Firsts, FoldLeft, MapThenFoldSet
<1>2. DOMAIN seq = 1..n /\ n \in Nat /\ {0, n} \subseteq 0..n
  OBVIOUS
<1> HIDE DEF n, Op
<1>3. ASSUME NEW m \in 1..n, m - 1 \in G PROVE m \in G
  <2>1. PICK g : Rec(g, 1..m - 1)
    BY <1>3
  <2> DEFINE f == [s \in SUBSET (1..m) |-> IF m \in s THEN Op(g[s \ {m}], seq[m]) ELSE g[s]]
  <2>2. ASSUME NEW s \in SUBSET (1..m)
        PROVE  f[s] = IF s = {} THEN <<>> ELSE Op(f[s \ {Max(s)}], seq[Max(s)])
    <3>1. CASE m \in s
      <4>1. s # {} /\ Max(s) = m /\ f[s \ {m}] = g[s \ {m}] /\ f[s] = Op(g[s \ {m}], seq[m])
        BY <1>2, <3>1, Subsets
      <4> HIDE DEF f
      <4>2. QED BY <4>1
    <3>2. CASE m \notin s
      <4>1. s \in SUBSET (1..m - 1) /\ f[s \ {Max(s)}] = g[s \ {Max(s)}] /\ f[s] = g[s]
        BY <1>2, <3>2, Subsets
      <4> HIDE DEF f
      <4>2. QED BY <2>1, <4>1
    <3>3. QED BY <3>1, <3>2
  <2>3. Rec(f, 1..m)
    BY <2>2
  <2> HIDE DEF Rec, f
  <2>4. QED BY <2>3
<1>4. 0 \in G
  <2>1. Rec([s \in SUBSET (1..0) |-> <<>>], 1..0)
    BY InitialParts
  <2> HIDE DEF Rec
  <2>2. QED BY <1>2, <2>1
<1>5. Rec(h, 1..n)
  <2>1. n \in G
    <3> HIDE DEF G
    <3> QED BY <1>2, <1>3, <1>4, Climb
  <2> HIDE DEF Rec
  <2>2. QED BY <1>2, <2>1
<1> HIDE DEF h
<1>7. r[0] = <<>> /\ r[n] = h[1..n]
  <2>1. h[1..0] = <<>>
    BY <1>5, InitialParts
  <2>2. QED BY <1>2, <2>1
<1>8. ASSUME NEW k \in 1..n PROVE r[k] = Op(r[k - 1], seq[k])
  <2>1. h[1..k] = Op(h[(1..k) \ {Max(1..k)}], seq[Max(1..k)])
    BY <1>2, <1>5, InitialParts
  <2>2. k \in 0..n /\ k - 1 \in 0..n
    BY <1>2
  <2>3. QED BY <1>2, <2>1, <2>2, InitialParts
<1> HIDE DEF r
<1>9. QED BY <1>1, <1>2, <1>7, <1>8 DEF n, Op, FirstsTrace

DeclaredTrace(r, first, seq) ==
  /\ r[0] = first /\ \A k \in 1..Len(seq) : r[k] = Declare(r[k - 1], seq[k])
  /\ Declared(first, seq) = r[Len(seq)]

LEMMA DeclaredSteps ==
  ASSUME NEW first, NEW seq, Len(seq) \in Nat, DOMAIN seq = 1..Len(seq)
  PROVE  \E r : DeclaredTrace(r, first, seq)
<1> DEFINE n == Len(seq)
           Op(acc, x) == Declare(acc, x)
           Rec(h, d) == h = [s \in SUBSET d |->
                               IF s = {} THEN first ELSE Op(h[s \ {Max(s)}], seq[Max(s)])]
           G == {m \in 0..n : \E g : Rec(g, 1..m)}
           h == CHOOSE h : Rec(h, DOMAIN seq)
           r == [k \in 0..n |-> h[1..k]]
<1>1. Declared(first, seq) = h[DOMAIN seq]
  BY DEF Declared, FoldLeft, MapThenFoldSet
<1>2. DOMAIN seq = 1..n /\ n \in Nat /\ {0, n} \subseteq 0..n
  OBVIOUS
<1> HIDE DEF n, Op
<1>3. ASSUME NEW m \in 1..n, m - 1 \in G PROVE m \in G
  <2>1. PICK g : Rec(g, 1..m - 1)
    BY <1>3
  <2> DEFINE f == [s \in SUBSET (1..m) |-> IF m \in s THEN Op(g[s \ {m}], seq[m]) ELSE g[s]]
  <2>2. ASSUME NEW s \in SUBSET (1..m)
        PROVE  f[s] = IF s = {} THEN first ELSE Op(f[s \ {Max(s)}], seq[Max(s)])
    <3>1. CASE m \in s
      <4>1. s # {} /\ Max(s) = m /\ f[s \ {m}] = g[s \ {m}] /\ f[s] = Op(g[s \ {m}], seq[m])
        BY <1>2, <3>1, Subsets
      <4> HIDE DEF f
      <4>2. QED BY <4>1
    <3>2. CASE m \notin s
      <4>1. s \in SUBSET (1..m - 1) /\ f[s \ {Max(s)}] = g[s \ {Max(s)}] /\ f[s] = g[s]
        BY <1>2, <3>2, Subsets
      <4> HIDE DEF f
      <4>2. QED BY <2>1, <4>1
    <3>3. QED BY <3>1, <3>2
  <2>3. Rec(f, 1..m)
    BY <2>2
  <2> HIDE DEF Rec, f
  <2>4. QED BY <2>3
<1>4. 0 \in G
  <2>1. Rec([s \in SUBSET (1..0) |-> first], 1..0)
    BY InitialParts
  <2> HIDE DEF Rec
  <2>2. QED BY <1>2, <2>1
<1>5. Rec(h, 1..n)
  <2>1. n \in G
    <3> HIDE DEF G
    <3> QED BY <1>2, <1>3, <1>4, Climb
  <2> HIDE DEF Rec
  <2>2. QED BY <1>2, <2>1
<1> HIDE DEF h
<1>7. r[0] = first /\ r[n] = h[1..n]
  <2>1. h[1..0] = first
    BY <1>5, InitialParts
  <2>2. QED BY <1>2, <2>1
<1>8. ASSUME NEW k \in 1..n PROVE r[k] = Op(r[k - 1], seq[k])
  <2>1. h[1..k] = Op(h[(1..k) \ {Max(1..k)}], seq[Max(1..k)])
    BY <1>2, <1>5, InitialParts
  <2>2. k \in 0..n /\ k - 1 \in 0..n
    BY <1>2
  <2>3. QED BY <1>2, <2>1, <2>2, InitialParts
<1> HIDE DEF r
<1>9. QED BY <1>1, <1>2, <1>7, <1>8 DEF n, Op, DeclaredTrace

MergeIntoTrace(r, t, seq) ==
  /\ r[0] = t /\ \A k \in 1..Len(seq) : r[k] = MergeInto(r[k - 1], seq[k])
  /\ ModesMerged(t, seq) = r[Len(seq)]

LEMMA MergeIntoSteps ==
  ASSUME NEW t, NEW seq, Len(seq) \in Nat, DOMAIN seq = 1..Len(seq)
  PROVE  \E r : MergeIntoTrace(r, t, seq)
<1> DEFINE n == Len(seq)
           Op(acc, x) == MergeInto(acc, x)
           Rec(h, d) == h = [s \in SUBSET d |->
                               IF s = {} THEN t ELSE Op(h[s \ {Max(s)}], seq[Max(s)])]
           G == {m \in 0..n : \E g : Rec(g, 1..m)}
           h == CHOOSE h : Rec(h, DOMAIN seq)
           r == [k \in 0..n |-> h[1..k]]
<1>1. ModesMerged(t, seq) = h[DOMAIN seq]
  BY DEF ModesMerged, FoldLeft, MapThenFoldSet
<1>2. DOMAIN seq = 1..n /\ n \in Nat /\ {0, n} \subseteq 0..n
  OBVIOUS
<1> HIDE DEF n, Op
<1>3. ASSUME NEW m \in 1..n, m - 1 \in G PROVE m \in G
  <2>1. PICK g : Rec(g, 1..m - 1)
    BY <1>3
  <2> DEFINE f == [s \in SUBSET (1..m) |-> IF m \in s THEN Op(g[s \ {m}], seq[m]) ELSE g[s]]
  <2>2. ASSUME NEW s \in SUBSET (1..m)
        PROVE  f[s] = IF s = {} THEN t ELSE Op(f[s \ {Max(s)}], seq[Max(s)])
    <3>1. CASE m \in s
      <4>1. s # {} /\ Max(s) = m /\ f[s \ {m}] = g[s \ {m}] /\ f[s] = Op(g[s \ {m}], seq[m])
        BY <1>2, <3>1, Subsets
      <4> HIDE DEF f
      <4>2. QED BY <4>1
    <3>2. CASE m \notin s
      <4>1. s \in SUBSET (1..m - 1) /\ f[s \ {Max(s)}] = g[s \ {Max(s)}] /\ f[s] = g[s]
        BY <1>2, <3>2, Subsets
      <4> HIDE DEF f
      <4>2. QED BY <2>1, <4>1
    <3>3. QED BY <3>1, <3>2
  <2>3. Rec(f, 1..m)
    BY <2>2
  <2> HIDE DEF Rec, f
  <2>4. QED BY <2>3
<1>4. 0 \in G
  <2>1. Rec([s \in SUBSET (1..0) |-> t], 1..0)
    BY InitialParts
  <2> HIDE DEF Rec
  <2>2. QED BY <1>2, <2>1
<1>5. Rec(h, 1..n)
  <2>1. n \in G
    <3> HIDE DEF G
    <3> QED BY <1>2, <1>3, <1>4, Climb
  <2> HIDE DEF Rec
  <2>2. QED BY <1>2, <2>1
<1> HIDE DEF h
<1>7. r[0] = t /\ r[n] = h[1..n]
  <2>1. h[1..0] = t
    BY <1>5, InitialParts
  <2>2. QED BY <1>2, <2>1
<1>8. ASSUME NEW k \in 1..n PROVE r[k] = Op(r[k - 1], seq[k])
  <2>1. h[1..k] = Op(h[(1..k) \ {Max(1..k)}], seq[Max(1..k)])
    BY <1>2, <1>5, InitialParts
  <2>2. k \in 0..n /\ k - 1 \in 0..n
    BY <1>2
  <2>3. QED BY <1>2, <2>1, <2>2, InitialParts
<1> HIDE DEF r
<1>9. QED BY <1>1, <1>2, <1>7, <1>8 DEF n, Op, MergeIntoTrace

AddRegressionTrace(r, c, seq) ==
  /\ r[0] = c /\ \A k \in 1..Len(seq) : r[k] = AddRegression(r[k - 1], seq[k])
  /\ RegressionsAdded(c, seq) = r[Len(seq)]

LEMMA AddRegressionSteps ==
  ASSUME NEW c, NEW seq, Len(seq) \in Nat, DOMAIN seq = 1..Len(seq)
  PROVE  \E r : AddRegressionTrace(r, c, seq)
<1> DEFINE n == Len(seq)
           Op(acc, x) == AddRegression(acc, x)
           Rec(h, d) == h = [s \in SUBSET d |->
                               IF s = {} THEN c ELSE Op(h[s \ {Max(s)}], seq[Max(s)])]
           G == {m \in 0..n : \E g : Rec(g, 1..m)}
           h == CHOOSE h : Rec(h, DOMAIN seq)
           r == [k \in 0..n |-> h[1..k]]
<1>1. RegressionsAdded(c, seq) = h[DOMAIN seq]
  BY DEF RegressionsAdded, FoldLeft, MapThenFoldSet
<1>2. DOMAIN seq = 1..n /\ n \in Nat /\ {0, n} \subseteq 0..n
  OBVIOUS
<1> HIDE DEF n, Op
<1>3. ASSUME NEW m \in 1..n, m - 1 \in G PROVE m \in G
  <2>1. PICK g : Rec(g, 1..m - 1)
    BY <1>3
  <2> DEFINE f == [s \in SUBSET (1..m) |-> IF m \in s THEN Op(g[s \ {m}], seq[m]) ELSE g[s]]
  <2>2. ASSUME NEW s \in SUBSET (1..m)
        PROVE  f[s] = IF s = {} THEN c ELSE Op(f[s \ {Max(s)}], seq[Max(s)])
    <3>1. CASE m \in s
      <4>1. s # {} /\ Max(s) = m /\ f[s \ {m}] = g[s \ {m}] /\ f[s] = Op(g[s \ {m}], seq[m])
        BY <1>2, <3>1, Subsets
      <4> HIDE DEF f
      <4>2. QED BY <4>1
    <3>2. CASE m \notin s
      <4>1. s \in SUBSET (1..m - 1) /\ f[s \ {Max(s)}] = g[s \ {Max(s)}] /\ f[s] = g[s]
        BY <1>2, <3>2, Subsets
      <4> HIDE DEF f
      <4>2. QED BY <2>1, <4>1
    <3>3. QED BY <3>1, <3>2
  <2>3. Rec(f, 1..m)
    BY <2>2
  <2> HIDE DEF Rec, f
  <2>4. QED BY <2>3
<1>4. 0 \in G
  <2>1. Rec([s \in SUBSET (1..0) |-> c], 1..0)
    BY InitialParts
  <2> HIDE DEF Rec
  <2>2. QED BY <1>2, <2>1
<1>5. Rec(h, 1..n)
  <2>1. n \in G
    <3> HIDE DEF G
    <3> QED BY <1>2, <1>3, <1>4, Climb
  <2> HIDE DEF Rec
  <2>2. QED BY <1>2, <2>1
<1> HIDE DEF h
<1>7. r[0] = c /\ r[n] = h[1..n]
  <2>1. h[1..0] = c
    BY <1>5, InitialParts
  <2>2. QED BY <1>2, <2>1
<1>8. ASSUME NEW k \in 1..n PROVE r[k] = Op(r[k - 1], seq[k])
  <2>1. h[1..k] = Op(h[(1..k) \ {Max(1..k)}], seq[Max(1..k)])
    BY <1>2, <1>5, InitialParts
  <2>2. k \in 0..n /\ k - 1 \in 0..n
    BY <1>2
  <2>3. QED BY <1>2, <2>1, <2>2, InitialParts
<1> HIDE DEF r
<1>9. QED BY <1>1, <1>2, <1>7, <1>8 DEF n, Op, AddRegressionTrace

ReseedTrace(r, ts, seq) ==
  /\ r[0] = ts /\ \A k \in 1..Len(seq) : r[k] = Reseed(r[k - 1], seq[k])
  /\ AllReseeded(ts, seq) = r[Len(seq)]

LEMMA ReseedSteps ==
  ASSUME NEW ts, NEW seq, Len(seq) \in Nat, DOMAIN seq = 1..Len(seq)
  PROVE  \E r : ReseedTrace(r, ts, seq)
<1> DEFINE n == Len(seq)
           Op(acc, x) == Reseed(acc, x)
           Rec(h, d) == h = [s \in SUBSET d |->
                               IF s = {} THEN ts ELSE Op(h[s \ {Max(s)}], seq[Max(s)])]
           G == {m \in 0..n : \E g : Rec(g, 1..m)}
           h == CHOOSE h : Rec(h, DOMAIN seq)
           r == [k \in 0..n |-> h[1..k]]
<1>1. AllReseeded(ts, seq) = h[DOMAIN seq]
  BY DEF AllReseeded, FoldLeft, MapThenFoldSet
<1>2. DOMAIN seq = 1..n /\ n \in Nat /\ {0, n} \subseteq 0..n
  OBVIOUS
<1> HIDE DEF n, Op
<1>3. ASSUME NEW m \in 1..n, m - 1 \in G PROVE m \in G
  <2>1. PICK g : Rec(g, 1..m - 1)
    BY <1>3
  <2> DEFINE f == [s \in SUBSET (1..m) |-> IF m \in s THEN Op(g[s \ {m}], seq[m]) ELSE g[s]]
  <2>2. ASSUME NEW s \in SUBSET (1..m)
        PROVE  f[s] = IF s = {} THEN ts ELSE Op(f[s \ {Max(s)}], seq[Max(s)])
    <3>1. CASE m \in s
      <4>1. s # {} /\ Max(s) = m /\ f[s \ {m}] = g[s \ {m}] /\ f[s] = Op(g[s \ {m}], seq[m])
        BY <1>2, <3>1, Subsets
      <4> HIDE DEF f
      <4>2. QED BY <4>1
    <3>2. CASE m \notin s
      <4>1. s \in SUBSET (1..m - 1) /\ f[s \ {Max(s)}] = g[s \ {Max(s)}] /\ f[s] = g[s]
        BY <1>2, <3>2, Subsets
      <4> HIDE DEF f
      <4>2. QED BY <2>1, <4>1
    <3>3. QED BY <3>1, <3>2
  <2>3. Rec(f, 1..m)
    BY <2>2
  <2> HIDE DEF Rec, f
  <2>4. QED BY <2>3
<1>4. 0 \in G
  <2>1. Rec([s \in SUBSET (1..0) |-> ts], 1..0)
    BY InitialParts
  <2> HIDE DEF Rec
  <2>2. QED BY <1>2, <2>1
<1>5. Rec(h, 1..n)
  <2>1. n \in G
    <3> HIDE DEF G
    <3> QED BY <1>2, <1>3, <1>4, Climb
  <2> HIDE DEF Rec
  <2>2. QED BY <1>2, <2>1
<1> HIDE DEF h
<1>7. r[0] = ts /\ r[n] = h[1..n]
  <2>1. h[1..0] = ts
    BY <1>5, InitialParts
  <2>2. QED BY <1>2, <2>1
<1>8. ASSUME NEW k \in 1..n PROVE r[k] = Op(r[k - 1], seq[k])
  <2>1. h[1..k] = Op(h[(1..k) \ {Max(1..k)}], seq[Max(1..k)])
    BY <1>2, <1>5, InitialParts
  <2>2. k \in 0..n /\ k - 1 \in 0..n
    BY <1>2
  <2>3. QED BY <1>2, <2>1, <2>2, InitialParts
<1> HIDE DEF r
<1>9. QED BY <1>1, <1>2, <1>7, <1>8 DEF n, Op, ReseedTrace

AddBuildTrace(r, none, seq) ==
  /\ r[0] = none /\ \A k \in 1..Len(seq) : r[k] = AddBuild(r[k - 1], seq[k])
  /\ BuildsAdded(none, seq) = r[Len(seq)]

LEMMA AddBuildSteps ==
  ASSUME NEW none, NEW seq, Len(seq) \in Nat, DOMAIN seq = 1..Len(seq)
  PROVE  \E r : AddBuildTrace(r, none, seq)
<1> DEFINE n == Len(seq)
           Op(acc, x) == AddBuild(acc, x)
           Rec(h, d) == h = [s \in SUBSET d |->
                               IF s = {} THEN none ELSE Op(h[s \ {Max(s)}], seq[Max(s)])]
           G == {m \in 0..n : \E g : Rec(g, 1..m)}
           h == CHOOSE h : Rec(h, DOMAIN seq)
           r == [k \in 0..n |-> h[1..k]]
<1>1. BuildsAdded(none, seq) = h[DOMAIN seq]
  BY DEF BuildsAdded, FoldLeft, MapThenFoldSet
<1>2. DOMAIN seq = 1..n /\ n \in Nat /\ {0, n} \subseteq 0..n
  OBVIOUS
<1> HIDE DEF n, Op
<1>3. ASSUME NEW m \in 1..n, m - 1 \in G PROVE m \in G
  <2>1. PICK g : Rec(g, 1..m - 1)
    BY <1>3
  <2> DEFINE f == [s \in SUBSET (1..m) |-> IF m \in s THEN Op(g[s \ {m}], seq[m]) ELSE g[s]]
  <2>2. ASSUME NEW s \in SUBSET (1..m)
        PROVE  f[s] = IF s = {} THEN none ELSE Op(f[s \ {Max(s)}], seq[Max(s)])
    <3>1. CASE m \in s
      <4>1. s # {} /\ Max(s) = m /\ f[s \ {m}] = g[s \ {m}] /\ f[s] = Op(g[s \ {m}], seq[m])
        BY <1>2, <3>1, Subsets
      <4> HIDE DEF f
      <4>2. QED BY <4>1
    <3>2. CASE m \notin s
      <4>1. s \in SUBSET (1..m - 1) /\ f[s \ {Max(s)}] = g[s \ {Max(s)}] /\ f[s] = g[s]
        BY <1>2, <3>2, Subsets
      <4> HIDE DEF f
      <4>2. QED BY <2>1, <4>1
    <3>3. QED BY <3>1, <3>2
  <2>3. Rec(f, 1..m)
    BY <2>2
  <2> HIDE DEF Rec, f
  <2>4. QED BY <2>3
<1>4. 0 \in G
  <2>1. Rec([s \in SUBSET (1..0) |-> none], 1..0)
    BY InitialParts
  <2> HIDE DEF Rec
  <2>2. QED BY <1>2, <2>1
<1>5. Rec(h, 1..n)
  <2>1. n \in G
    <3> HIDE DEF G
    <3> QED BY <1>2, <1>3, <1>4, Climb
  <2> HIDE DEF Rec
  <2>2. QED BY <1>2, <2>1
<1> HIDE DEF h
<1>7. r[0] = none /\ r[n] = h[1..n]
  <2>1. h[1..0] = none
    BY <1>5, InitialParts
  <2>2. QED BY <1>2, <2>1
<1>8. ASSUME NEW k \in 1..n PROVE r[k] = Op(r[k - 1], seq[k])
  <2>1. h[1..k] = Op(h[(1..k) \ {Max(1..k)}], seq[Max(1..k)])
    BY <1>2, <1>5, InitialParts
  <2>2. k \in 0..n /\ k - 1 \in 0..n
    BY <1>2
  <2>3. QED BY <1>2, <2>1, <2>2, InitialParts
<1> HIDE DEF r
<1>9. QED BY <1>1, <1>2, <1>7, <1>8 DEF n, Op, AddBuildTrace

LoadTrace(r, files, fixed, at0, seq) ==
  /\ r[0] = at0 /\ \A k \in 1..Len(seq) : r[k] = Loading(files, fixed, r[k - 1])
  /\ FilesLoaded(files, fixed, at0, seq) = r[Len(seq)]

LEMMA LoadSteps ==
  ASSUME NEW files, NEW fixed, NEW at0, NEW seq, Len(seq) \in Nat, DOMAIN seq = 1..Len(seq)
  PROVE  \E r : LoadTrace(r, files, fixed, at0, seq)
<1> DEFINE n == Len(seq)
           Op(acc, x) == Loading(files, fixed, acc)
           Rec(h, d) == h = [s \in SUBSET d |->
                               IF s = {} THEN at0 ELSE Op(h[s \ {Max(s)}], seq[Max(s)])]
           G == {m \in 0..n : \E g : Rec(g, 1..m)}
           h == CHOOSE h : Rec(h, DOMAIN seq)
           r == [k \in 0..n |-> h[1..k]]
<1>1. FilesLoaded(files, fixed, at0, seq) = h[DOMAIN seq]
  BY DEF FilesLoaded, Loading, Then, FoldLeft, MapThenFoldSet
<1>2. DOMAIN seq = 1..n /\ n \in Nat /\ {0, n} \subseteq 0..n
  OBVIOUS
<1> HIDE DEF n, Op
<1>3. ASSUME NEW m \in 1..n, m - 1 \in G PROVE m \in G
  <2>1. PICK g : Rec(g, 1..m - 1)
    BY <1>3
  <2> DEFINE f == [s \in SUBSET (1..m) |-> IF m \in s THEN Op(g[s \ {m}], seq[m]) ELSE g[s]]
  <2>2. ASSUME NEW s \in SUBSET (1..m)
        PROVE  f[s] = IF s = {} THEN at0 ELSE Op(f[s \ {Max(s)}], seq[Max(s)])
    <3>1. CASE m \in s
      <4>1. s # {} /\ Max(s) = m /\ f[s \ {m}] = g[s \ {m}] /\ f[s] = Op(g[s \ {m}], seq[m])
        BY <1>2, <3>1, Subsets
      <4> HIDE DEF f
      <4>2. QED BY <4>1
    <3>2. CASE m \notin s
      <4>1. s \in SUBSET (1..m - 1) /\ f[s \ {Max(s)}] = g[s \ {Max(s)}] /\ f[s] = g[s]
        BY <1>2, <3>2, Subsets
      <4> HIDE DEF f
      <4>2. QED BY <2>1, <4>1
    <3>3. QED BY <3>1, <3>2
  <2>3. Rec(f, 1..m)
    BY <2>2
  <2> HIDE DEF Rec, f
  <2>4. QED BY <2>3
<1>4. 0 \in G
  <2>1. Rec([s \in SUBSET (1..0) |-> at0], 1..0)
    BY InitialParts
  <2> HIDE DEF Rec
  <2>2. QED BY <1>2, <2>1
<1>5. Rec(h, 1..n)
  <2>1. n \in G
    <3> HIDE DEF G
    <3> QED BY <1>2, <1>3, <1>4, Climb
  <2> HIDE DEF Rec
  <2>2. QED BY <1>2, <2>1
<1> HIDE DEF h
<1>7. r[0] = at0 /\ r[n] = h[1..n]
  <2>1. h[1..0] = at0
    BY <1>5, InitialParts
  <2>2. QED BY <1>2, <2>1
<1>8. ASSUME NEW k \in 1..n PROVE r[k] = Op(r[k - 1], seq[k])
  <2>1. h[1..k] = Op(h[(1..k) \ {Max(1..k)}], seq[Max(1..k)])
    BY <1>2, <1>5, InitialParts
  <2>2. k \in 0..n /\ k - 1 \in 0..n
    BY <1>2
  <2>3. QED BY <1>2, <2>1, <2>2, InitialParts
<1> HIDE DEF r
<1>9. QED BY <1>1, <1>2, <1>7, <1>8 DEF n, Op, LoadTrace

(* Sequences of whatever values; nothing is in them twice.                 *)
IsSeq(s) == s \in Seq(ToSet(s))
OnceEach(s) == \A i, k \in DOMAIN s : s[i] = s[k] => i = k

LEMMA SeqIs ==
  ASSUME NEW s, IsSeq(s)
  PROVE  Len(s) \in Nat /\ DOMAIN s = 1..Len(s) /\ ToSet(s) = {s[i] : i \in 1..Len(s)}
<1>1. Len(s) \in Nat /\ DOMAIN s = 1..Len(s)
  BY DEF IsSeq
<1>2. QED BY <1>1 DEF ToSet

LEMMA SeqElements ==
  ASSUME NEW S, NEW s \in Seq(S)
  PROVE  IsSeq(s) /\ ToSet(s) \subseteq S
<1>1. s \in Seq(ToSet(s))
  BY DEF ToSet
<1>2. QED BY <1>1, Values DEF IsSeq

LEMMA SeqMade ==
  ASSUME NEW n \in Nat, NEW s, s = [k \in 1..n |-> s[k]]
  PROVE  IsSeq(s) /\ Len(s) = n /\ DOMAIN s = 1..n /\ ToSet(s) = {s[k] : k \in 1..n}
<1>1. DOMAIN s = 1..n
  OBVIOUS
<1> DEFINE S == {s[k] : k \in 1..n}
<1>2. ToSet(s) = S
  BY <1>1 DEF ToSet
<1>3. s \in [1..n -> S]
  OBVIOUS
<1> HIDE DEF S
<1>4. s \in Seq(S) /\ Len(s) = n
  BY <1>3
<1>5. QED BY <1>1, <1>2, <1>4 DEF IsSeq, S

LEMMA SeqAppended ==
  ASSUME NEW s, IsSeq(s), NEW e
  PROVE  /\ IsSeq(Append(s, e)) /\ ToSet(Append(s, e)) = ToSet(s) \cup {e}
         /\ Len(Append(s, e)) = Len(s) + 1 /\ Append(s, e)[Len(s) + 1] = e
         /\ \A i \in 1..Len(s) : Append(s, e)[i] = s[i]
<1> DEFINE S == ToSet(s) \cup {e}
           t == Append(s, e)
           n == Len(s)
<1>1. s \in Seq(S) /\ e \in S
  BY DEF IsSeq
<1>2. t \in Seq(S) /\ Len(t) = n + 1 /\ t[n + 1] = e /\ \A i \in 1..n : t[i] = s[i]
  BY <1>1
<1>3. n \in Nat /\ ToSet(s) = {s[i] : i \in 1..n}
  BY SeqIs
<1> HIDE DEF S, t, n
<1>4. IsSeq(t)
  BY <1>2, SeqElements
<1>5. ToSet(t) = {t[i] : i \in 1..n + 1}
  BY <1>2, <1>4, SeqIs
<1>6. \A i \in 1..n + 1 : i = n + 1 \/ i \in 1..n
  BY <1>3
<1>7. ToSet(t) = ToSet(s) \cup {e}
  <2>1. \A i \in 1..n : i \in 1..n + 1
    BY <1>3
  <2>2. n + 1 \in 1..n + 1
    BY <1>3
  <2>3. QED BY <1>2, <1>3, <1>5, <1>6, <2>1, <2>2
<1>8. QED BY <1>2, <1>4, <1>7 DEF t, n

LEMMA SeqJoined ==
  ASSUME NEW s, IsSeq(s), NEW t, IsSeq(t)
  PROVE  /\ IsSeq(s \o t) /\ ToSet(s \o t) = ToSet(s) \cup ToSet(t)
         /\ Len(s \o t) = Len(s) + Len(t)
         /\ \A i \in 1..Len(s) + Len(t) : (s \o t)[i] = IF i <= Len(s) THEN s[i] ELSE t[i - Len(s)]
<1> DEFINE S == ToSet(s) \cup ToSet(t)
           u == s \o t
           m == Len(s)
           n == Len(t)
<1>1. s \in Seq(S) /\ t \in Seq(S)
  BY DEF IsSeq
<1>2. u \in Seq(S) /\ Len(u) = m + n /\ \A i \in 1..m + n : u[i] = IF i <= m THEN s[i] ELSE t[i - m]
  BY <1>1, ConcatProperties
<1>3. m \in Nat /\ n \in Nat /\ ToSet(s) = {s[i] : i \in 1..m} /\ ToSet(t) = {t[i] : i \in 1..n}
  BY SeqIs
<1> HIDE DEF u, m, n
<1>4. IsSeq(u) /\ ToSet(u) \subseteq S
  BY <1>2, SeqElements
<1>5. ToSet(u) = {u[i] : i \in 1..m + n}
  BY <1>2, <1>4, SeqIs
<1>6. \A i \in 1..m : i \in 1..m + n /\ u[i] = s[i]
  BY <1>2, <1>3
<1>7. ASSUME NEW i \in 1..n PROVE m + i \in 1..m + n /\ u[m + i] = t[i]
  <2>1. m + i \in 1..m + n /\ ~(m + i <= m) /\ (m + i) - m = i
    BY <1>3
  <2>2. QED BY <1>2, <2>1
<1>8. ToSet(u) = ToSet(s) \cup ToSet(t)
  BY <1>3, <1>4, <1>5, <1>6, <1>7
<1>9. QED BY <1>2, <1>4, <1>8 DEF u, m, n

(* Only() keeps the elements in a set, Firsts() the first of each.         *)
LEMMA OnlyIs ==
  ASSUME NEW seq, IsSeq(seq), NEW set
  PROVE  IsSeq(Only(seq, set)) /\ ToSet(Only(seq, set)) = ToSet(seq) \cap set
<1> DEFINE n == Len(seq)
<1>1. n \in Nat /\ DOMAIN seq = 1..n /\ ToSet(seq) = {seq[i] : i \in 1..n}
  BY SeqIs
<1>2. PICK r : OnlyTrace(r, set, seq)
  BY <1>1, OnlySteps
<1>3. /\ r[0] = <<>>
      /\ \A k \in 1..n : r[k] = IF seq[k] \in set THEN Append(r[k - 1], seq[k]) ELSE r[k - 1]
      /\ Only(seq, set) = r[n]
  BY <1>2 DEF OnlyTrace
<1> HIDE DEF n
<1> DEFINE G == {k \in 0..n : IsSeq(r[k]) /\ ToSet(r[k]) = {seq[i] : i \in 1..k} \cap set}
<1>4. 0 \in G
  <2>1. IsSeq(<<>>) /\ ToSet(<<>>) = {} /\ {seq[i] : i \in 1..0} = {}
    BY InitialParts DEF IsSeq, ToSet
  <2>2. QED BY <1>1, <1>3, <2>1
<1>5. ASSUME NEW k \in 1..n, k - 1 \in G PROVE k \in G
  <2>1. IsSeq(r[k - 1]) /\ ToSet(r[k - 1]) = {seq[i] : i \in 1..k - 1} \cap set
    BY <1>5
  <2>2. {seq[i] : i \in 1..k} = {seq[i] : i \in 1..k - 1} \cup {seq[k]} /\ k \in 0..n
    <3>1. \A i \in 1..k : i = k \/ i \in 1..k - 1
      BY <1>1
    <3>2. k \in 1..k /\ \A i \in 1..k - 1 : i \in 1..k
      BY <1>1
    <3>3. QED BY <1>1, <3>1, <3>2
  <2>3. IsSeq(Append(r[k - 1], seq[k])) /\ ToSet(Append(r[k - 1], seq[k])) = ToSet(r[k - 1]) \cup {seq[k]}
    BY <2>1, SeqAppended
  <2> DEFINE A == {seq[i] : i \in 1..k}
             B == {seq[i] : i \in 1..k - 1}
  <2> HIDE DEF A, B
  <2>4. IsSeq(r[k]) /\ ToSet(r[k]) = A \cap set
    BY <1>3, <2>1, <2>2, <2>3 DEF A, B
  <2>5. QED BY <2>2, <2>4 DEF A
<1>6. n \in G
  <2> HIDE DEF G
  <2>1. \A k \in 0..n : k \in G
    BY <1>1, <1>4, <1>5, Climb
  <2>2. QED BY <1>1, <2>1
<1>7. QED BY <1>1, <1>3, <1>6

LEMMA ContainsIs ==
  ASSUME NEW s, IsSeq(s), NEW e
  PROVE  Contains(s, e) <=> e \in ToSet(s)
BY SeqIs DEF Contains

LEMMA FirstsIs ==
  ASSUME NEW seq, IsSeq(seq)
  PROVE  IsSeq(Firsts(seq)) /\ ToSet(Firsts(seq)) = ToSet(seq) /\ OnceEach(Firsts(seq))
<1> DEFINE n == Len(seq)
<1>1. n \in Nat /\ DOMAIN seq = 1..n /\ ToSet(seq) = {seq[i] : i \in 1..n}
  BY SeqIs
<1>2. PICK r : FirstsTrace(r, seq)
  BY <1>1, FirstsSteps
<1>3. /\ r[0] = <<>>
      /\ \A k \in 1..n : r[k] = IF Contains(r[k - 1], seq[k]) THEN r[k - 1] ELSE Append(r[k - 1], seq[k])
      /\ Firsts(seq) = r[n]
  BY <1>2 DEF FirstsTrace
<1> HIDE DEF n
<1> DEFINE G == {k \in 0..n : IsSeq(r[k]) /\ OnceEach(r[k]) /\ ToSet(r[k]) = {seq[i] : i \in 1..k}}
<1>4. 0 \in G
  <2>1. IsSeq(<<>>) /\ ToSet(<<>>) = {} /\ {seq[i] : i \in 1..0} = {}
    BY InitialParts DEF IsSeq, ToSet
  <2>2. OnceEach(<<>>)
    BY DEF OnceEach
  <2>3. QED BY <1>1, <1>3, <2>1, <2>2
<1>5. ASSUME NEW k \in 1..n, k - 1 \in G PROVE k \in G
  <2>1. IsSeq(r[k - 1]) /\ OnceEach(r[k - 1]) /\ ToSet(r[k - 1]) = {seq[i] : i \in 1..k - 1}
    BY <1>5
  <2>2. {seq[i] : i \in 1..k} = {seq[i] : i \in 1..k - 1} \cup {seq[k]} /\ k \in 0..n
    <3>1. \A i \in 1..k : i = k \/ i \in 1..k - 1
      BY <1>1
    <3>2. k \in 1..k /\ \A i \in 1..k - 1 : i \in 1..k
      BY <1>1
    <3>3. QED BY <1>1, <3>1, <3>2
  <2>3. /\ IsSeq(Append(r[k - 1], seq[k])) /\ ToSet(Append(r[k - 1], seq[k])) = ToSet(r[k - 1]) \cup {seq[k]}
        /\ Contains(r[k - 1], seq[k]) <=> seq[k] \in ToSet(r[k - 1])
    BY <2>1, SeqAppended, ContainsIs
  <2> DEFINE A == {seq[i] : i \in 1..k}
             B == {seq[i] : i \in 1..k - 1}
  <2> HIDE DEF A, B
  <2>4. IsSeq(r[k]) /\ ToSet(r[k]) = A
    BY <1>3, <2>1, <2>2, <2>3 DEF A, B
  <2>5. OnceEach(r[k])
    <3> DEFINE s == r[k - 1]
               e == seq[k]
    <3>1. IsSeq(s) /\ OnceEach(s) /\ r[k] = IF Contains(s, e) THEN s ELSE Append(s, e)
      BY <1>3, <2>1
    <3> HIDE DEF s, e
    <3>2. CASE e \notin ToSet(s)
      <4>1. /\ IsSeq(Append(s, e)) /\ Len(Append(s, e)) = Len(s) + 1 /\ Append(s, e)[Len(s) + 1] = e
            /\ \A i \in 1..Len(s) : Append(s, e)[i] = s[i]
        BY <3>1, SeqAppended
      <4>2. /\ Len(s) \in Nat /\ DOMAIN s = 1..Len(s) /\ DOMAIN Append(s, e) = 1..Len(s) + 1
            /\ \A i \in 1..Len(s) : s[i] \in ToSet(s)
        BY <3>1, <4>1, SeqIs
      <4>3. \A i \in 1..Len(s) + 1 : i \in 1..Len(s) \/ i = Len(s) + 1
        BY <4>2
      <4>4. OnceEach(Append(s, e))
        BY <3>1, <3>2, <4>1, <4>2, <4>3 DEF OnceEach
      <4>5. QED BY <3>1, <3>2, <4>4, ContainsIs
    <3>3. QED BY <3>1, <3>2, ContainsIs
  <2>6. QED BY <2>2, <2>4, <2>5 DEF A
<1>6. n \in G
  <2> HIDE DEF G
  <2>1. \A k \in 0..n : k \in G
    BY <1>1, <1>4, <1>5, Climb
  <2>2. QED BY <1>1, <2>1
<1>7. QED BY <1>1, <1>3, <1>6

LEMMA FlattenIs ==
  ASSUME NEW seqs, IsSeq(seqs), \A s \in ToSet(seqs) : IsSeq(s)
  PROVE  IsSeq(FlattenSeq(seqs)) /\ ToSet(FlattenSeq(seqs)) \subseteq UNION {ToSet(s) : s \in ToSet(seqs)}
<1> DEFINE S == UNION {ToSet(s) : s \in ToSet(seqs)}
<1>1. \A s \in ToSet(seqs) : s \in Seq(S)
  <2>1. ASSUME NEW s \in ToSet(seqs) PROVE s \in Seq(S)
    <3>1. ToSet(s) \subseteq S
      OBVIOUS
    <3> HIDE DEF S
    <3>2. QED BY <3>1 DEF IsSeq
  <2>2. QED BY <2>1
<1> DEFINE T == Seq(S)
<1>2. seqs \in Seq(T)
  <2> HIDE DEF S
  <2>1. ToSet(seqs) \subseteq T
    BY <1>1
  <2> HIDE DEF T
  <2>2. QED BY <2>1 DEF IsSeq
<1> HIDE DEF S
<1>3. FlattenSeq(seqs) \in Seq(S)
  BY <1>2, Flattened
<1>4. QED BY <1>3, SeqElements DEF S

(* Find() finds what has the name.                                         *)
LEMMA FindIs ==
  ASSUME NEW name, NEW ms, IsSeq(ms)
  PROVE  /\ Find(name, ms) \in 0..Len(ms)
         /\ Has(name, ms) <=> name \in Names(ms)
         /\ Has(name, ms) => Find(name, ms) \in DOMAIN ms /\ ms[Find(name, ms)].name = name
                             /\ ms[Find(name, ms)] \in ToSet(ms)
<1> DEFINE I == {i \in 1..Len(ms) : ms[i].name = name}
           m == Min(I)
<1>1. Find(name, ms) = IF I # {} THEN m ELSE 0
  BY DEF Find, SelectInSeq
<1>2. Len(ms) \in Nat /\ DOMAIN ms = 1..Len(ms) /\ ToSet(ms) = {ms[i] : i \in 1..Len(ms)}
  BY SeqIs
<1>3. name \in Names(ms) <=> I # {}
  BY <1>2 DEF Names
<1>4. ASSUME I # {} PROVE m \in I
  <2>1. PICK x \in I : \A k \in I : x <= k
    <3>1. I \in SUBSET Nat
      OBVIOUS
    <3> HIDE DEF I
    <3>2. QED BY <1>4, <3>1, Least
  <2> HIDE DEF I
  <2>2. QED BY <2>1 DEF Min
<1> HIDE DEF m
<1>5. QED BY <1>1, <1>2, <1>3, <1>4 DEF Has

LEMMA FindSame ==
  ASSUME NEW ms, IsSeq(ms), NEW ns, IsSeq(ns), DOMAIN ns = DOMAIN ms,
         \A i \in DOMAIN ms : ns[i].name = ms[i].name
  PROVE  Names(ns) = Names(ms) /\ \A name : Find(name, ns) = Find(name, ms)
<1>1. Len(ns) = Len(ms) /\ DOMAIN ms = 1..Len(ms)
  BY SeqIs
<1>2. Names(ns) = Names(ms)
  BY DEF Names
<1>3. ASSUME NEW name PROVE Find(name, ns) = Find(name, ms)
  <2>1. {i \in 1..Len(ns) : ns[i].name = name} = {i \in 1..Len(ms) : ms[i].name = name}
    BY <1>1
  <2>2. QED BY <2>1 DEF Find, SelectInSeq
<1>4. QED BY <1>2, <1>3

(* Records read from files: each has the attributes A, and its sub-modes    *)
(* are a list.  No two have the same name.                                 *)
ReadRecord(m, A) == A \subseteq DOMAIN m /\ ("subs" \in DOMAIN m => IsSeq(m.subs))
ReadRecords(ms, A) == IsSeq(ms) /\ \A m \in ToSet(ms) : ReadRecord(m, A)
OncePerName(ms) == \A i, k \in DOMAIN ms : ms[i].name = ms[k].name => i = k

(* A part of a list, in its order.                                          *)
Picks(at, seq, part) ==
  /\ at \in [1..Len(part) -> 1..Len(seq)]
  /\ \A k \in 1..Len(part) : part[k] = seq[at[k]]
  /\ \A k, l \in 1..Len(part) : k < l => at[k] < at[l]

LEMMA OnlyPicks ==
  ASSUME NEW seq, IsSeq(seq), NEW set
  PROVE  \E at : Picks(at, seq, Only(seq, set))
<1> DEFINE n == Len(seq)
<1>1. n \in Nat /\ DOMAIN seq = 1..n
  BY SeqIs
<1>2. PICK r : OnlyTrace(r, set, seq)
  BY <1>1, OnlySteps
<1>3. /\ r[0] = <<>> /\ Only(seq, set) = r[n]
      /\ \A k \in 1..n : r[k] = IF seq[k] \in set THEN Append(r[k - 1], seq[k]) ELSE r[k - 1]
  BY <1>2 DEF OnlyTrace
<1> HIDE DEF n
<1> DEFINE Within(k, at) == /\ Picks(at, seq, r[k])
                            /\ \A x \in 1..Len(r[k]) : at[x] <= k
           G == {k \in 0..n : IsSeq(r[k]) /\ \E at : Within(k, at)}
<1>4. 0 \in G
  <2>1. IsSeq(<<>>) /\ Len(<<>>) = 0 /\ 1..0 = {}
    BY DEF IsSeq, ToSet
  <2>2. [x \in 1..0 |-> 1] \in [1..0 -> 1..Len(seq)]
    BY <2>1
  <2>3. Picks([x \in 1..0 |-> 1], seq, <<>>)
    BY <2>1, <2>2 DEF Picks
  <2>4. 0 \in 0..n
    BY <1>1
  <2>5. QED BY <1>3, <2>1, <2>3, <2>4
<1>5. ASSUME NEW k \in 1..n, k - 1 \in G PROVE k \in G
  <2> DEFINE s == r[k - 1]
             m == Len(s)
             e == seq[k]
  <2>1. PICK at : Within(k - 1, at)
    BY <1>5
  <2>2. IsSeq(s) /\ k \in 0..n /\ k \in Nat /\ k \in 1..Len(seq)
    BY <1>1, <1>5 DEF n
  <2>3. m \in Nat
    BY <2>2, SeqIs
  <2>4. /\ at \in [1..m -> 1..Len(seq)] /\ \A x \in 1..m : s[x] = seq[at[x]] /\ at[x] <= k - 1
        /\ \A x, y \in 1..m : x < y => at[x] < at[y]
    BY <2>1 DEF Picks
  <2>5. CASE e \notin set
    <3>1. r[k] = s
      BY <1>3, <2>5
    <3>2. \A x \in 1..m : at[x] <= k
      BY <2>2, <2>4
    <3>3. Within(k, at)
      BY <2>1, <3>1, <3>2
    <3> HIDE DEF Within, s
    <3>4. QED BY <2>2, <3>1, <3>3
  <2>6. CASE e \in set
    <3>1. r[k] = Append(s, e)
      BY <1>3, <2>6
    <3> HIDE DEF s
    <3>2. /\ IsSeq(r[k]) /\ Len(r[k]) = m + 1 /\ r[k][m + 1] = e
          /\ \A x \in 1..m : r[k][x] = s[x]
      BY <2>2, <3>1, SeqAppended
    <3> DEFINE to == [x \in 1..m + 1 |-> IF x <= m THEN at[x] ELSE k]
    <3> HIDE DEF m, e
    <3>3. \A x \in 1..m + 1 : x \in 1..m \/ x = m + 1
      BY <2>3
    <3>4. \A x \in 1..m : to[x] = at[x]
      BY <2>3
    <3>5. to[m + 1] = k
      BY <2>3
    <3>6. to \in [1..m + 1 -> 1..Len(seq)]
      BY <2>2, <2>3, <2>4, <3>3
    <3> HIDE DEF to
    <3>7. \A x \in 1..m + 1 : to[x] \in Nat /\ to[x] <= k /\ r[k][x] = seq[to[x]]
      BY <1>1, <2>2, <2>4, <3>2, <3>3, <3>4, <3>5 DEF e, n
    <3>8. \A x, y \in 1..m + 1 : x < y => to[x] < to[y]
      <4>1. ASSUME NEW x \in 1..m + 1, NEW y \in 1..m + 1, x < y PROVE to[x] < to[y]
        <5>1. x \in 1..m
          BY <2>3, <4>1
        <5>2. CASE y \in 1..m
          BY <2>4, <3>4, <4>1, <5>1, <5>2
        <5>3. CASE y = m + 1
          <6>1. to[x] = at[x] /\ at[x] <= k - 1 /\ at[x] \in 1..Len(seq) /\ to[y] = k
            BY <2>4, <3>4, <3>5, <5>1, <5>3
          <6>2. QED BY <2>2, <6>1
        <5>4. QED BY <3>3, <5>2, <5>3
      <4>2. QED BY <4>1
    <3>9. Picks(to, seq, r[k])
      BY <3>2, <3>6, <3>7, <3>8 DEF Picks
    <3>10. Within(k, to)
      BY <3>2, <3>7, <3>9
    <3> HIDE DEF Within
    <3>11. QED BY <2>2, <3>2, <3>10
  <2>7. QED BY <2>5, <2>6
<1> HIDE DEF G
<1>6. \A k \in 0..n : k \in G
  BY <1>1, <1>4, <1>5, Climb
<1>7. n \in G
  BY <1>1, <1>6
<1>8. QED BY <1>3, <1>7 DEF G

LEMMA PicksOnce ==
  ASSUME NEW seq, IsSeq(seq), NEW set
  PROVE  /\ OnceEach(seq) => OnceEach(Only(seq, set))
         /\ OncePerName(seq) => OncePerName(Only(seq, set))
<1> DEFINE part == Only(seq, set)
<1>1. PICK at : Picks(at, seq, part)
  BY OnlyPicks
<1>2. IsSeq(part)
  BY OnlyIs
<1> HIDE DEF part
<1>3. Len(part) \in Nat /\ DOMAIN part = 1..Len(part) /\ Len(seq) \in Nat /\ DOMAIN seq = 1..Len(seq)
  BY <1>2, SeqIs
<1>4. ASSUME NEW k \in 1..Len(part), NEW l \in 1..Len(part), at[k] = at[l] PROVE k = l
  <2>1. \A x, y \in 1..Len(part) : x < y => at[x] < at[y]
    BY <1>1 DEF Picks
  <2>2. at[k] \in 1..Len(seq) /\ at[l] \in 1..Len(seq)
    BY <1>1 DEF Picks
  <2>3. k < l \/ l < k \/ k = l
    BY <1>3
  <2>4. QED BY <1>3, <1>4, <2>1, <2>2, <2>3
<1>5. \A k \in 1..Len(part) : part[k] = seq[at[k]] /\ at[k] \in 1..Len(seq)
  BY <1>1 DEF Picks
<1>6. OnceEach(seq) => OnceEach(part)
  BY <1>3, <1>4, <1>5 DEF OnceEach
<1>7. OncePerName(seq) => OncePerName(part)
  BY <1>3, <1>4, <1>5 DEF OncePerName
<1>8. QED BY <1>6, <1>7 DEF part

LEMMA JoinedOnce ==
  ASSUME NEW s, IsSeq(s), OnceEach(s), NEW t, IsSeq(t), OnceEach(t), ToSet(s) \cap ToSet(t) = {}
  PROVE  OnceEach(s \o t)
<1> DEFINE m == Len(s)
           n == Len(t)
           j == s \o t
<1>1. /\ m \in Nat /\ DOMAIN s = 1..m /\ ToSet(s) = {s[i] : i \in 1..m}
      /\ n \in Nat /\ DOMAIN t = 1..n /\ ToSet(t) = {t[i] : i \in 1..n}
  BY SeqIs
<1>2. /\ IsSeq(j) /\ Len(j) = m + n
      /\ \A i \in 1..m + n : j[i] = IF i <= m THEN s[i] ELSE t[i - m]
  BY SeqJoined
<1> HIDE DEF j
<1>3. DOMAIN j = 1..m + n
  BY <1>2, SeqIs
<1> HIDE DEF m, n
<1>4. \A i \in 1..m + n : (i \in 1..m /\ j[i] = s[i]) \/ (i - m \in 1..n /\ i > m /\ j[i] = t[i - m])
  BY <1>1, <1>2
<1>5. ASSUME NEW i \in 1..m + n, NEW k \in 1..m + n, j[i] = j[k] PROVE i = k
  <2>1. CASE i \in 1..m /\ j[i] = s[i] /\ k \in 1..m /\ j[k] = s[k]
    BY <1>1, <1>5, <2>1 DEF OnceEach
  <2>2. CASE i - m \in 1..n /\ j[i] = t[i - m] /\ k - m \in 1..n /\ j[k] = t[k - m]
    <3>1. i - m = k - m
      BY <1>1, <1>5, <2>2 DEF OnceEach
    <3>2. QED BY <1>1, <3>1
  <2>3. CASE i \in 1..m /\ j[i] = s[i] /\ k - m \in 1..n /\ j[k] = t[k - m]
    BY <1>1, <1>5, <2>3
  <2>4. CASE k \in 1..m /\ j[k] = s[k] /\ i - m \in 1..n /\ j[i] = t[i - m]
    BY <1>1, <1>5, <2>4
  <2>5. QED BY <1>4, <2>1, <2>2, <2>3, <2>4
<1>6. QED BY <1>3, <1>5 DEF OnceEach, j

(* Where in the sequences what is in the flattened one comes from: in the   *)
(* b-th of them, at p.                                                     *)
Blocks(b, p, k, seqs, flat) ==
  /\ b \in [1..Len(flat) -> 1..k] /\ p \in [1..Len(flat) -> Nat \ {0}]
  /\ \A x \in 1..Len(flat) : p[x] <= Len(seqs[b[x]]) /\ flat[x] = seqs[b[x]][p[x]]
  /\ \A x, y \in 1..Len(flat) : x < y => b[x] < b[y] \/ (b[x] = b[y] /\ p[x] < p[y])
  /\ \A i \in 1..k : \A q \in 1..Len(seqs[i]) : \E x \in 1..Len(flat) : b[x] = i /\ p[x] = q
  /\ \A i \in 1..k : Len(seqs[i]) <= Len(flat)

LEMMA BlocksJoined ==
  ASSUME NEW seqs, NEW flat, IsSeq(flat), NEW k \in Nat \ {0}, IsSeq(seqs[k]),
         NEW b, NEW p, Blocks(b, p, k - 1, seqs, flat),
         \A i \in 1..k - 1 : Len(seqs[i]) \in Nat
  PROVE  \E c, q : Blocks(c, q, k, seqs, flat \o seqs[k])
<1> DEFINE s == seqs[k]
           m == Len(flat)
           n == Len(s)
           new == flat \o s
           c == [x \in 1..m + n |-> IF x <= m THEN b[x] ELSE k]
           q == [x \in 1..m + n |-> IF x <= m THEN p[x] ELSE x - m]
<1>1. /\ m \in Nat /\ n \in Nat /\ Len(new) = m + n
      /\ \A x \in 1..m + n : new[x] = IF x <= m THEN flat[x] ELSE s[x - m]
  BY SeqIs, SeqJoined
<1>2. /\ b \in [1..m -> 1..k - 1] /\ p \in [1..m -> Nat \ {0}]
      /\ \A x \in 1..m : p[x] <= Len(seqs[b[x]]) /\ flat[x] = seqs[b[x]][p[x]]
      /\ \A x, y \in 1..m : x < y => b[x] < b[y] \/ (b[x] = b[y] /\ p[x] < p[y])
      /\ \A i \in 1..k - 1 : \A z \in 1..Len(seqs[i]) : \E x \in 1..m : b[x] = i /\ p[x] = z
      /\ \A i \in 1..k - 1 : Len(seqs[i]) <= m
  BY DEF Blocks
<1> HIDE DEF new, m, n, s
<1>3. ASSUME NEW x \in 1..m + n
      PROVE  \/ x \in 1..m /\ c[x] = b[x] /\ q[x] = p[x] /\ new[x] = flat[x]
             \/ x - m \in 1..n /\ x > m /\ c[x] = k /\ q[x] = x - m /\ new[x] = s[x - m]
  BY <1>1
<1>4. \A x \in 1..m : x \in 1..m + n
  BY <1>1
<1>5. \A z \in 1..n : m + z \in 1..m + n /\ m + z > m /\ (m + z) - m = z
  BY <1>1
<1>6. \A i \in 1..k : i = k \/ i \in 1..k - 1
  OBVIOUS
<1>7. c \in [1..m + n -> 1..k] /\ q \in [1..m + n -> Nat \ {0}]
  <2>1. ASSUME NEW x \in 1..m + n PROVE c[x] \in 1..k /\ q[x] \in Nat \ {0}
    <3> HIDE DEF c, q
    <3>1. CASE x \in 1..m /\ c[x] = b[x] /\ q[x] = p[x]
      <4>1. b[x] \in 1..k - 1 /\ p[x] \in Nat \ {0}
        BY <1>2, <3>1
      <4>2. QED BY <3>1, <4>1
    <3>2. CASE x - m \in 1..n /\ c[x] = k /\ q[x] = x - m
      BY <1>1, <3>2
    <3>3. QED BY <1>3, <3>1, <3>2
  <2>2. QED BY <2>1
<1> HIDE DEF c, q
<1>8. \A x \in 1..m + n : q[x] <= Len(seqs[c[x]]) /\ new[x] = seqs[c[x]][q[x]]
  <2>1. ASSUME NEW x \in 1..m + n PROVE q[x] <= Len(seqs[c[x]]) /\ new[x] = seqs[c[x]][q[x]]
    <3>1. CASE x \in 1..m /\ c[x] = b[x] /\ q[x] = p[x] /\ new[x] = flat[x]
      BY <1>2, <3>1
    <3>2. CASE x - m \in 1..n /\ c[x] = k /\ q[x] = x - m /\ new[x] = s[x - m]
      BY <1>1, <3>2 DEF s, n
    <3>3. QED BY <1>3, <3>1, <3>2
  <2>2. QED BY <2>1
<1>9. \A x, y \in 1..m + n : x < y => c[x] < c[y] \/ (c[x] = c[y] /\ q[x] < q[y])
  <2>1. ASSUME NEW x \in 1..m + n, NEW y \in 1..m + n, x < y
        PROVE  c[x] < c[y] \/ (c[x] = c[y] /\ q[x] < q[y])
    <3>1. CASE x \in 1..m /\ c[x] = b[x] /\ q[x] = p[x] /\ y \in 1..m /\ c[y] = b[y] /\ q[y] = p[y]
      BY <1>2, <2>1, <3>1
    <3>2. CASE x \in 1..m /\ c[x] = b[x] /\ c[y] = k
      <4>1. b[x] \in 1..k - 1
        BY <1>2, <3>2
      <4>2. QED BY <3>2, <4>1
    <3>3. CASE x > m /\ y \in 1..m
      BY <1>1, <2>1, <3>3
    <3>4. CASE c[x] = k /\ q[x] = x - m /\ c[y] = k /\ q[y] = y - m
      BY <1>1, <2>1, <3>4
    <3>5. QED BY <1>3, <3>1, <3>2, <3>3, <3>4
  <2>2. QED BY <2>1
<1>10. ASSUME NEW i \in 1..k, NEW z \in 1..Len(seqs[i]) PROVE \E x \in 1..m + n : c[x] = i /\ q[x] = z
  <2>1. CASE i \in 1..k - 1
    <3>1. PICK x \in 1..m : b[x] = i /\ p[x] = z
      BY <1>2, <2>1
    <3>2. x \in 1..m + n /\ ~(x > m)
      BY <1>1
    <3>3. QED BY <1>3, <3>1, <3>2
  <2>2. CASE i = k
    <3>1. z \in 1..n
      BY <2>2 DEF n, s
    <3>2. m + z \in 1..m + n /\ m + z > m /\ (m + z) - m = z /\ ~(m + z \in 1..m)
      BY <1>1, <3>1
    <3>3. c[m + z] = k /\ q[m + z] = z
      BY <1>3, <3>2
    <3>4. QED BY <2>2, <3>2, <3>3
  <2>3. QED BY <1>6, <2>1, <2>2
<1>11. ASSUME NEW i \in 1..k PROVE Len(seqs[i]) <= m + n
  <2>1. CASE i \in 1..k - 1
    BY <1>1, <1>2, <2>1
  <2>2. CASE i = k
    BY <1>1, <2>2 DEF n, s
  <2>3. QED BY <1>6, <2>1, <2>2
<1>12. Blocks(c, q, k, seqs, new)
  BY <1>1, <1>7, <1>8, <1>9, <1>10, <1>11 DEF Blocks
<1>13. QED BY <1>12 DEF new, s

LEMMA FlattenBlocks ==
  ASSUME NEW seqs, IsSeq(seqs), \A i \in DOMAIN seqs : IsSeq(seqs[i])
  PROVE  /\ IsSeq(FlattenSeq(seqs))
         /\ \E b, p : Blocks(b, p, Len(seqs), seqs, FlattenSeq(seqs))
<1> DEFINE S == UNION {ToSet(seqs[i]) : i \in DOMAIN seqs}
           T == Seq(S)
           n == Len(seqs)
<1>1. n \in Nat /\ DOMAIN seqs = 1..n /\ ToSet(seqs) = {seqs[i] : i \in 1..n}
  BY SeqIs
<1> HIDE DEF n
<1>2. \A i \in 1..n : seqs[i] \in T
  <2>1. ASSUME NEW i \in 1..n PROVE seqs[i] \in Seq(S)
    <3> DEFINE s == seqs[i]
    <3>1. ToSet(s) \subseteq S /\ IsSeq(s)
      BY <1>1
    <3> HIDE DEF S, s
    <3>2. s \in Seq(S)
      BY <3>1 DEF IsSeq
    <3>3. QED BY <3>2 DEF s
  <2>2. QED BY <2>1
<1> HIDE DEF S
<1>3. seqs \in Seq(T)
  <2> HIDE DEF T
  <2>1. ToSet(seqs) \subseteq T
    BY <1>1, <1>2
  <2>2. QED BY <2>1 DEF IsSeq
<1>4. PICK r : FlattenTrace(r, S, seqs)
  BY <1>3, FlattenSteps
<1>5. /\ r[0] = <<>> /\ \A k \in 1..n : r[k] = r[k - 1] \o seqs[k]
      /\ \A k \in 0..n : r[k] \in Seq(S) /\ FlattenSeq(seqs) = r[n]
  BY <1>4 DEF FlattenTrace, n
<1>6. \A k \in 0..n : IsSeq(r[k])
  BY <1>5, SeqElements
<1> DEFINE G == {k \in 0..n : \E b, p : Blocks(b, p, k, seqs, r[k])}
<1>7. 0 \in G
  <2>1. 1..0 = {} /\ Len(r[0]) = 0
    BY <1>5
  <2>2. [x \in 1..0 |-> 1] \in [1..0 -> 1..0] /\ [x \in 1..0 |-> 1] \in [1..0 -> Nat \ {0}]
    BY <2>1
  <2>3. Blocks([x \in 1..0 |-> 1], [x \in 1..0 |-> 1], 0, seqs, r[0])
    BY <2>1, <2>2 DEF Blocks
  <2>4. 0 \in 0..n
    BY <1>1
  <2>5. QED BY <2>3, <2>4
<1>8. ASSUME NEW k \in 1..n, k - 1 \in G PROVE k \in G
  <2>1. k \in 0..n /\ k - 1 \in 0..n /\ k \in Nat \ {0} /\ k \in DOMAIN seqs
    BY <1>1
  <2>2. PICK b, p : Blocks(b, p, k - 1, seqs, r[k - 1])
    BY <1>8
  <2>3. \A i \in 1..k - 1 : Len(seqs[i]) \in Nat
    <3>1. \A i \in 1..k - 1 : i \in 1..n
      BY <1>1
    <3>2. QED BY <1>1, <3>1, SeqIs
  <2>4. \E c, q : Blocks(c, q, k, seqs, r[k - 1] \o seqs[k])
    BY <1>6, <2>1, <2>2, <2>3, BlocksJoined
  <2>5. QED BY <1>5, <2>1, <2>4
<1> HIDE DEF G
<1>9. \A k \in 0..n : k \in G
  BY <1>1, <1>7, <1>8, Climb
<1>10. n \in 0..n
  BY <1>1
<1>11. QED BY <1>5, <1>6, <1>9, <1>10 DEF G, n

InSome(e, seqs) == \E i \in DOMAIN seqs : e \in ToSet(seqs[i])
LEMMA FlattenHas ==
  ASSUME NEW seqs, IsSeq(seqs), \A i \in DOMAIN seqs : IsSeq(seqs[i]), NEW e
  PROVE  e \in ToSet(FlattenSeq(seqs)) <=> InSome(e, seqs)
<1> DEFINE flat == FlattenSeq(seqs)
           n == Len(seqs)
<1>1. IsSeq(flat) /\ \E b, p : Blocks(b, p, n, seqs, flat)
  BY FlattenBlocks
<1>2. PICK b, p : Blocks(b, p, n, seqs, flat)
  BY <1>1
<1>3. n \in Nat /\ DOMAIN seqs = 1..n
  BY SeqIs
<1> HIDE DEF flat, n
<1>4. Len(flat) \in Nat /\ ToSet(flat) = {flat[x] : x \in 1..Len(flat)}
  BY <1>1, SeqIs
<1>5. ASSUME e \in ToSet(flat) PROVE InSome(e, seqs)
  <2>1. PICK x \in 1..Len(flat) : e = flat[x]
    BY <1>4, <1>5
  <2> DEFINE i == b[x]
             q == p[x]
  <2>2. i \in 1..n /\ q \in Nat \ {0} /\ q <= Len(seqs[i]) /\ e = seqs[i][q]
    BY <1>2, <2>1 DEF Blocks
  <2> HIDE DEF i, q
  <2>3. Len(seqs[i]) \in Nat /\ ToSet(seqs[i]) = {seqs[i][y] : y \in 1..Len(seqs[i])}
    BY <1>3, <2>2, SeqIs
  <2>4. q \in 1..Len(seqs[i])
    BY <2>2, <2>3
  <2>5. QED BY <1>3, <2>2, <2>3, <2>4 DEF InSome
<1>6. ASSUME InSome(e, seqs) PROVE e \in ToSet(flat)
  <2>0. PICK i \in DOMAIN seqs : e \in ToSet(seqs[i])
    BY <1>6 DEF InSome
  <2>1. PICK q \in 1..Len(seqs[i]) : e = seqs[i][q]
    BY <2>0, SeqIs
  <2>2. PICK x \in 1..Len(flat) : b[x] = i /\ p[x] = q
    BY <1>2, <1>3 DEF Blocks
  <2>3. flat[x] = seqs[i][q]
    BY <1>2, <2>2 DEF Blocks
  <2>4. QED BY <1>4, <2>1, <2>2, <2>3
<1>7. QED BY <1>5, <1>6 DEF flat

LEMMA FlattenOnce ==
  ASSUME NEW seqs, IsSeq(seqs), \A i \in DOMAIN seqs : IsSeq(seqs[i]) /\ OnceEach(seqs[i]),
         \A i, k \in DOMAIN seqs : i # k => ToSet(seqs[i]) \cap ToSet(seqs[k]) = {}
  PROVE  OnceEach(FlattenSeq(seqs))
<1> DEFINE flat == FlattenSeq(seqs)
           n == Len(seqs)
<1>1. IsSeq(flat) /\ \E b, p : Blocks(b, p, n, seqs, flat)
  BY FlattenBlocks
<1>2. PICK b, p : Blocks(b, p, n, seqs, flat)
  BY <1>1
<1>3. n \in Nat /\ DOMAIN seqs = 1..n
  BY SeqIs
<1> HIDE DEF flat, n
<1>4. Len(flat) \in Nat /\ DOMAIN flat = 1..Len(flat)
  BY <1>1, SeqIs
<1>5. ASSUME NEW x \in 1..Len(flat)
      PROVE  b[x] \in DOMAIN seqs /\ p[x] \in DOMAIN seqs[b[x]] /\ flat[x] = seqs[b[x]][p[x]]
  <2>1. b[x] \in 1..n /\ p[x] \in Nat \ {0} /\ p[x] <= Len(seqs[b[x]]) /\ flat[x] = seqs[b[x]][p[x]]
    BY <1>2 DEF Blocks
  <2> DEFINE s == seqs[b[x]]
             q == p[x]
  <2>2. IsSeq(s)
    BY <1>3, <2>1
  <2>3. q \in Nat \ {0} /\ q <= Len(s)
    BY <2>1
  <2> HIDE DEF s, q
  <2>4. Len(s) \in Nat /\ DOMAIN s = 1..Len(s)
    BY <2>2, SeqIs
  <2>5. q \in DOMAIN s
    BY <2>3, <2>4
  <2>6. QED BY <1>3, <2>1, <2>5 DEF s, q
<1>6. ASSUME NEW x \in 1..Len(flat), NEW y \in 1..Len(flat), x < y PROVE flat[x] # flat[y]
  <2>1. b[x] < b[y] \/ (b[x] = b[y] /\ p[x] < p[y])
    BY <1>2, <1>6 DEF Blocks
  <2>2. b[x] \in 1..n /\ b[y] \in 1..n /\ p[x] \in Nat /\ p[y] \in Nat
    BY <1>2 DEF Blocks
  <2>3. CASE b[x] < b[y]
    <3>1. b[x] # b[y]
      BY <1>3, <2>2, <2>3
    <3>2. ToSet(seqs[b[x]]) \cap ToSet(seqs[b[y]]) = {}
      BY <1>5, <3>1
    <3>3. flat[x] \in ToSet(seqs[b[x]]) /\ flat[y] \in ToSet(seqs[b[y]])
      BY <1>5 DEF ToSet
    <3>4. QED BY <3>2, <3>3
  <2>4. CASE b[x] = b[y] /\ p[x] < p[y]
    <3>1. p[x] # p[y] /\ p[y] \in DOMAIN seqs[b[x]]
      BY <1>5, <2>2, <2>4
    <3>2. seqs[b[x]][p[x]] # seqs[b[x]][p[y]]
      BY <1>5, <3>1 DEF OnceEach
    <3>3. QED BY <1>5, <2>4, <3>2
  <2>5. QED BY <2>1, <2>3, <2>4
<1>7. \A x, y \in 1..Len(flat) : flat[x] = flat[y] => x = y
  <2>1. \A x, y \in 1..Len(flat) : x < y \/ y < x \/ x = y
    BY <1>4
  <2>2. QED BY <1>6, <2>1
<1>8. QED BY <1>4, <1>7 DEF OnceEach, flat

LEMMA MergedRecord ==
  ASSUME NEW A, NEW own, NEW inc, ReadRecord(own, A), ReadRecord(inc, A)
  PROVE  /\ ReadRecord(Merged(own, inc), A) /\ DOMAIN Merged(own, inc) = DOMAIN own
         /\ "name" \in DOMAIN own => Merged(own, inc).name = own.name
<1> DEFINE m == Merged(own, inc)
<1>1. DOMAIN m = DOMAIN own
  BY DEF Merged
<1>2. "name" \in DOMAIN own => m.name = own.name
  BY DEF Merged, MergedAttr
<1>3. ASSUME "subs" \in DOMAIN own PROVE IsSeq(m.subs)
  <2> DEFINE subs == MergedAttr(own, inc, "subs")
  <2>1. IsSeq(own.subs)
    BY <1>3 DEF ReadRecord
  <2>2. "subs" \in DOMAIN inc => IsSeq(inc.subs)
    BY DEF ReadRecord
  <2>3. \/ subs = own.subs
        \/ "subs" \in DOMAIN inc /\ (subs = inc.subs \/ subs = own.subs \o inc.subs)
    BY DEF MergedAttr, Extended, Lists
  <2>4. IsSeq(subs)
    BY <2>1, <2>2, <2>3, SeqJoined
  <2>5. m.subs = Uniquified(subs, own.name)
    BY <1>3 DEF Merged
  <2> HIDE DEF subs, m
  <2>6. IsSeq(Uniquified(subs, own.name))
    BY <2>4, OnlyIs, FirstsIs DEF Uniquified
  <2>7. QED BY <2>5, <2>6
<1> HIDE DEF m
<1>4. ReadRecord(m, A)
  BY <1>1, <1>3 DEF ReadRecord
<1>5. QED BY <1>1, <1>2, <1>4 DEF m

LEMMA MergedAt ==
  ASSUME NEW A, NEW ms, ReadRecords(ms, A), NEW i \in DOMAIN ms, NEW inc, ReadRecord(inc, A),
         MergeAt(ms, i, inc) # Exit
  PROVE  LET new == MergeAt(ms, i, inc)
         IN /\ ReadRecords(new, A) /\ DOMAIN new = DOMAIN ms
            /\ "name" \in A => \A k \in DOMAIN ms : new[k].name = ms[k].name
<1> DEFINE new == MergeAt(ms, i, inc)
           m == Merged(ms[i], inc)
<1>1. new = [ms EXCEPT ![i] = m]
  BY DEF MergeAt, MergeMode, Then
<1>2. Len(ms) \in Nat /\ DOMAIN ms = 1..Len(ms) /\ ToSet(ms) = {ms[k] : k \in 1..Len(ms)}
  BY SeqIs DEF ReadRecords
<1>3. \A k \in 1..Len(ms) : ReadRecord(ms[k], A)
  BY <1>2 DEF ReadRecords
<1>4. ReadRecord(m, A) /\ ("name" \in DOMAIN ms[i] => m.name = ms[i].name)
  <2>1. ReadRecord(ms[i], A)
    BY <1>2, <1>3
  <2>2. QED BY <2>1, MergedRecord
<1>5. "name" \in A => \A k \in 1..Len(ms) : "name" \in DOMAIN ms[k]
  BY <1>3 DEF ReadRecord
<1> HIDE DEF m, new
<1>6. new = [k \in 1..Len(ms) |-> new[k]] /\ \A k \in 1..Len(ms) : new[k] = IF k = i THEN m ELSE ms[k]
  BY <1>1, <1>2
<1>7. IsSeq(new) /\ DOMAIN new = 1..Len(ms) /\ ToSet(new) = {new[k] : k \in 1..Len(ms)}
  BY <1>2, <1>6, SeqMade
<1>8. ReadRecords(new, A)
  BY <1>3, <1>4, <1>6, <1>7 DEF ReadRecords
<1>9. "name" \in A => \A k \in DOMAIN ms : new[k].name = ms[k].name
  BY <1>2, <1>4, <1>5, <1>6
<1>10. QED BY <1>2, <1>7, <1>8, <1>9 DEF new

LEMMA DeclaresOne ==
  ASSUME NEW A, "name" \in A, NEW ms, ReadRecords(ms, A), OncePerName(ms), NEW d, ReadRecord(d, A),
         AddOrMerge(ms, d) # Exit
  PROVE  ReadRecords(AddOrMerge(ms, d), A) /\ OncePerName(AddOrMerge(ms, d))
<1> DEFINE new == AddOrMerge(ms, d)
<1>1. /\ Has(d.name, ms) <=> d.name \in Names(ms)
      /\ Has(d.name, ms) => Find(d.name, ms) \in DOMAIN ms
  BY FindIs DEF ReadRecords
<1>2. CASE Has(d.name, ms)
  <2>1. new = MergeAt(ms, Find(d.name, ms), d)
    BY <1>2 DEF AddOrMerge
  <2>2. ReadRecords(new, A) /\ DOMAIN new = DOMAIN ms /\ \A k \in DOMAIN ms : new[k].name = ms[k].name
    BY <1>1, <1>2, <2>1, MergedAt
  <2> HIDE DEF new
  <2>3. OncePerName(new)
    BY <2>2 DEF OncePerName
  <2>4. QED BY <2>2, <2>3 DEF new
<1>3. CASE ~Has(d.name, ms)
  <2> DEFINE n == Len(ms)
  <2>1. new = Append(ms, d)
    BY <1>3 DEF AddOrMerge
  <2>2. /\ IsSeq(new) /\ ToSet(new) = ToSet(ms) \cup {d}
        /\ Len(new) = n + 1 /\ new[n + 1] = d /\ \A k \in 1..n : new[k] = ms[k]
    BY <2>1, SeqAppended DEF ReadRecords
  <2>3. n \in Nat /\ DOMAIN ms = 1..n
    BY SeqIs DEF ReadRecords
  <2> HIDE DEF new, n
  <2>4. ReadRecords(new, A)
    BY <2>2 DEF ReadRecords
  <2>5. DOMAIN new = 1..n + 1
    BY <2>2, SeqIs
  <2>6. \A k \in 1..n : ms[k].name # d.name
    BY <1>1, <1>3, <2>3 DEF Names
  <2>7. \A k \in 1..n + 1 : k = n + 1 \/ k \in 1..n
    BY <2>3
  <2>8. OncePerName(new)
    BY <2>2, <2>3, <2>5, <2>6, <2>7 DEF OncePerName
  <2>9. QED BY <2>4, <2>8 DEF new
<1>4. QED BY <1>2, <1>3

LEMMA DeclaredIs ==
  ASSUME NEW A, "name" \in A, NEW first, ReadRecords(first, A), OncePerName(first),
         NEW dicts, ReadRecords(dicts, A), Declared(first, dicts) # Exit
  PROVE  ReadRecords(Declared(first, dicts), A) /\ OncePerName(Declared(first, dicts))
<1> DEFINE n == Len(dicts)
<1>1. n \in Nat /\ DOMAIN dicts = 1..n /\ \A k \in 1..n : ReadRecord(dicts[k], A)
  <2>1. n \in Nat /\ DOMAIN dicts = 1..n /\ ToSet(dicts) = {dicts[i] : i \in 1..n}
    BY SeqIs DEF ReadRecords
  <2>2. QED BY <2>1 DEF ReadRecords
<1>2. PICK r : DeclaredTrace(r, first, dicts)
  BY <1>1, DeclaredSteps
<1>3. /\ r[0] = first /\ \A k \in 1..n : r[k] = Declare(r[k - 1], dicts[k])
      /\ Declared(first, dicts) = r[n]
  BY <1>2 DEF DeclaredTrace
<1> HIDE DEF n
<1> DEFINE G == {k \in 0..n : r[k] = Exit \/ (ReadRecords(r[k], A) /\ OncePerName(r[k]))}
<1>4. 0 \in G
  BY <1>1, <1>3
<1>5. ASSUME NEW k \in 1..n, k - 1 \in G PROVE k \in G
  <2>1. k \in 0..n /\ r[k] = Declare(r[k - 1], dicts[k]) /\ ReadRecord(dicts[k], A)
    BY <1>1, <1>3
  <2>2. CASE r[k - 1] = Exit
    BY <2>1, <2>2 DEF Declare
  <2>3. CASE r[k - 1] # Exit
    <3>1. r[k] = AddOrMerge(r[k - 1], dicts[k])
      BY <2>1, <2>3 DEF Declare
    <3>2. ReadRecords(r[k - 1], A) /\ OncePerName(r[k - 1])
      BY <1>5, <2>3
    <3>3. QED BY <2>1, <3>1, <3>2, DeclaresOne
  <2>4. QED BY <2>2, <2>3
<1>6. n \in G
  <2> HIDE DEF G
  <2>1. \A k \in 0..n : k \in G
    BY <1>1, <1>4, <1>5, Climb
  <2>2. QED BY <1>1, <2>1
<1>7. QED BY <1>3, <1>6

(* A test has its attributes still once it is completed.                   *)
LEMMA RunModesMerged ==
  ASSUME NEW t, IsSeq(t.subs), NEW runModes, NEW enabled, WithRunModes(t, runModes, enabled) # Exit
  PROVE  /\ DOMAIN WithRunModes(t, runModes, enabled) = DOMAIN t
         /\ "name" \in DOMAIN t => WithRunModes(t, runModes, enabled).name = t.name
<1> DEFINE local == Local(t.subs, enabled)
           seq == [k \in DOMAIN local |-> runModes[Find(local[k], runModes)]]
           n == Len(seq)
<1>1. IsSeq(local)
  BY OnlyIs DEF Local
<1>2. Len(local) \in Nat /\ DOMAIN local = 1..Len(local)
  BY <1>1, SeqIs
<1>3. IsSeq(seq)
  <2>1. seq = [k \in 1..Len(local) |-> seq[k]]
    BY <1>2
  <2> HIDE DEF seq, local
  <2>2. QED BY <1>2, <2>1, SeqMade
<1>4. WithRunModes(t, runModes, enabled) = ModesMerged(t, seq)
  BY DEF WithRunModes, ModesMerged
<1> HIDE DEF seq, local
<1>5. n \in Nat /\ DOMAIN seq = 1..n
  BY <1>3, SeqIs
<1>6. PICK r : MergeIntoTrace(r, t, seq)
  BY <1>5, MergeIntoSteps
<1>7. /\ r[0] = t /\ \A k \in 1..n : r[k] = MergeInto(r[k - 1], seq[k])
      /\ ModesMerged(t, seq) = r[n]
  BY <1>6 DEF MergeIntoTrace
<1> HIDE DEF n
<1> DEFINE Same(u) == DOMAIN u = DOMAIN t /\ ("name" \in DOMAIN t => u.name = t.name)
           G == {k \in 0..n : r[k] = Exit \/ Same(r[k])}
<1>8. 0 \in G
  BY <1>5, <1>7
<1>9. ASSUME NEW k \in 1..n, k - 1 \in G PROVE k \in G
  <2>1. k \in 0..n /\ r[k] = MergeInto(r[k - 1], seq[k])
    BY <1>5, <1>7
  <2>2. CASE r[k - 1] = Exit
    BY <2>1, <2>2 DEF MergeInto
  <2>3. CASE r[k - 1] # Exit
    <3>1. r[k] = Exit \/ r[k] = Merged(r[k - 1], seq[k])
      BY <2>1, <2>3 DEF MergeInto, MergeMode
    <3>2. Same(r[k - 1])
      BY <1>9, <2>3
    <3>3. Same(Merged(r[k - 1], seq[k]))
      BY <3>2 DEF Merged, MergedAttr
    <3> HIDE DEF Same
    <3>4. QED BY <2>1, <3>1, <3>3
  <2>4. QED BY <2>2, <2>3
<1>10. n \in G
  <2> HIDE DEF G
  <2>1. \A k \in 0..n : k \in G
    BY <1>5, <1>8, <1>9, Climb
  <2>2. QED BY <1>5, <2>1
<1>11. QED BY <1>4, <1>7, <1>10

LEMMA TestsCreated ==
  ASSUME NEW A, {"name", "subs", "mode", "run"} \subseteq A, NEW dicts, ReadRecords(dicts, A),
         NEW buildModes, NEW runModes, NEW globals,
         CreateTests(dicts, buildModes, runModes, globals) # Exit
  PROVE  LET tests == CreateTests(dicts, buildModes, runModes, globals)
         IN /\ IsSeq(tests) /\ OncePerName(tests)
            /\ \A t \in ToSet(tests) : A \subseteq DOMAIN t /\ Has(t.mode, buildModes)
<1> DEFINE declared == Declared(<<>>, dicts)
           Complete(t) == Then(WithRunModes(t, runModes, globals.runModes),
                               LAMBDA u : WithBuildMode(WithDefaults(u, globals), buildModes))
           tests == [i \in DOMAIN declared |-> Complete(declared[i])]
           n == Len(declared)
<1>1. declared # Exit /\ (\A i \in DOMAIN tests : tests[i] # Exit)
      /\ CreateTests(dicts, buildModes, runModes, globals) = tests
  BY DEF CreateTests, Then, AllOf
<1>2. ReadRecords(declared, A) /\ OncePerName(declared)
  <2>1. ReadRecords(<<>>, A) /\ OncePerName(<<>>)
    BY DEF ReadRecords, OncePerName, IsSeq, ToSet
  <2> HIDE DEF tests, declared
  <2>2. "name" \in A
    OBVIOUS
  <2>3. QED BY <1>1, <2>1, <2>2, DeclaredIs DEF declared
<1> HIDE DEF declared
<1>3. n \in Nat /\ DOMAIN declared = 1..n /\ ToSet(declared) = {declared[i] : i \in 1..n}
  BY <1>2, SeqIs DEF ReadRecords
<1>4. ASSUME NEW i \in 1..n
      PROVE  /\ DOMAIN tests[i] = DOMAIN declared[i] /\ tests[i].name = declared[i].name
             /\ Has(tests[i].mode, buildModes)
  <2> DEFINE t == declared[i]
             u == WithRunModes(t, runModes, globals.runModes)
             w == WithDefaults(u, globals)
  <2>1. A \subseteq DOMAIN t /\ IsSeq(t.subs)
    BY <1>2, <1>3 DEF ReadRecords, ReadRecord
  <2>2. tests[i] = Complete(t) /\ tests[i] # Exit
    BY <1>1, <1>3
  <2> HIDE DEF t, tests
  <2>3. u # Exit /\ tests[i] = WithBuildMode(w, buildModes)
    BY <2>2 DEF Then
  <2>4. DOMAIN u = DOMAIN t /\ u.name = t.name
    BY <2>1, <2>3, RunModesMerged
  <2> HIDE DEF u
  <2>5. DOMAIN w = DOMAIN t /\ w.name = t.name
    BY <2>1, <2>4 DEF WithDefaults
  <2> HIDE DEF w
  <2>6. Has(w.mode, buildModes) /\ \E run : tests[i] = [w EXCEPT !.run = run]
    BY <2>2, <2>3 DEF WithBuildMode
  <2>7. DOMAIN tests[i] = DOMAIN t /\ tests[i].name = t.name /\ Has(tests[i].mode, buildModes)
    BY <2>1, <2>5, <2>6
  <2>8. QED BY <2>7 DEF t
<1>5. tests = [i \in 1..n |-> tests[i]]
  BY <1>3
<1> HIDE DEF tests, n
<1>6. IsSeq(tests) /\ DOMAIN tests = 1..n /\ ToSet(tests) = {tests[i] : i \in 1..n}
  BY <1>3, <1>5, SeqMade
<1>7. \A i \in 1..n : A \subseteq DOMAIN declared[i]
  BY <1>2, <1>3 DEF ReadRecords, ReadRecord
<1>8. OncePerName(tests)
  BY <1>2, <1>3, <1>4, <1>6 DEF OncePerName
<1>9. QED BY <1>1, <1>4, <1>6, <1>7, <1>8

(* A regression once it is completed has a list of tests that exist, each   *)
(* once.                                                                   *)
TestedBy(regrs, tests) ==
  /\ IsSeq(regrs)
  /\ \A r \in ToSet(regrs) : IsSeq(r.tests) /\ OnceEach(r.tests) /\ ToSet(r.tests) \subseteq Names(tests)

LEMMA RegressionsCreated ==
  ASSUME NEW A, {"name", "tests"} \subseteq A, NEW dicts, ReadRecords(dicts, A),
         NEW tests, IsSeq(tests), OncePerName(tests), NEW setOrder, IsSeq(setOrder), OnceEach(setOrder),
         NEW known, NEW buildModes, NEW runModes, NEW globals,
         CreateRegressions(dicts, tests, known, buildModes, runModes, globals, setOrder) # Exit
  PROVE  LET regrs == CreateRegressions(dicts, tests, known, buildModes, runModes, globals, setOrder)
         IN TestedBy(regrs, tests) /\ OncePerName(regrs) /\ \A r \in ToSet(regrs) : A \subseteq DOMAIN r
<1> DEFINE declared == Declared(<<>>, dicts)
           Complete(r) == CompleteRegression(r, tests, buildModes, runModes, globals, setOrder)
           regrs == [i \in DOMAIN declared |-> Complete(declared[i])]
           n == Len(declared)
<1>1. declared # Exit /\ (\A i \in DOMAIN regrs : regrs[i] # Exit)
      /\ CreateRegressions(dicts, tests, known, buildModes, runModes, globals, setOrder) = regrs
  BY DEF CreateRegressions, Then, AllOf
<1>2. ReadRecords(declared, A) /\ OncePerName(declared)
  <2>1. ReadRecords(<<>>, A) /\ OncePerName(<<>>)
    BY DEF ReadRecords, OncePerName, IsSeq, ToSet
  <2> HIDE DEF regrs, declared
  <2>2. "name" \in A
    OBVIOUS
  <2>3. QED BY <1>1, <2>1, <2>2, DeclaredIs DEF declared
<1> HIDE DEF declared
<1>3. n \in Nat /\ DOMAIN declared = 1..n /\ ToSet(declared) = {declared[i] : i \in 1..n}
  BY <1>2, SeqIs DEF ReadRecords
<1> DEFINE all == [i \in DOMAIN tests |-> tests[i].name]
<1>4. IsSeq(all) /\ OnceEach(all) /\ ToSet(all) \subseteq Names(tests)
  <2>0. OnceEach(all)
    BY DEF OnceEach, OncePerName
  <2>1. Len(tests) \in Nat /\ DOMAIN tests = 1..Len(tests)
    BY SeqIs
  <2>2. all = [i \in 1..Len(tests) |-> all[i]]
    BY <2>1
  <2>3. \A i \in DOMAIN tests : all[i] \in Names(tests)
    BY DEF Names
  <2> HIDE DEF all
  <2>4. QED BY <2>0, <2>1, <2>2, <2>3, SeqMade
<1>5. ASSUME NEW i \in 1..n
      PROVE  /\ DOMAIN regrs[i] = DOMAIN declared[i] /\ regrs[i].name = declared[i].name
             /\ IsSeq(regrs[i].tests) /\ OnceEach(regrs[i].tests)
             /\ ToSet(regrs[i].tests) \subseteq Names(tests)
  <2> DEFINE r == declared[i]
             kept == IF r.tests = None THEN all ELSE Only(setOrder, ToSet(r.tests) \cap Names(tests))
  <2>1. {"name", "tests"} \subseteq DOMAIN r
    BY <1>2, <1>3 DEF ReadRecords, ReadRecord
  <2>2. regrs[i] = Complete(r) /\ regrs[i] # Exit
    BY <1>1, <1>3
  <2> HIDE DEF r, regrs
  <2>3. DOMAIN regrs[i] = DOMAIN r /\ regrs[i].name = r.name /\ regrs[i].tests = kept
    BY <2>1, <2>2 DEF CompleteRegression
  <2>4. IsSeq(kept) /\ OnceEach(kept) /\ ToSet(kept) \subseteq Names(tests)
    <3> DEFINE low == Only(setOrder, ToSet(r.tests) \cap Names(tests))
    <3>1. IsSeq(low) /\ OnceEach(low) /\ ToSet(low) \subseteq Names(tests)
      BY OnlyIs, PicksOnce
    <3>2. kept = all \/ kept = low
      OBVIOUS
    <3> HIDE DEF kept, low, all
    <3>3. QED BY <1>4, <3>1, <3>2
  <2> HIDE DEF kept
  <2>5. QED BY <2>3, <2>4 DEF r
<1>6. regrs = [i \in 1..n |-> regrs[i]]
  BY <1>3
<1> HIDE DEF regrs, n
<1>7. IsSeq(regrs) /\ DOMAIN regrs = 1..n /\ ToSet(regrs) = {regrs[i] : i \in 1..n}
  BY <1>3, <1>6, SeqMade
<1>8. \A i \in 1..n : A \subseteq DOMAIN declared[i]
  BY <1>2, <1>3 DEF ReadRecords, ReadRecord
<1>9. OncePerName(regrs)
  BY <1>2, <1>3, <1>5, <1>7 DEF OncePerName
<1>10. TestedBy(regrs, tests) /\ \A r \in ToSet(regrs) : A \subseteq DOMAIN r
  BY <1>5, <1>7, <1>8 DEF TestedBy
<1>11. QED BY <1>1, <1>9, <1>10

-----------------------------------------------------------------------------
(* What merges into a mode read from a file is a mode read from a file.     *)
LEMMA SubsUnique ==
  ASSUME NEW subs \in Seq(STRING), NEW name
  PROVE  Uniquified(subs, name) \in Seq(STRING)
<1>1. IsSeq(subs) /\ ToSet(subs) \subseteq STRING
  BY SeqElements
<1>2. IsSeq(Uniquified(subs, name)) /\ ToSet(Uniquified(subs, name)) \subseteq ToSet(subs)
  BY <1>1, OnlyIs, FirstsIs DEF Uniquified
<1>3. \A S, T, s : S \subseteq T /\ s \in Seq(S) => s \in Seq(T)
  OBVIOUS
<1>4. QED BY <1>1, <1>2, <1>3 DEF IsSeq

ShortModes == [name : STRING, run : Seq(STRING), subs : Seq(STRING)]
TypeOf(a) ==
  CASE a \in {"name", "mode"} -> STRING [] a = "sim" -> Int [] a \in {"reseed", "timeout"} -> Optional
    [] OTHER -> Seq(STRING)
LongKeys == {"name", "sim", "mode", "reseed", "timeout", "build", "run", "subs"}
ShortKeys == {"name", "run", "subs"}

LEMMA ModeIs ==
  ASSUME NEW m
  PROVE  m \in ModesRead <=> /\ m = [a \in DOMAIN m |-> m[a]] /\ DOMAIN m \in {LongKeys, ShortKeys}
                             /\ \A a \in DOMAIN m : m[a] \in TypeOf(a)
<1>1. ModesRead = TestsRead \cup ShortModes
  BY DEF ModesRead, ShortModes
<1>2. m \in TestsRead <=> /\ m = [a \in DOMAIN m |-> m[a]] /\ DOMAIN m = LongKeys
                          /\ \A a \in LongKeys : m[a] \in TypeOf(a)
  <2>1. ASSUME m \in TestsRead
        PROVE  /\ m = [a \in DOMAIN m |-> m[a]] /\ DOMAIN m = LongKeys
               /\ \A a \in LongKeys : m[a] \in TypeOf(a)
    BY <2>1 DEF TestsRead, LongKeys, TypeOf
  <2>2. ASSUME m = [a \in DOMAIN m |-> m[a]], DOMAIN m = LongKeys, \A a \in LongKeys : m[a] \in TypeOf(a)
        PROVE  m \in TestsRead
    <3>1. /\ m.name \in STRING /\ m.mode \in STRING /\ m.sim \in Int /\ m.reseed \in Optional /\ m.timeout \in Optional
          /\ m.build \in Seq(STRING) /\ m.run \in Seq(STRING) /\ m.subs \in Seq(STRING)
      BY <2>2 DEF LongKeys, TypeOf
    <3>2. m = [a \in LongKeys |-> m[a]]
      BY <2>2
    <3>3. QED BY <3>1, <3>2 DEF TestsRead, LongKeys
  <2>3. QED BY <2>1, <2>2
<1>3. m \in ShortModes <=> /\ m = [a \in DOMAIN m |-> m[a]] /\ DOMAIN m = ShortKeys
                           /\ \A a \in ShortKeys : m[a] \in TypeOf(a)
  <2>1. ASSUME m \in ShortModes
        PROVE  /\ m = [a \in DOMAIN m |-> m[a]] /\ DOMAIN m = ShortKeys
               /\ \A a \in ShortKeys : m[a] \in TypeOf(a)
    BY <2>1 DEF ShortModes, ShortKeys, TypeOf
  <2>2. ASSUME m = [a \in DOMAIN m |-> m[a]], DOMAIN m = ShortKeys, \A a \in ShortKeys : m[a] \in TypeOf(a)
        PROVE  m \in ShortModes
    <3>1. m.name \in STRING /\ m.run \in Seq(STRING) /\ m.subs \in Seq(STRING)
      BY <2>2 DEF ShortKeys, TypeOf
    <3>2. m = [a \in ShortKeys |-> m[a]]
      BY <2>2
    <3>3. QED BY <3>1, <3>2 DEF ShortModes, ShortKeys
  <2>3. QED BY <2>1, <2>2
<1>4. QED BY <1>1, <1>2, <1>3

LEMMA MergedMode ==
  ASSUME NEW own \in ModesRead, NEW inc \in ModesRead
  PROVE  Merged(own, inc) \in ModesRead /\ Merged(own, inc).name = own.name
<1> DEFINE m == Merged(own, inc)
<1>1. /\ DOMAIN own \in {LongKeys, ShortKeys} /\ \A a \in DOMAIN own : own[a] \in TypeOf(a)
      /\ DOMAIN inc \in {LongKeys, ShortKeys} /\ \A a \in DOMAIN inc : inc[a] \in TypeOf(a)
  BY ModeIs
<1>2. DOMAIN m = DOMAIN own /\ m = [a \in DOMAIN m |-> m[a]]
  BY DEF Merged
<1>3. ASSUME NEW a \in DOMAIN own PROVE MergedAttr(own, inc, a) \in TypeOf(a)
  <2>1. CASE a \in Lists
    <3>1. TypeOf(a) = Seq(STRING) \/ a = "tests"
      BY <2>1 DEF TypeOf, Lists
    <3>2. a # "tests"
      BY <1>1 DEF LongKeys, ShortKeys
    <3>3. own[a] \in Seq(STRING) /\ (a \in DOMAIN inc => inc[a] \in Seq(STRING))
      BY <1>1, <3>1, <3>2
    <3>4. \/ MergedAttr(own, inc, a) = own[a]
          \/ a \in DOMAIN inc /\ MergedAttr(own, inc, a) \in {inc[a], own[a] \o inc[a]}
      BY DEF MergedAttr, Extended
    <3>5. \A s, t \in Seq(STRING) : s \o t \in Seq(STRING)
      OBVIOUS
    <3>6. QED BY <3>1, <3>2, <3>3, <3>4, <3>5
  <2>2. CASE a \notin Lists
    BY <1>1, <2>2 DEF MergedAttr
  <2>3. QED BY <2>1, <2>2
<1>4. ASSUME NEW a \in DOMAIN own PROVE m[a] \in TypeOf(a)
  <2>1. CASE a = "subs"
    <3>1. MergedAttr(own, inc, "subs") \in Seq(STRING)
      BY <1>3, <2>1 DEF TypeOf
    <3>2. Uniquified(MergedAttr(own, inc, "subs"), own.name) \in Seq(STRING)
      BY <3>1, SubsUnique
    <3>3. QED BY <2>1, <3>2 DEF Merged, TypeOf
  <2>2. CASE a # "subs"
    BY <1>3, <2>2 DEF Merged
  <2>3. QED BY <2>1, <2>2
<1>5. "name" \in DOMAIN own
  BY <1>1 DEF LongKeys, ShortKeys
<1>6. m.name = own.name
  BY <1>5 DEF Merged, MergedAttr
<1> HIDE DEF m
<1>7. m \in ModesRead
  BY <1>1, <1>2, <1>4, ModeIs
<1>8. QED BY <1>6, <1>7 DEF m

SubsMerged(merge, first, i, top, seq) ==
  FoldLeft(LAMBDA acc, s : MergeSubMode(merge, acc, i, s, top), first, seq)
ExpandMode(merge, acc, i) == IF acc = Exit THEN Exit ELSE merge[acc][i][acc[i].name]
ModesExpanded(merge, first, seq) == FoldLeft(LAMBDA acc, i : ExpandMode(merge, acc, i), first, seq)

SubsTrace(r, merge, first, i, top, seq) ==
  /\ r[0] = first /\ \A k \in 1..Len(seq) : r[k] = MergeSubMode(merge, r[k - 1], i, seq[k], top)
  /\ SubsMerged(merge, first, i, top, seq) = r[Len(seq)]

LEMMA SubsSteps ==
  ASSUME NEW merge, NEW first, NEW i, NEW top, NEW seq, Len(seq) \in Nat, DOMAIN seq = 1..Len(seq)
  PROVE  \E r : SubsTrace(r, merge, first, i, top, seq)
<1> DEFINE n == Len(seq)
           Op(acc, x) == MergeSubMode(merge, acc, i, x, top)
           Rec(h, d) == h = [s \in SUBSET d |->
                               IF s = {} THEN first ELSE Op(h[s \ {Max(s)}], seq[Max(s)])]
           G == {m \in 0..n : \E g : Rec(g, 1..m)}
           h == CHOOSE h : Rec(h, DOMAIN seq)
           r == [k \in 0..n |-> h[1..k]]
<1>1. SubsMerged(merge, first, i, top, seq) = h[DOMAIN seq]
  BY DEF SubsMerged, FoldLeft, MapThenFoldSet
<1>2. DOMAIN seq = 1..n /\ n \in Nat /\ {0, n} \subseteq 0..n
  OBVIOUS
<1> HIDE DEF n, Op
<1>3. ASSUME NEW m \in 1..n, m - 1 \in G PROVE m \in G
  <2>1. PICK g : Rec(g, 1..m - 1)
    BY <1>3
  <2> DEFINE f == [s \in SUBSET (1..m) |-> IF m \in s THEN Op(g[s \ {m}], seq[m]) ELSE g[s]]
  <2>2. ASSUME NEW s \in SUBSET (1..m)
        PROVE  f[s] = IF s = {} THEN first ELSE Op(f[s \ {Max(s)}], seq[Max(s)])
    <3>1. CASE m \in s
      <4>1. s # {} /\ Max(s) = m /\ f[s \ {m}] = g[s \ {m}] /\ f[s] = Op(g[s \ {m}], seq[m])
        BY <1>2, <3>1, Subsets
      <4> HIDE DEF f
      <4>2. QED BY <4>1
    <3>2. CASE m \notin s
      <4>1. s \in SUBSET (1..m - 1) /\ f[s \ {Max(s)}] = g[s \ {Max(s)}] /\ f[s] = g[s]
        BY <1>2, <3>2, Subsets
      <4> HIDE DEF f
      <4>2. QED BY <2>1, <4>1
    <3>3. QED BY <3>1, <3>2
  <2>3. Rec(f, 1..m)
    BY <2>2
  <2> HIDE DEF Rec, f
  <2>4. QED BY <2>3
<1>4. 0 \in G
  <2>1. Rec([s \in SUBSET (1..0) |-> first], 1..0)
    BY InitialParts
  <2> HIDE DEF Rec
  <2>2. QED BY <1>2, <2>1
<1>5. Rec(h, 1..n)
  <2>1. n \in G
    <3> HIDE DEF G
    <3> QED BY <1>2, <1>3, <1>4, Climb
  <2> HIDE DEF Rec
  <2>2. QED BY <1>2, <2>1
<1> HIDE DEF h
<1>7. r[0] = first /\ r[n] = h[1..n]
  <2>1. h[1..0] = first
    BY <1>5, InitialParts
  <2>2. QED BY <1>2, <2>1
<1>8. ASSUME NEW k \in 1..n PROVE r[k] = Op(r[k - 1], seq[k])
  <2>1. h[1..k] = Op(h[(1..k) \ {Max(1..k)}], seq[Max(1..k)])
    BY <1>2, <1>5, InitialParts
  <2>2. k \in 0..n /\ k - 1 \in 0..n
    BY <1>2
  <2>3. QED BY <1>2, <2>1, <2>2, InitialParts
<1> HIDE DEF r
<1>9. QED BY <1>1, <1>2, <1>7, <1>8 DEF n, Op, SubsTrace

ExpandTrace(r, merge, first, seq) ==
  /\ r[0] = first /\ \A k \in 1..Len(seq) : r[k] = ExpandMode(merge, r[k - 1], seq[k])
  /\ ModesExpanded(merge, first, seq) = r[Len(seq)]

LEMMA ExpandSteps ==
  ASSUME NEW merge, NEW first, NEW seq, Len(seq) \in Nat, DOMAIN seq = 1..Len(seq)
  PROVE  \E r : ExpandTrace(r, merge, first, seq)
<1> DEFINE n == Len(seq)
           Op(acc, x) == ExpandMode(merge, acc, x)
           Rec(h, d) == h = [s \in SUBSET d |->
                               IF s = {} THEN first ELSE Op(h[s \ {Max(s)}], seq[Max(s)])]
           G == {m \in 0..n : \E g : Rec(g, 1..m)}
           h == CHOOSE h : Rec(h, DOMAIN seq)
           r == [k \in 0..n |-> h[1..k]]
<1>1. ModesExpanded(merge, first, seq) = h[DOMAIN seq]
  BY DEF ModesExpanded, FoldLeft, MapThenFoldSet
<1>2. DOMAIN seq = 1..n /\ n \in Nat /\ {0, n} \subseteq 0..n
  OBVIOUS
<1> HIDE DEF n, Op
<1>3. ASSUME NEW m \in 1..n, m - 1 \in G PROVE m \in G
  <2>1. PICK g : Rec(g, 1..m - 1)
    BY <1>3
  <2> DEFINE f == [s \in SUBSET (1..m) |-> IF m \in s THEN Op(g[s \ {m}], seq[m]) ELSE g[s]]
  <2>2. ASSUME NEW s \in SUBSET (1..m)
        PROVE  f[s] = IF s = {} THEN first ELSE Op(f[s \ {Max(s)}], seq[Max(s)])
    <3>1. CASE m \in s
      <4>1. s # {} /\ Max(s) = m /\ f[s \ {m}] = g[s \ {m}] /\ f[s] = Op(g[s \ {m}], seq[m])
        BY <1>2, <3>1, Subsets
      <4> HIDE DEF f
      <4>2. QED BY <4>1
    <3>2. CASE m \notin s
      <4>1. s \in SUBSET (1..m - 1) /\ f[s \ {Max(s)}] = g[s \ {Max(s)}] /\ f[s] = g[s]
        BY <1>2, <3>2, Subsets
      <4> HIDE DEF f
      <4>2. QED BY <2>1, <4>1
    <3>3. QED BY <3>1, <3>2
  <2>3. Rec(f, 1..m)
    BY <2>2
  <2> HIDE DEF Rec, f
  <2>4. QED BY <2>3
<1>4. 0 \in G
  <2>1. Rec([s \in SUBSET (1..0) |-> first], 1..0)
    BY InitialParts
  <2> HIDE DEF Rec
  <2>2. QED BY <1>2, <2>1
<1>5. Rec(h, 1..n)
  <2>1. n \in G
    <3> HIDE DEF G
    <3> QED BY <1>2, <1>3, <1>4, Climb
  <2> HIDE DEF Rec
  <2>2. QED BY <1>2, <2>1
<1> HIDE DEF h
<1>7. r[0] = first /\ r[n] = h[1..n]
  <2>1. h[1..0] = first
    BY <1>5, InitialParts
  <2>2. QED BY <1>2, <2>1
<1>8. ASSUME NEW k \in 1..n PROVE r[k] = Op(r[k - 1], seq[k])
  <2>1. h[1..k] = Op(h[(1..k) \ {Max(1..k)}], seq[Max(1..k)])
    BY <1>2, <1>5, InitialParts
  <2>2. k \in 0..n /\ k - 1 \in 0..n
    BY <1>2
  <2>3. QED BY <1>2, <2>1, <2>2, InitialParts
<1> HIDE DEF r
<1>9. QED BY <1>1, <1>2, <1>7, <1>8 DEF n, Op, ExpandTrace

(* merge_sub_modes() as the calls it makes: `prev` is what the nested ones  *)
(* make.                                                                   *)
CallOf(prev, left, calls) ==
  [ms \in Seq(ModesRead) |-> [i \in Nat |-> [top \in STRING |->
     IF SubModes(ms[i]) = <<>> THEN ms
     ELSE IF left = 0 \/ (left < calls /\ ms[i].name = top) THEN Exit
     ELSE ExpandSubModes(prev, ms, i, top)]]]
CallsOf(calls) == CHOOSE f : f = [left \in 0..calls |-> CallOf(f[left - 1], left, calls)]

LEMMA MergesByCalls ==
  ASSUME NEW calls \in Nat
  PROVE  MergeSubModes(calls) = CallsOf(calls)[calls]
BY DEF MergeSubModes, CallsOf, CallOf

LEMMA CallsExist ==
  ASSUME NEW calls \in Nat
  PROVE  \A left \in 0..calls : CallsOf(calls)[left] = CallOf(CallsOf(calls)[left - 1], left, calls)
<1> DEFINE Op(prev, left) == CallOf(prev, left, calls)
           Rec(f, n) == f = [left \in 0..n |-> Op(f[left - 1], left)]
           G == {n \in 0..calls : \E f : Rec(f, n)}
<1>1. \A p, q : Op(p, 0) = Op(q, 0)
  BY DEF CallOf
<1>2. CallsOf(calls) = CHOOSE f : Rec(f, calls)
  BY DEF CallsOf
<1> HIDE DEF Op
<1>3. 0 \in G
  <2> DEFINE f == [left \in 0..0 |-> Op(0, 0)]
  <2>1. f = [left \in 0..0 |-> Op(f[left - 1], left)]
    <3>1. \A left \in 0..0 : left = 0
      OBVIOUS
    <3>2. QED BY <1>1, <3>1
  <2> HIDE DEF f
  <2>2. QED BY <2>1
<1>4. ASSUME NEW n \in 1..calls, n - 1 \in G PROVE n \in G
  <2>1. PICK g : Rec(g, n - 1)
    BY <1>4
  <2> DEFINE f == [left \in 0..n |-> IF left = n THEN Op(g[n - 1], n) ELSE g[left]]
  <2>2. ASSUME NEW left \in 0..n PROVE f[left] = Op(f[left - 1], left)
    <3>1. CASE left = n
      <4>1. n - 1 \in 0..n /\ n - 1 # n /\ n \in 0..n
        BY <1>4
      <4>2. f[n - 1] = g[n - 1] /\ f[n] = Op(g[n - 1], n)
        BY <4>1
      <4> HIDE DEF f
      <4>3. QED BY <3>1, <4>2
    <3>2. CASE left # n /\ left # 0
      <4>1. left \in 0..n - 1 /\ left - 1 \in 0..n - 1 /\ left - 1 \in 0..n /\ left - 1 # n
        BY <3>2
      <4>2. f[left] = g[left] /\ f[left - 1] = g[left - 1]
        BY <3>2, <4>1
      <4>3. g[left] = Op(g[left - 1], left)
        BY <2>1, <4>1
      <4> HIDE DEF f
      <4>4. QED BY <4>2, <4>3
    <3>3. CASE left # n /\ left = 0
      <4>1. 0 \in 0..n - 1
        BY <3>3
      <4>2. f[left] = g[0]
        BY <3>3
      <4>3. g[0] = Op(g[0 - 1], 0)
        BY <2>1, <4>1
      <4> HIDE DEF f
      <4>4. QED BY <1>1, <3>3, <4>2, <4>3
    <3>4. QED BY <3>1, <3>2, <3>3
  <2>3. f = [left \in 0..n |-> f[left]]
    OBVIOUS
  <2> HIDE DEF f
  <2>4. Rec(f, n)
    BY <2>2, <2>3
  <2> HIDE DEF Rec
  <2>5. n \in 0..calls
    BY <1>4
  <2>6. QED BY <2>4, <2>5
<1>5. calls \in G
  <2> HIDE DEF G
  <2>1. \A k \in 0..calls : k \in G
    BY <1>3, <1>4, Climb
  <2>2. QED BY <2>1
<1>6. Rec(CallsOf(calls), calls)
  <2> HIDE DEF Rec
  <2>1. \E f : Rec(f, calls)
    BY <1>5
  <2>2. QED BY <1>2, <2>1
<1> DEFINE h == CallsOf(calls)
<1> HIDE DEF h
<1>7. \A left \in 0..calls : h[left] = Op(h[left - 1], left)
  BY <1>6 DEF h
<1>8. QED BY <1>7 DEF Op, h

(* It leaves the modes that there are, by the same names.                  *)
ModesLike(ms, new) ==
  /\ new \in Seq(ModesRead) /\ DOMAIN new = DOMAIN ms
  /\ \A k \in DOMAIN ms : new[k].name = ms[k].name
Merges(prev) ==
  \A ms \in Seq(ModesRead) : \A i \in DOMAIN ms : \A top \in STRING :
    prev[ms][i][top] = Exit \/ ModesLike(ms, prev[ms][i][top])

LEMMA ModesAre ==
  ASSUME NEW ms \in Seq(ModesRead)
  PROVE  /\ IsSeq(ms) /\ Len(ms) \in Nat /\ DOMAIN ms = 1..Len(ms)
         /\ \A i \in DOMAIN ms : ms[i] \in ModesRead /\ ms[i].name \in STRING /\ SubModes(ms[i]) \in Seq(STRING)
<1>1. IsSeq(ms) /\ Len(ms) \in Nat /\ DOMAIN ms = 1..Len(ms)
  BY SeqElements
<1>2. ASSUME NEW i \in DOMAIN ms PROVE ms[i] \in ModesRead
  BY <1>1
<1>3. ASSUME NEW m \in ModesRead PROVE m.name \in STRING /\ SubModes(m) \in Seq(STRING)
  <2>1. "name" \in DOMAIN m /\ "subs" \in DOMAIN m
    BY ModeIs DEF LongKeys, ShortKeys
  <2>2. m["name"] \in STRING /\ m["subs"] \in Seq(STRING)
    BY <2>1, ModeIs DEF TypeOf
  <2>3. QED BY <2>1, <2>2 DEF SubModes
<1>4. QED BY <1>1, <1>2, <1>3

LEMMA ModesMergedAt ==
  ASSUME NEW ms \in Seq(ModesRead), NEW i \in DOMAIN ms, NEW inc \in ModesRead, MergeAt(ms, i, inc) # Exit
  PROVE  ModesLike(ms, MergeAt(ms, i, inc))
<1> DEFINE m == Merged(ms[i], inc)
           new == MergeAt(ms, i, inc)
<1>1. new = [ms EXCEPT ![i] = m]
  BY DEF MergeAt, MergeMode, Then
<1>2. m \in ModesRead /\ m.name = ms[i].name
  BY ModesAre, MergedMode
<1> HIDE DEF m, new
<1>3. new \in Seq(ModesRead) /\ DOMAIN new = DOMAIN ms
  BY <1>1, <1>2
<1>4. \A k \in DOMAIN ms : new[k].name = ms[k].name
  BY <1>1, <1>2
<1>5. QED BY <1>3, <1>4 DEF ModesLike, new

LEMMA SubModeMerged ==
  ASSUME NEW prev, Merges(prev), NEW ms \in Seq(ModesRead), NEW i \in DOMAIN ms, NEW sub, NEW top \in STRING,
         MergeSubMode(prev, ms, i, sub, top) # Exit
  PROVE  Has(sub, ms) /\ ModesLike(ms, MergeSubMode(prev, ms, i, sub, top))
<1> DEFINE f == Find(sub, ms)
           expanded == prev[ms][f][top]
           inc == expanded[f]
<1>1. /\ Has(sub, ms) /\ expanded # Exit /\ MergeSubMode(prev, ms, i, sub, top) = MergeAt(expanded, i, inc)
  BY DEF MergeSubMode, Then
<1>2. f \in DOMAIN ms
  BY <1>1, FindIs, ModesAre
<1> HIDE DEF f
<1>3. ModesLike(ms, expanded)
  BY <1>1, <1>2 DEF Merges
<1> HIDE DEF expanded
<1>4. /\ expanded \in Seq(ModesRead) /\ DOMAIN expanded = DOMAIN ms /\ inc \in ModesRead
  BY <1>2, <1>3, ModesAre DEF ModesLike
<1> HIDE DEF inc
<1>5. ModesLike(expanded, MergeAt(expanded, i, inc))
  BY <1>1, <1>4, ModesMergedAt
<1>6. QED BY <1>1, <1>3, <1>5 DEF ModesLike

LEMMA SubModesExpanded ==
  ASSUME NEW prev, Merges(prev), NEW ms \in Seq(ModesRead), NEW i \in DOMAIN ms, NEW top \in STRING,
         SubModes(ms[i]) # <<>>, ExpandSubModes(prev, ms, i, top) # Exit
  PROVE  ModesLike(ms, ExpandSubModes(prev, ms, i, top))
<1> DEFINE subs == SubModes(ms[i])
           first == MergeSubMode(prev, ms, i, subs[1], top)
           more == Extended(subs, SubModes(first[Find(subs[1], first)]))
           looped == Tail(more)
           n == Len(looped)
<1>1. /\ first # Exit /\ ExpandSubModes(prev, ms, i, top) = SubsMerged(prev, first, i, top, looped)
  BY DEF ExpandSubModes, SubsMerged
<1>2. subs \in Seq(STRING) /\ subs # <<>>
  BY ModesAre
<1>3. ModesLike(ms, first) /\ Has(subs[1], ms)
  BY <1>1, SubModeMerged
<1>4. first \in Seq(ModesRead) /\ DOMAIN first = DOMAIN ms /\ \A k \in DOMAIN ms : first[k].name = ms[k].name
  BY <1>3 DEF ModesLike
<1> HIDE DEF subs, first
<1>5. more \in Seq(STRING) /\ more # <<>>
  <2> DEFINE f == Find(subs[1], first)
             other == SubModes(first[f])
  <2>1. f = Find(subs[1], ms) /\ f \in DOMAIN first
    BY <1>3, <1>4, FindSame, FindIs, ModesAre
  <2> HIDE DEF f
  <2>2. other \in Seq(STRING)
    BY <1>4, <2>1, ModesAre
  <2> HIDE DEF other
  <2>3. more \in {subs, subs \o other}
    BY DEF Extended, other, f
  <2> HIDE DEF more
  <2>4. subs \o other \in Seq(STRING) /\ Len(subs \o other) = Len(subs) + Len(other)
    BY <1>2, <2>2
  <2>5. Len(subs) # 0 /\ Len(subs) \in Nat /\ Len(other) \in Nat
    BY <1>2, <2>2
  <2>6. subs \o other # <<>>
    BY <2>4, <2>5
  <2>7. QED BY <1>2, <2>3, <2>4, <2>6
<1> HIDE DEF more
<1>6. looped \in Seq(STRING)
  BY <1>5
<1> HIDE DEF looped
<1>7. n \in Nat /\ DOMAIN looped = 1..n
  BY <1>6
<1>8. PICK r : SubsTrace(r, prev, first, i, top, looped)
  BY <1>7, SubsSteps
<1>9. /\ r[0] = first /\ \A k \in 1..n : r[k] = MergeSubMode(prev, r[k - 1], i, looped[k], top)
      /\ SubsMerged(prev, first, i, top, looped) = r[n]
  BY <1>8 DEF SubsTrace
<1> HIDE DEF n
<1> DEFINE G == {k \in 0..n : r[k] = Exit \/ ModesLike(ms, r[k])}
<1>10. 0 \in G
  BY <1>3, <1>7, <1>9
<1>11. ASSUME NEW k \in 1..n, k - 1 \in G PROVE k \in G
  <2> DEFINE acc == r[k - 1]
             s == looped[k]
  <2>0. k \in 0..n
    BY <1>7
  <2>1. r[k] = MergeSubMode(prev, acc, i, s, top)
    BY <1>9
  <2>2. acc = Exit \/ ModesLike(ms, acc)
    BY <1>11
  <2> HIDE DEF acc, s
  <2>3. CASE acc = Exit
    BY <2>0, <2>1, <2>3 DEF MergeSubMode
  <2>4. CASE acc # Exit /\ r[k] # Exit
    <3>1. acc \in Seq(ModesRead) /\ DOMAIN acc = DOMAIN ms
      BY <2>2, <2>4 DEF ModesLike
    <3>2. ModesLike(acc, r[k])
      BY <2>1, <2>4, <3>1, SubModeMerged
    <3>3. ModesLike(ms, r[k])
      BY <2>2, <2>4, <3>2 DEF ModesLike
    <3>4. QED BY <2>0, <3>3
  <2>5. QED BY <2>0, <2>3, <2>4
<1>12. n \in G
  <2> HIDE DEF G
  <2>1. \A k \in 0..n : k \in G
    BY <1>7, <1>10, <1>11, Climb
  <2>2. QED BY <1>7, <2>1
<1>13. QED BY <1>1, <1>9, <1>12

LEMMA CallsMerge ==
  ASSUME NEW calls \in Nat
  PROVE  Merges(MergeSubModes(calls))
<1> DEFINE h == CallsOf(calls)
           G == {left \in 0..calls : Merges(h[left])}
<1>1. \A left \in 0..calls : h[left] = CallOf(h[left - 1], left, calls)
  BY CallsExist
<1> HIDE DEF h
<1>2. ASSUME NEW left \in 0..calls, left = 0 \/ Merges(h[left - 1]) PROVE Merges(h[left])
  <2>1. SUFFICES ASSUME NEW ms \in Seq(ModesRead), NEW i, NEW top \in STRING, i \in DOMAIN ms, h[left][ms][i][top] # Exit
                 PROVE  ModesLike(ms, h[left][ms][i][top])
    BY DEF Merges
  <2> DEFINE prev == h[left - 1]
  <2>2. i \in Nat
    BY <2>1, ModesAre
  <2>3. h[left] = CallOf(prev, left, calls)
    BY <1>1
  <2> HIDE DEF prev
  <2>4. h[left][ms][i][top] = IF SubModes(ms[i]) = <<>> THEN ms
                              ELSE IF left = 0 \/ (left < calls /\ ms[i].name = top) THEN Exit
                              ELSE ExpandSubModes(prev, ms, i, top)
    BY <2>1, <2>2, <2>3 DEF CallOf
  <2>5. CASE SubModes(ms[i]) = <<>>
    BY <2>1, <2>4, <2>5 DEF ModesLike
  <2>6. CASE SubModes(ms[i]) # <<>>
    <3>1. left # 0 /\ h[left][ms][i][top] = ExpandSubModes(prev, ms, i, top)
      BY <2>1, <2>4, <2>6
    <3>2. Merges(prev)
      BY <1>2, <3>1 DEF prev
    <3>3. QED BY <2>1, <2>6, <3>1, <3>2, SubModesExpanded
  <2>7. QED BY <2>5, <2>6
<1>3. 0 \in G
  BY <1>2
<1>4. ASSUME NEW k \in 1..calls, k - 1 \in G PROVE k \in G
  <2>1. k \in 0..calls
    OBVIOUS
  <2>2. QED BY <1>2, <1>4, <2>1
<1>5. calls \in G
  <2> HIDE DEF G
  <2>1. \A k \in 0..calls : k \in G
    BY <1>3, <1>4, Climb
  <2>2. QED BY <2>1
<1>6. QED BY <1>5, MergesByCalls DEF h

LEMMA ModesAppended ==
  ASSUME NEW ms \in Seq(ModesRead), NEW d \in ModesRead
  PROVE  Append(ms, d) \in Seq(ModesRead)
OBVIOUS

LEMMA ModesReadRecords ==
  ASSUME NEW ms \in Seq(ModesRead)
  PROVE  ReadRecords(ms, {"name"})
<1>1. IsSeq(ms) /\ ToSet(ms) \subseteq ModesRead
  BY SeqElements
<1>2. ASSUME NEW m \in ModesRead PROVE ReadRecord(m, {"name"})
  <2>1. "name" \in DOMAIN m /\ "subs" \in DOMAIN m
    BY ModeIs DEF LongKeys, ShortKeys
  <2>2. m["subs"] \in Seq(STRING)
    BY <2>1, ModeIs DEF TypeOf
  <2>3. IsSeq(m["subs"])
    BY <2>2, SeqElements
  <2>4. QED BY <2>1, <2>3 DEF ReadRecord
<1>3. QED BY <1>1, <1>2 DEF ReadRecords

LEMMA ModesDeclared ==
  ASSUME NEW first \in Seq(ModesRead), OncePerName(first), NEW dicts \in Seq(ModesRead),
         Declared(first, dicts) # Exit
  PROVE  Declared(first, dicts) \in Seq(ModesRead) /\ OncePerName(Declared(first, dicts))
<1> DEFINE n == Len(dicts)
<1>1. n \in Nat /\ DOMAIN dicts = 1..n /\ \A k \in 1..n : dicts[k] \in ModesRead
  OBVIOUS
<1>2. PICK r : DeclaredTrace(r, first, dicts)
  BY <1>1, DeclaredSteps
<1>3. /\ r[0] = first /\ \A k \in 1..n : r[k] = Declare(r[k - 1], dicts[k])
      /\ Declared(first, dicts) = r[n]
  BY <1>2 DEF DeclaredTrace
<1> HIDE DEF n
<1> DEFINE G == {k \in 0..n : r[k] = Exit \/ r[k] \in Seq(ModesRead)}
<1>4. 0 \in G
  BY <1>1, <1>3
<1>5. ASSUME NEW k \in 1..n, k - 1 \in G PROVE k \in G
  <2> DEFINE acc == r[k - 1]
             d == dicts[k]
             f == Find(d.name, acc)
  <2>1. k \in 0..n /\ r[k] = Declare(acc, d) /\ d \in ModesRead /\ (acc = Exit \/ acc \in Seq(ModesRead))
    BY <1>1, <1>3, <1>5
  <2> HIDE DEF acc, d
  <2>2. CASE acc = Exit
    BY <2>1, <2>2 DEF Declare
  <2>3. CASE acc # Exit /\ Has(d.name, acc) /\ r[k] # Exit
    <3>1. r[k] = MergeAt(acc, f, d)
      BY <2>1, <2>3 DEF Declare, AddOrMerge
    <3>2. f \in DOMAIN acc
      BY <2>1, <2>3, FindIs, ModesAre
    <3> HIDE DEF f
    <3>3. r[k] \in Seq(ModesRead)
      BY <2>1, <2>3, <3>1, <3>2, ModesMergedAt DEF ModesLike
    <3>4. QED BY <2>1, <3>3
  <2>4. CASE acc # Exit /\ ~Has(d.name, acc)
    <3>1. r[k] = Append(acc, d)
      BY <2>1, <2>4 DEF Declare, AddOrMerge
    <3>2. r[k] \in Seq(ModesRead)
      BY <2>1, <2>4, <3>1, ModesAppended
    <3>3. QED BY <2>1, <3>2
  <2>5. QED BY <2>1, <2>2, <2>3, <2>4
<1>6. n \in G
  <2> HIDE DEF G
  <2>1. \A k \in 0..n : k \in G
    BY <1>1, <1>4, <1>5, Climb
  <2>2. QED BY <1>1, <2>1
<1>7. Declared(first, dicts) \in Seq(ModesRead)
  BY <1>3, <1>6
<1>8. OncePerName(Declared(first, dicts))
  <2>1. ReadRecords(first, {"name"}) /\ ReadRecords(dicts, {"name"}) /\ "name" \in {"name"}
    BY ModesReadRecords
  <2>2. QED BY <2>1, DeclaredIs
<1>9. QED BY <1>7, <1>8

(* create_modes(): modes of different names.                               *)
LEMMA ModesCreated ==
  ASSUME NEW first \in Seq(ModesRead), OncePerName(first), NEW dicts \in Seq(ModesRead),
         CreateModes(first, dicts) # Exit
  PROVE  CreateModes(first, dicts) \in Seq(ModesRead) /\ OncePerName(CreateModes(first, dicts))
<1> DEFINE declared == Declared(first, dicts)
           merge == MergeSubModes(Len(declared))
           seq == [i \in 1..Len(declared) |-> i]
           n == Len(seq)
<1>1. declared # Exit /\ CreateModes(first, dicts) = ModesExpanded(merge, declared, seq)
  BY DEF CreateModes, ModesExpanded, ExpandMode
<1>2. declared \in Seq(ModesRead) /\ OncePerName(declared)
  BY <1>1, ModesDeclared
<1> HIDE DEF declared
<1>3. Len(declared) \in Nat /\ DOMAIN declared = 1..Len(declared)
  BY <1>2, ModesAre
<1>4. Merges(merge)
  BY <1>3, CallsMerge
<1> HIDE DEF merge
<1>5. n = Len(declared) /\ DOMAIN seq = 1..n /\ \A k \in 1..n : seq[k] = k
  <2> DEFINE S == 1..Len(declared)
  <2>1. seq \in [1..Len(declared) -> S]
    OBVIOUS
  <2> HIDE DEF S
  <2>2. seq \in Seq(S) /\ Len(seq) = Len(declared)
    BY <1>3, <2>1
  <2>3. QED BY <1>3, <2>2
<1> HIDE DEF seq, n
<1>6. n \in Nat
  BY <1>3, <1>5
<1>7. PICK r : ExpandTrace(r, merge, declared, seq)
  BY <1>5, <1>6, ExpandSteps DEF n
<1>8. r[0] = declared /\ (\A k \in 1..n : r[k] = ExpandMode(merge, r[k - 1], k))
  BY <1>5, <1>7 DEF ExpandTrace, n
<1>9. ModesExpanded(merge, declared, seq) = r[n]
  BY <1>7 DEF ExpandTrace, n
<1> DEFINE G == {k \in 0..n : r[k] = Exit \/ ModesLike(declared, r[k])}
<1>10. 0 \in G
  BY <1>2, <1>6, <1>8 DEF ModesLike
<1>11. ASSUME NEW k \in 1..n, k - 1 \in G PROVE k \in G
  <2> DEFINE acc == r[k - 1]
  <2>0. k \in 0..n
    BY <1>6
  <2>1. r[k] = ExpandMode(merge, acc, k)
    BY <1>8
  <2>2. acc = Exit \/ ModesLike(declared, acc)
    BY <1>11
  <2> HIDE DEF acc
  <2>3. CASE acc = Exit
    BY <2>0, <2>1, <2>3 DEF ExpandMode
  <2>4. CASE acc # Exit /\ r[k] # Exit
    <3>1. acc \in Seq(ModesRead) /\ DOMAIN acc = DOMAIN declared
      BY <2>2, <2>4 DEF ModesLike
    <3>2. k \in DOMAIN acc /\ r[k] = merge[acc][k][acc[k].name]
      BY <1>3, <1>5, <2>1, <2>4, <3>1 DEF ExpandMode
    <3>3. acc[k].name \in STRING
      BY <3>1, <3>2, ModesAre
    <3>4. ModesLike(acc, r[k])
      BY <1>4, <2>4, <3>1, <3>2, <3>3 DEF Merges
    <3>5. ModesLike(declared, r[k])
      BY <2>2, <2>4, <3>4 DEF ModesLike
    <3>6. QED BY <2>0, <3>5
  <2>5. QED BY <2>0, <2>3, <2>4
<1>12. n \in G
  <2> HIDE DEF G
  <2>1. \A k \in 0..n : k \in G
    BY <1>6, <1>10, <1>11, Climb
  <2>2. QED BY <1>6, <2>1
<1>13. ModesLike(declared, r[n])
  BY <1>1, <1>9, <1>12
<1>14. r[n] \in Seq(ModesRead) /\ OncePerName(r[n])
  BY <1>2, <1>13 DEF ModesLike, OncePerName
<1>15. QED BY <1>1, <1>9, <1>14

LEMMA BuildModesCreated ==
  ASSUME NEW dicts \in Seq(ModesRead), CreateModes(<<DefaultBuildMode>>, dicts) # Exit
  PROVE  CreateModes(<<DefaultBuildMode>>, dicts) \in Seq(ModesRead) /\ OncePerName(CreateModes(<<DefaultBuildMode>>, dicts))
<1>1. DefaultBuildMode \in ModesRead
  <2> DEFINE m == DefaultBuildMode
  <2>1. DOMAIN m = LongKeys /\ m = [a \in DOMAIN m |-> m[a]]
    BY DEF DefaultBuildMode, LongKeys
  <2>2. /\ m.name = "default" /\ m.mode = "" /\ m.sim = 0 /\ m.reseed = None /\ m.timeout = None
        /\ m.build = <<>> /\ m.run = <<>> /\ m.subs = <<>>
    BY DEF DefaultBuildMode
  <2> HIDE DEF m
  <2>3. <<>> \in Seq(STRING) /\ 0 \in Int /\ None \in Optional
    BY DEF Optional
  <2>4. \A a \in LongKeys : m[a] \in TypeOf(a)
    BY <2>2, <2>3, StringsAssumption DEF LongKeys, TypeOf
  <2>5. QED BY <2>1, <2>4, ModeIs DEF m
<1> DEFINE first == <<DefaultBuildMode>>
<1>2. first \in Seq(ModesRead)
  <2> DEFINE d == DefaultBuildMode
  <2> HIDE DEF d
  <2>1. QED BY <1>1 DEF d
<1>3. OncePerName(first)
  BY DEF OncePerName
<1>4. QED BY <1>2, <1>3, ModesCreated

-----------------------------------------------------------------------------
(* What the flow relies on in the attributes that files, overrides and the  *)
(* command line give: `Keys` are read as lists of a kind.                   *)
Keys == DOMAIN DictsRead \cup Patterns \cup {"overrides"}
OverrideRead(key, v) == key = "overrides" /\ IsList(v) => \A o \in ToSet(v.list) : ReadAs(o.name, o.value)
AttrRead(key, v) == ReadAs(key, v) /\ OverrideRead(key, v)
AttrsRead(v) == \A k \in DOMAIN v \cap Keys : AttrRead(k, v[k])

LEMMA TargetSet ==
  ASSUME NEW key, NEW old, NEW new, AttrRead(key, old), AttrRead(key, new), ~Conflict(old, new)
  PROVE  AttrRead(key, SetTarget(old, new)) /\ IsList(SetTarget(old, new)) = IsList(old)
<1>1. IsList(old) = IsList(new)
  BY DEF Conflict
<1>2. CASE ~IsList(old)
  BY <1>1, <1>2 DEF SetTarget
<1>3. CASE IsList(old)
  <2> DEFINE all == old.list \o new.list
             v == List(all)
  <2>1. SetTarget(old, new) = v
    BY <1>3 DEF SetTarget
  <2>2. IsList(v) /\ v.list = all
    BY DEF List, IsList
  <2>3. IsSeq(old.list) /\ IsSeq(new.list)
    <3>1. ASSUME NEW u, AttrRead(key, u), IsList(u) PROVE IsSeq(u.list)
      <4>1. u.list \in Seq(IF key \in DOMAIN DictsRead THEN DictsRead[key] ELSE ToSet(u.list))
        BY <3>1 DEF AttrRead, ReadAs
      <4>2. QED BY <4>1, SeqElements
    <3>2. QED BY <1>1, <1>3, <3>1
  <2>4. IsSeq(all) /\ ToSet(all) = ToSet(old.list) \cup ToSet(new.list)
    BY <2>3, SeqJoined
  <2>5. all \in Seq(IF key \in DOMAIN DictsRead THEN DictsRead[key] ELSE ToSet(all))
    <3>1. CASE key \notin DOMAIN DictsRead
      BY <2>4, <3>1 DEF IsSeq
    <3>2. CASE key \in DOMAIN DictsRead
      <4> DEFINE D == DictsRead[key]
      <4>1. old.list \in Seq(D) /\ new.list \in Seq(D)
        BY <1>1, <1>3, <3>2 DEF AttrRead, ReadAs
      <4> HIDE DEF D, v
      <4>2. all \in Seq(D)
        BY <4>1
      <4>3. QED BY <3>2, <4>2 DEF D
    <3>3. QED BY <3>1, <3>2
  <2>6. ReadAs(key, v)
    <3> HIDE DEF v, all
    <3>1. QED BY <2>2, <2>5 DEF ReadAs
  <2>7. OverrideRead(key, v)
    <3> HIDE DEF v, all
    <3>1. key = "overrides" => \A o \in ToSet(old.list) \cup ToSet(new.list) : ReadAs(o.name, o.value)
      BY <1>1, <1>3 DEF AttrRead, OverrideRead
    <3>2. QED BY <2>2, <2>4, <3>1 DEF OverrideRead
  <2>8. QED BY <1>3, <2>1, <2>2, <2>6, <2>7 DEF AttrRead
<1>4. QED BY <1>2, <1>3

LEMMA AttrsMerged ==
  ASSUME NEW target, AttrsRead(target), NEW attrs, AttrsRead(attrs), MergeAttrs(target, attrs) # Exit
  PROVE  LET merged == MergeAttrs(target, attrs)
         IN /\ AttrsRead(merged) /\ DOMAIN merged = DOMAIN target \cup DOMAIN attrs
            /\ \A k \in DOMAIN target \cap Keys :
                 target[k] # None /\ IsList(target[k]) => IsList(merged[k])
<1> DEFINE both == {k \in DOMAIN target \cap DOMAIN attrs : target[k] # None}
           merged == MergeAttrs(target, attrs)
<1>1. /\ merged = [k \in DOMAIN target \cup DOMAIN attrs |->
                     IF k \in both THEN SetTarget(target[k], attrs[k])
                     ELSE IF k \in DOMAIN attrs THEN attrs[k] ELSE target[k]]
      /\ \A k \in both : ~Conflict(target[k], attrs[k])
  BY DEF MergeAttrs
<1> HIDE DEF merged
<1>2. ASSUME NEW k \in Keys, k \in DOMAIN merged
      PROVE  /\ AttrRead(k, merged[k])
             /\ k \in DOMAIN target /\ target[k] # None /\ IsList(target[k]) => IsList(merged[k])
  <2>1. k \in DOMAIN target => AttrRead(k, target[k])
    BY <1>2 DEF AttrsRead
  <2>2. k \in DOMAIN attrs => AttrRead(k, attrs[k])
    BY <1>2 DEF AttrsRead
  <2>3. CASE k \in both
    BY <1>1, <1>2, <2>1, <2>2, <2>3, TargetSet
  <2>4. CASE k \notin both
    BY <1>1, <1>2, <2>1, <2>2, <2>4
  <2>5. QED BY <2>3, <2>4
<1>3. DOMAIN merged = DOMAIN target \cup DOMAIN attrs
  BY <1>1
<1>4. QED BY <1>2, <1>3 DEF AttrsRead, merged

FilesRead(files) == IsFiniteSet(DOMAIN files) /\ \A p \in DOMAIN files : ReadableFile(files[p])

LEMMA FileLoads ==
  ASSUME NEW files, FilesRead(files), NEW fixed, NEW at, AttrsRead(at.target)
  PROVE  \/ LoadFile(files, fixed, at) = Exit
         \/ /\ AttrsRead(LoadFile(files, fixed, at).target)
            /\ at.work # <<>> => Last(at.work) \in DOMAIN files
<1> DEFINE path == Last(at.work)
           attrs == [k \in DOMAIN files[path].attrs \ fixed |-> files[path].attrs[k]]
           new == LoadFile(files, fixed, at)
<1>1. CASE at.work = <<>>
  BY <1>1 DEF LoadFile
<1>2. CASE at.work # <<>> /\ new # Exit
  <2>1. path \in DOMAIN files
    BY <1>2 DEF LoadFile
  <2>2. MergeAttrs(at.target, attrs) # Exit /\ new.target = MergeAttrs(at.target, attrs)
    BY <1>2, <2>1 DEF LoadFile, Then
  <2>3. AttrsRead(attrs)
    BY <2>1 DEF FilesRead, ReadableFile, AttrsRead, AttrRead, OverrideRead
  <2> HIDE DEF new, attrs
  <2>4. QED BY <2>1, <2>2, <2>3, AttrsMerged DEF new
<1>3. QED BY <1>1, <1>2

LEMMA NamesFinite ==
  ASSUME NEW files, FilesRead(files)
  PROVE  NamesImported(files) \in Nat
<1> DEFINE Of(p) == {p} \X DOMAIN files[p].imports
           S == {Of(p) : p \in DOMAIN files}
           f == [p \in DOMAIN files |-> Of(p)]
<1>1. f \in Surjection(DOMAIN files, S)
  BY DEF Surjection
<1>2. IsFiniteSet(S)
  <2> HIDE DEF S, f
  <2>1. QED BY <1>1, FS_Surjection DEF FilesRead
<1>3. ASSUME NEW p \in DOMAIN files PROVE IsFiniteSet(Of(p))
  <2>1. files[p].imports \in Seq(STRING)
    BY DEF FilesRead, ReadableFile
  <2>2. DOMAIN files[p].imports = 1..Len(files[p].imports) /\ Len(files[p].imports) \in Nat
    BY <2>1
  <2>3. IsFiniteSet(DOMAIN files[p].imports)
    BY <2>2, FS_Interval
  <2>4. IsFiniteSet({p})
    BY FS_Singleton
  <2>5. QED BY <2>3, <2>4, FS_Product
<1>4. \A T \in S : IsFiniteSet(T)
  BY <1>3
<1> HIDE DEF S
<1>5. IsFiniteSet(UNION S)
  BY <1>2, <1>4, FS_UNION
<1>6. QED BY <1>5, FS_CardinalityType DEF NamesImported, S

LEMMA LoadedRead ==
  ASSUME NEW files, FilesRead(files), NEW path, NEW initial, AttrsRead(initial), NEW fixed,
         Load(files, path, initial, fixed) # Exit
  PROVE  AttrsRead(Load(files, path, initial, fixed)) /\ path \in DOMAIN files
<1> DEFINE n == NamesImported(files) + 1
           seq == [step \in 1..n |-> step]
           at0 == [work |-> <<path>>, seen |-> {path}, target |-> initial]
           end == FilesLoaded(files, fixed, at0, seq)
<1>1. Load(files, path, initial, fixed) = Then(end, LAMBDA at : at.target)
  BY DEF Load, FilesLoaded
<1>2. end # Exit /\ Load(files, path, initial, fixed) = end.target
  BY <1>1 DEF Then
<1>3. n \in Nat /\ n # 0
  BY NamesFinite
<1> HIDE DEF n
<1>4. Len(seq) = n /\ DOMAIN seq = 1..n
  <2>1. seq = [k \in 1..n |-> seq[k]]
    OBVIOUS
  <2> HIDE DEF seq
  <2>2. QED BY <1>3, <2>1, SeqMade
<1> HIDE DEF end, seq, at0
<1>5. PICK r : LoadTrace(r, files, fixed, at0, seq)
  BY <1>3, <1>4, LoadSteps
<1>6. /\ r[0] = at0 /\ \A k \in 1..n : r[k] = Loading(files, fixed, r[k - 1])
      /\ end = r[n]
  BY <1>5, <1>4 DEF LoadTrace, end
<1> DEFINE G == {k \in 0..n : r[k] = Exit \/ (AttrsRead(r[k].target) /\ (k # 0 => path \in DOMAIN files))}
<1>7. 0 \in G
  <2>1. 0 \in 0..n /\ AttrsRead(at0.target)
    BY <1>3 DEF at0
  <2>2. QED BY <1>6, <2>1
<1>8. ASSUME NEW k \in 1..n, k - 1 \in G PROVE k \in G
  <2>1. k \in 0..n /\ k # 0 /\ r[k] = Loading(files, fixed, r[k - 1])
    BY <1>3, <1>6
  <2>2. CASE r[k - 1] = Exit
    BY <2>1, <2>2 DEF Loading
  <2>3. CASE r[k - 1] # Exit
    <3>1. r[k] = LoadFile(files, fixed, r[k - 1]) /\ AttrsRead(r[k - 1].target)
      BY <1>8, <2>1, <2>3 DEF Loading
    <3>2. \/ r[k] = Exit
          \/ AttrsRead(r[k].target) /\ (r[k - 1].work # <<>> => Last(r[k - 1].work) \in DOMAIN files)
      BY <3>1, FileLoads
    <3>3. CASE k - 1 = 0
      <4>1. r[k - 1].work = <<path>> /\ <<path>> # <<>> /\ Last(<<path>>) = path
        BY <1>6, <3>3 DEF at0, Last
      <4>2. QED BY <2>1, <3>2, <4>1
    <3>4. CASE k - 1 # 0
      BY <1>8, <2>1, <2>3, <3>2, <3>4
    <3>5. QED BY <3>3, <3>4
  <2>4. QED BY <2>2, <2>3
<1>9. n \in G
  <2> HIDE DEF G
  <2>1. \A k \in 0..n : k \in G
    BY <1>3, <1>7, <1>8, Climb
  <2>2. QED BY <1>3, <2>1
<1>10. QED BY <1>2, <1>3, <1>6, <1>9

(* The attributes of an object: its lists of dicts and of patterns.         *)
ConfigRead(v) ==
  /\ DOMAIN DictsRead \subseteq DOMAIN v
  /\ \A k \in DOMAIN DictsRead : v[k].list \in Seq(DictsRead[k])
  /\ \A k \in DOMAIN v \cap Patterns : IsSeq(v[k].list)
DefaultLists(defaults) ==
  \A k \in DOMAIN DictsRead \cup {"overrides"} : k \in DOMAIN defaults /\ defaults[k] # None /\ IsList(defaults[k])

LEMMA ConstructedRead ==
  ASSUME NEW defaults, AttrsRead(defaults), DefaultLists(defaults), NEW data, AttrsRead(data),
         Constructed(defaults, data) # Exit
  PROVE  ConfigRead(Constructed(defaults, data))
<1> DEFINE merged == MergeAttrs(defaults, data)
           o == merged.overrides.list
           v == Constructed(defaults, data)
<1>1. merged # Exit /\ v = Overridden(merged, o) /\ v # Exit
  BY DEF Constructed, Then
<1>2. /\ AttrsRead(merged) /\ DOMAIN merged = DOMAIN defaults \cup DOMAIN data
      /\ \A k \in DOMAIN defaults \cap Keys : defaults[k] # None /\ IsList(defaults[k]) => IsList(merged[k])
  BY <1>1, AttrsMerged
<1> HIDE DEF merged, v
<1>3. \A k \in DOMAIN DictsRead \cup {"overrides"} : k \in DOMAIN merged /\ IsList(merged[k])
  BY <1>2 DEF DefaultLists, Keys
<1>4. \A x \in ToSet(o) : ReadAs(x.name, x.value)
  BY <1>2, <1>3 DEF AttrsRead, AttrRead, OverrideRead, Keys
<1> HIDE DEF o
<1>5. /\ \A i \in DOMAIN o : IsList(merged[o[i].name]) = IsList(o[i].value)
      /\ v = [k \in DOMAIN merged |->
                IF \E i \in DOMAIN o : o[i].name = k
                THEN o[CHOOSE i \in DOMAIN o : o[i].name = k].value ELSE merged[k]]
  BY <1>1 DEF Overridden
<1>6. ASSUME NEW k \in DOMAIN merged \cap Keys
      PROVE  ReadAs(k, v[k]) /\ IsList(v[k]) = IsList(merged[k])
  <2>1. CASE \E i \in DOMAIN o : o[i].name = k
    <3> DEFINE i == CHOOSE i \in DOMAIN o : o[i].name = k
    <3>1. i \in DOMAIN o /\ o[i].name = k
      BY <2>1
    <3>2. v[k] = o[i].value
      BY <1>5, <2>1
    <3> HIDE DEF i
    <3>3. o[i] \in ToSet(o)
      BY <3>1 DEF ToSet
    <3>4. ReadAs(k, o[i].value)
      BY <1>4, <3>1, <3>3
    <3>5. IsList(merged[k]) = IsList(o[i].value)
      BY <1>5, <3>1
    <3>6. QED BY <3>2, <3>4, <3>5
  <2>2. CASE ~ \E i \in DOMAIN o : o[i].name = k
    BY <1>2, <1>5, <2>2 DEF AttrsRead, AttrRead
  <2>3. QED BY <2>1, <2>2
<1>7. DOMAIN v = DOMAIN merged
  BY <1>5
<1>8. ASSUME NEW k \in DOMAIN DictsRead PROVE k \in DOMAIN v /\ v[k].list \in Seq(DictsRead[k])
  <2>1. k \in DOMAIN merged \cap Keys /\ IsList(merged[k])
    BY <1>3 DEF Keys
  <2>2. ReadAs(k, v[k]) /\ IsList(v[k])
    BY <1>6, <2>1
  <2>3. QED BY <1>7, <2>1, <2>2 DEF ReadAs
<1>9. ASSUME NEW k \in DOMAIN v \cap Patterns PROVE IsSeq(v[k].list)
  <2>1. k \in DOMAIN merged \cap Keys
    BY <1>7 DEF Keys
  <2>2. ReadAs(k, v[k])
    BY <1>6, <2>1
  <2>3. v[k].list \in Seq(IF k \in DOMAIN DictsRead THEN DictsRead[k] ELSE ToSet(v[k].list))
    BY <2>2 DEF ReadAs
  <2>4. QED BY <2>3, SeqElements
<1>10. QED BY <1>8, <1>9 DEF ConfigRead, v

LEMMA CfgsRead ==
  ASSUME NEW files, FilesRead(files), NEW path, NEW initial, DOMAIN initial \cap Keys = {},
         NEW defaults, AttrsRead(defaults), DefaultLists(defaults),
         MakeCfgs(files, path, initial, defaults) # Exit
  PROVE  LET made == MakeCfgs(files, path, initial, defaults)
         IN IsSeq(made) /\ \A v \in ToSet(made) : ConfigRead(v)
<1> DEFINE made == MakeCfgs(files, path, initial, defaults)
           top == LoadCfg(files, path, initial)
           cfg == Constructed(defaults, top)
           uses == files[path].uses
           child(p) == LoadCfg(files, p, Put(initial, "flow", top.flow))
<1>1. AttrsRead(initial)
  BY DEF AttrsRead
<1>2. ASSUME NEW p, NEW start, AttrsRead(start), LoadCfg(files, p, start) # Exit
      PROVE  AttrsRead(LoadCfg(files, p, start)) /\ p \in DOMAIN files
  <2> DEFINE data == Load(files, p, start, DOMAIN start \cap {"tool"})
  <2>1. data # Exit /\ LoadCfg(files, p, start) = data
    BY <1>2 DEF LoadCfg, Then
  <2>2. QED BY <1>2, <2>1, LoadedRead
<1>3. /\ top # Exit /\ cfg # Exit
      /\ \/ uses = None /\ made = <<cfg>>
         \/ /\ uses # None /\ \A i \in DOMAIN uses : made[i] # Exit
            /\ made = [i \in DOMAIN uses |->
                         IF uses[i] \notin DOMAIN files THEN Exit
                         ELSE IF files[uses[i]].uses # None THEN Exit
                         ELSE Then(child(uses[i]), LAMBDA data : Constructed(defaults, data))]
  BY DEF MakeCfgs, Then, AllOf
<1>4. AttrsRead(top) /\ path \in DOMAIN files
  BY <1>1, <1>2, <1>3
<1>5. CASE uses = None
  <2>1. made = <<cfg>>
    BY <1>3, <1>5
  <2> HIDE DEF made
  <2>2. ConfigRead(cfg)
    BY <1>3, <1>4, ConstructedRead
  <2> HIDE DEF cfg
  <2>3. IsSeq(made) /\ ToSet(made) = {cfg}
    BY <2>1 DEF IsSeq, ToSet
  <2>4. QED BY <2>2, <2>3 DEF made
<1>6. CASE uses # None
  <2>1. uses \in Seq(STRING)
    BY <1>4, <1>6 DEF FilesRead, ReadableFile
  <2>2. AttrsRead(Put(initial, "flow", top.flow))
    <3>1. "flow" \notin Keys
      BY DEF Keys, DictsRead, Patterns
    <3>2. QED BY <3>1 DEF AttrsRead, Put
  <2>3. ASSUME NEW i \in DOMAIN uses PROVE ConfigRead(made[i])
    <3>1. made[i] # Exit
      BY <1>3, <1>6
    <3>2. child(uses[i]) # Exit /\ made[i] = Constructed(defaults, child(uses[i]))
      BY <1>3, <1>6, <3>1 DEF Then
    <3> HIDE DEF made
    <3>3. AttrsRead(child(uses[i]))
      BY <1>2, <2>2, <3>2
    <3> HIDE DEF child
    <3>4. QED BY <3>1, <3>2, <3>3, ConstructedRead
  <2>4. Len(uses) \in Nat /\ made = [i \in 1..Len(uses) |-> made[i]] /\ DOMAIN uses = 1..Len(uses)
    <3>1. Len(uses) \in Nat /\ DOMAIN uses = 1..Len(uses)
      BY <2>1
    <3> DEFINE ofChild(p) == IF p \notin DOMAIN files THEN Exit
                             ELSE IF files[p].uses # None THEN Exit
                             ELSE Then(child(p), LAMBDA data : Constructed(defaults, data))
    <3>2. made = [i \in DOMAIN uses |-> ofChild(uses[i])]
      BY <1>3, <1>6
    <3> HIDE DEF ofChild, made, uses
    <3>3. made = [i \in 1..Len(uses) |-> made[i]]
      BY <3>1, <3>2
    <3>4. QED BY <3>1, <3>3
  <2> HIDE DEF made, uses
  <2>5. IsSeq(made) /\ ToSet(made) = {made[i] : i \in 1..Len(uses)}
    BY <2>4, SeqMade
  <2>6. QED BY <2>3, <2>4, <2>5 DEF made
<1>7. QED BY <1>5, <1>6

-----------------------------------------------------------------------------
(* A configuration at each stage: read, with objects, with lists, deployed. *)
Fields == {"stage", "name", "variant", "scratch", "buildPass", "runPass", "builds", "tests", "regrs", "runList",
           "buildList", "primary", "jobs"}
TestKeys == {"name", "mode", "reseed", "run", "subs"}
RegressionKeys == {"name", "tests", "reseed"}
TestsKnown(tests) == IsSeq(tests) /\ OncePerName(tests) /\ \A t \in ToSet(tests) : TestKeys \subseteq DOMAIN t
RegressionsKnown(c) ==
  TestedBy(c.regrs, c.tests) /\ OncePerName(c.regrs) /\ \A r \in ToSet(c.regrs) : RegressionKeys \subseteq DOMAIN r
Named(ms) == IsSeq(ms) /\ \A i \in DOMAIN ms : "name" \in DOMAIN ms[i]
ModesKnown(c) == Named(c.builds) /\ \A i \in DOMAIN c.tests : c.tests[i].mode \in Names(c.builds)
ListsKnown(c) ==
  /\ IsSeq(c.runList) /\ ToSet(c.runList) \subseteq Names(c.tests)
  /\ IsSeq(c.buildList) /\ OnceEach(c.buildList) /\ ToSet(c.buildList) \subseteq Names(c.builds)
  /\ \A name \in ToSet(c.runList) :
       TestOf(c, name).reseed \in Nat \ {0} /\ TestOf(c, name).mode \in ToSet(c.buildList)
  /\ \A m \in ToSet(c.buildList) : \E name \in ToSet(c.runList) : TestOf(c, name).mode = m
OwnJob(c, j) == j.block = <<c.name, c.variant>> /\ IsSeq(j.pass)
OwnJobs(c, s) == IsSeq(s) /\ \A j \in ToSet(s) : OwnJob(c, j)
AtStageKnown(c) ==
  \/ /\ c.stage \in {"new", "skipped"} /\ c.jobs = <<>> /\ c.runList = <<>>
     /\ c.tests \in Seq(TestsRead) /\ c.regrs \in Seq(RegressionsRead) /\ c.builds \in Seq(ModesRead)
  \/ /\ c.stage = "created" /\ c.jobs = <<>> /\ c.runList = <<>>
     /\ TestsKnown(c.tests) /\ RegressionsKnown(c) /\ ModesKnown(c)
  \/ c.stage = "listed" /\ c.jobs = <<>> /\ TestsKnown(c.tests) /\ ListsKnown(c) /\ Named(c.builds)
  \/ c.stage = "deployed" /\ OwnJobs(c, c.jobs)
CfgKnown(c) ==
  /\ Fields \subseteq DOMAIN c
  /\ c.buildPass = None \/ IsSeq(c.buildPass)
  /\ c.runPass = None \/ IsSeq(c.runPass)
  /\ AtStageKnown(c)

LEMMA ObjectKnown ==
  ASSUME NEW v, ConfigRead(v), NEW path
  PROVE  CfgKnown(Object(v, path))
<1> DEFINE c == Object(v, path)
           ListOf(k) == IF k \in DOMAIN v THEN v[k].list ELSE None
<1>1. /\ Fields \subseteq DOMAIN c /\ c.stage = "new" /\ c.jobs = <<>> /\ c.runList = <<>>
      /\ c.tests = v.tests.list /\ c.regrs = v.regressions.list /\ c.builds = v.build_modes.list
      /\ c.buildPass = ListOf("build_pass_patterns") /\ c.runPass = ListOf("run_pass_patterns")
  BY DEF Object, Fields
<1>2. /\ v.tests.list \in Seq(TestsRead) /\ v.regressions.list \in Seq(RegressionsRead)
      /\ v.build_modes.list \in Seq(ModesRead)
  <2>1. /\ "tests" \in DOMAIN DictsRead /\ DictsRead["tests"] = TestsRead
        /\ "regressions" \in DOMAIN DictsRead /\ DictsRead["regressions"] = RegressionsRead
          /\ "build_modes" \in DOMAIN DictsRead /\ DictsRead["build_modes"] = ModesRead
    BY DEF DictsRead
  <2>2. /\ v["tests"].list \in Seq(DictsRead["tests"]) /\ v["regressions"].list \in Seq(DictsRead["regressions"])
        /\ v["build_modes"].list \in Seq(DictsRead["build_modes"])
    BY <2>1 DEF ConfigRead
  <2>3. QED BY <2>1, <2>2
<1>3. \A k \in Patterns : ListOf(k) = None \/ IsSeq(ListOf(k))
  BY DEF ConfigRead
<1>4. "build_pass_patterns" \in Patterns /\ "run_pass_patterns" \in Patterns
  BY DEF Patterns
<1> HIDE DEF c, ListOf
<1>5. QED BY <1>1, <1>2, <1>3, <1>4 DEF CfgKnown, AtStageKnown, c

LEMMA TestsReadRecords ==
  ASSUME NEW tests \in Seq(TestsRead)
  PROVE  ReadRecords(tests, TestKeys)
<1>1. IsSeq(tests) /\ ToSet(tests) \subseteq TestsRead
  BY SeqElements
<1>2. \A t \in TestsRead : TestKeys \subseteq DOMAIN t /\ t.subs \in Seq(STRING)
  BY DEF TestsRead, TestKeys
<1>3. \A t \in ToSet(tests) : ReadRecord(t, TestKeys)
  <2>1. ASSUME NEW t \in ToSet(tests) PROVE ReadRecord(t, TestKeys)
    <3>1. t.subs \in Seq(STRING)
      BY <1>1, <1>2
    <3>2. IsSeq(t.subs)
      BY <3>1, SeqElements
    <3>3. QED BY <1>1, <1>2, <3>2 DEF ReadRecord
  <2>2. QED BY <2>1
<1>4. QED BY <1>1, <1>3 DEF ReadRecords

LEMMA StagesKnown ==
  ASSUME NEW tps
  PROVE  LET stages == StageRegressions(tps, NameOrder)
             regrs == [i \in DOMAIN stages |-> AsRegression(stages[i])]
         IN ReadRecords(regrs, RegressionKeys)
<1> DEFINE stages == StageRegressions(tps, NameOrder)
           regrs == [i \in DOMAIN stages |-> AsRegression(stages[i])]
           present == Only(Tail(Stages), {tp.stage : tp \in {x \in ToSet(tps) : ~NotMapped(x)}})
           n == Len(present)
<1>1. IsSeq(Tail(Stages))
  <2>1. Stages \in Seq({"N.A.", "V1", "V2", "V2S", "V3"}) /\ Stages # <<>>
    BY DEF Stages
  <2>2. Tail(Stages) \in Seq({"N.A.", "V1", "V2", "V2S", "V3"})
    BY <2>1
  <2>3. QED BY <2>2, SeqElements
<1>2. n \in Nat /\ DOMAIN present = 1..n
  <2>1. IsSeq(present)
    BY <1>1, OnlyIs
  <2> HIDE DEF present
  <2>2. QED BY <2>1, SeqIs
<1>3. DOMAIN stages = DOMAIN present
  BY DEF StageRegressions
<1> HIDE DEF present, stages, n
<1>4. regrs = [i \in 1..n |-> regrs[i]]
  BY <1>2, <1>3
<1>5. \A i \in 1..n : ReadRecord(regrs[i], RegressionKeys)
  BY <1>2, <1>3 DEF ReadRecord, AsRegression, RegressionKeys
<1> HIDE DEF regrs
<1>6. IsSeq(regrs) /\ ToSet(regrs) = {regrs[k] : k \in 1..n}
  BY <1>2, <1>4, SeqMade
<1>7. ReadRecords(regrs, RegressionKeys)
  BY <1>5, <1>6 DEF ReadRecords
<1>8. QED BY <1>7 DEF regrs, stages

LEMMA RegressionsReadRecords ==
  ASSUME NEW regrs \in Seq(RegressionsRead)
  PROVE  ReadRecords(regrs, RegressionKeys)
<1>1. IsSeq(regrs) /\ ToSet(regrs) \subseteq RegressionsRead
  BY SeqElements
<1>2. \A r \in RegressionsRead : ReadRecord(r, RegressionKeys)
  BY DEF RegressionsRead, RegressionKeys, ReadRecord
<1>3. QED BY <1>1, <1>2 DEF ReadRecords

(* _create_objects().                                                      *)
LEMMA EnabledKeeps ==
  ASSUME NEW c, Fields \subseteq DOMAIN c, NEW names, NEW modes
  PROVE  LET e == WithEnabled(c, names, modes)
         IN /\ DOMAIN e = DOMAIN c
            /\ \A k \in Fields : e[k] = c[k]
<1> DEFINE e == WithEnabled(c, names, modes)
           b == c.buildOpts \o OptionsOf(names, modes, "build")
           r == c.runOpts \o OptionsOf(names, modes, "run")
<1>1. e = [c EXCEPT !.buildOpts = b, !.runOpts = r]
  BY DEF WithEnabled
<1> HIDE DEF e, b, r
<1>2. DOMAIN e = DOMAIN c /\ \A k \in Fields : e[k] = c[k]
  BY <1>1 DEF Fields
<1>3. QED BY <1>2 DEF e

LEMMA ObjectsKnown ==
  ASSUME NEW c, CfgKnown(c), c.stage = "new", NEW known, Objects(c, known) # Exit
  PROVE  CfgKnown(Objects(c, known)) /\ Objects(c, known).stage = "created"
<1> DEFINE m1 == CreateModes(<<DefaultBuildMode>>, c.builds)
           x1 == WithBuilds(c, m1)
           m2 == CreateModes(<<>>, x1.runs)
           x2 == WithRuns(x1, m2)
           tests == CreateTests(x2.tests, x2.builds, x2.runs, Globals(x2))
           x3 == [x2 EXCEPT !.tests = tests]
           plan == PlanOf(x3)
           x4 == [x3 EXCEPT !.plan = plan]
           stages == StageRegressions(x4.plan, NameOrder)
           regrs == Regressions(x4, known, stages)
           x5 == [x4 EXCEPT !.stage = "created", !.regrs = regrs]
           new == Objects(c, known)
           Same(x) == /\ DOMAIN x = DOMAIN c
                      /\ \A k \in {"name", "variant", "scratch", "buildPass", "runPass", "runList", "jobs"} : x[k] = c[k]
<1>1. /\ Fields \subseteq DOMAIN c /\ c.tests \in Seq(TestsRead) /\ c.regrs \in Seq(RegressionsRead)
      /\ c.jobs = <<>> /\ c.runList = <<>> /\ c.builds \in Seq(ModesRead)
  BY DEF CfgKnown, AtStageKnown
<1>2. m1 # Exit /\ x1 # Exit /\ x2 # Exit /\ tests # Exit /\ regrs # Exit /\ new = x5
  BY DEF Objects, Then
<1>0. Named(m1)
  <2>1. m1 \in Seq(ModesRead)
    BY <1>1, <1>2, BuildModesCreated
  <2> HIDE DEF m1
  <2>2. ReadRecords(m1, {"name"})
    BY <2>1, ModesReadRecords
  <2>3. QED BY <2>2 DEF Named, ReadRecords, ReadRecord, ToSet
<1> HIDE DEF m1, m2
<1>3. Same(x1) /\ x1.builds = m1 /\ x1.tests = c.tests /\ x1.regrs = c.regrs
  <2> DEFINE e == WithEnabled(c, c.buildModes, m1)
  <2>1. x1 = [e EXCEPT !.builds = m1]
    BY <1>2 DEF WithBuilds
  <2>2. Same(e) /\ e.tests = c.tests /\ e.regrs = c.regrs
    BY <1>1, EnabledKeeps DEF Fields
  <2> HIDE DEF e, x1
  <2>3. QED BY <1>1, <2>1, <2>2 DEF Fields
<1> HIDE DEF x1
<1>4. Same(x2) /\ x2.builds = m1 /\ x2.tests = c.tests /\ x2.regrs = c.regrs
  <2> DEFINE e == WithEnabled(x1, x1.runModes, m2)
  <2>1. x2 = [e EXCEPT !.runs = m2]
    BY <1>2 DEF WithRuns
  <2>2. Same(e) /\ e.builds = m1 /\ e.tests = c.tests /\ e.regrs = c.regrs
    BY <1>1, <1>3, EnabledKeeps DEF Fields
  <2> HIDE DEF e, x2
  <2>3. QED BY <1>1, <2>1, <2>2 DEF Fields
<1> HIDE DEF x2, new
<1>5. TestsKnown(tests) /\ \A t \in ToSet(tests) : Has(t.mode, m1)
  <2>1. ReadRecords(x2.tests, TestKeys) /\ {"name", "subs", "mode", "run"} \subseteq TestKeys
    BY <1>1, <1>4, TestsReadRecords DEF TestKeys
  <2>2. QED BY <1>2, <1>4, <2>1, TestsCreated DEF TestsKnown
<1> HIDE DEF tests
<1>6. Same(x3) /\ x3.builds = m1 /\ x3.tests = tests /\ x3.regrs = c.regrs
  BY <1>1, <1>4 DEF Fields
<1> HIDE DEF x3, plan
<1>7. Same(x4) /\ x4.builds = m1 /\ x4.tests = tests /\ x4.regrs = c.regrs
  BY <1>1, <1>6 DEF Fields
<1> HIDE DEF x4
<1>8. TestedBy(regrs, tests) /\ OncePerName(regrs) /\ \A r \in ToSet(regrs) : RegressionKeys \subseteq DOMAIN r
  <2> DEFINE staged == [i \in DOMAIN stages |-> AsRegression(stages[i])]
             dicts == x4.regrs \o staged
  <2>1. ReadRecords(x4.regrs, RegressionKeys) /\ ReadRecords(staged, RegressionKeys)
    BY <1>1, <1>7, StagesKnown, RegressionsReadRecords
  <2>2. regrs = CreateRegressions(dicts, tests, known \cup Names(tests), x4.builds, x4.runs, Globals(x4), NameOrder)
    BY <1>7 DEF Regressions
  <2> HIDE DEF staged, regrs, stages
  <2>3. ReadRecords(dicts, RegressionKeys)
    BY <2>1, SeqJoined DEF ReadRecords
  <2> HIDE DEF dicts
  <2>4. /\ IsSeq(NameOrder) /\ OnceEach(NameOrder) /\ IsSeq(tests) /\ OncePerName(tests)
        /\ {"name", "tests"} \subseteq RegressionKeys
    BY <1>5, NamesAssumption, SeqElements DEF TestsKnown, RegressionKeys, OnceEach
  <2>5. QED BY <1>2, <2>2, <2>3, <2>4, RegressionsCreated
<1> HIDE DEF regrs
<1>9. Same(x5) /\ x5.builds = m1 /\ x5.tests = tests /\ x5.regrs = regrs /\ x5.stage = "created"
  BY <1>1, <1>7 DEF Fields
<1> HIDE DEF x5
<1>10. ModesKnown(x5)
  <2>1. \A i \in DOMAIN tests : tests[i] \in ToSet(tests)
    BY DEF ToSet
  <2>2. \A i \in DOMAIN tests : tests[i].mode \in Names(m1)
    BY <1>0, <1>5, <2>1, FindIs DEF Named
  <2>3. QED BY <1>0, <1>9, <2>2 DEF ModesKnown
<1>11. AtStageKnown(x5)
  BY <1>1, <1>5, <1>8, <1>9, <1>10 DEF AtStageKnown, RegressionsKnown
<1>12. CfgKnown(x5)
  BY <1>1, <1>9, <1>11 DEF CfgKnown
<1>13. QED BY <1>2, <1>9, <1>12 DEF new

-----------------------------------------------------------------------------
(* The lists of what to run.                                               *)
ArgsRead(a) ==
  /\ a.reseed \in {None} \cup Int /\ a.times \in Int \X (Nat \ {0})
  /\ a.items \in Seq(SUBSET STRING) /\ a.seeds \in Seq(Int)

(* Changes to tests that keep their names.                                 *)
TestsLike(tests, new) ==
  /\ IsSeq(new) /\ DOMAIN new = DOMAIN tests
  /\ \A i \in DOMAIN tests : DOMAIN new[i] = DOMAIN tests[i] /\ new[i].name = tests[i].name

LEMMA LikeKnown ==
  ASSUME NEW tests, TestsKnown(tests), NEW new, TestsLike(tests, new)
  PROVE  TestsKnown(new) /\ Names(new) = Names(tests) /\ \A name : Find(name, new) = Find(name, tests)
<1>1. Names(new) = Names(tests) /\ \A name : Find(name, new) = Find(name, tests)
  BY FindSame DEF TestsKnown, TestsLike
<1>2. OncePerName(new)
  BY DEF OncePerName, TestsKnown, TestsLike
<1>3. \A i \in DOMAIN tests : TestKeys \subseteq DOMAIN tests[i]
  BY DEF TestsKnown, ToSet
<1>4. ASSUME NEW t \in ToSet(new) PROVE TestKeys \subseteq DOMAIN t
  <2>1. PICK i \in DOMAIN new : t = new[i]
    BY DEF ToSet
  <2>2. QED BY <1>3, <2>1 DEF TestsLike
<1>5. QED BY <1>1, <1>2, <1>4 DEF TestsKnown, TestsLike

LEMMA LikeMade ==
  ASSUME NEW tests, IsSeq(tests), NEW new, new = [i \in DOMAIN tests |-> new[i]],
         \A i \in DOMAIN tests : DOMAIN new[i] = DOMAIN tests[i] /\ new[i].name = tests[i].name
  PROVE  TestsLike(tests, new)
<1>1. Len(tests) \in Nat /\ DOMAIN tests = 1..Len(tests)
  BY SeqIs
<1>2. new = [i \in 1..Len(tests) |-> new[i]]
  BY <1>1
<1>3. IsSeq(new) /\ DOMAIN new = 1..Len(tests)
  BY <1>1, <1>2, SeqMade
<1>4. QED BY <1>1, <1>3 DEF TestsLike

LEMMA LikeTwice ==
  ASSUME NEW a, NEW b, NEW c, TestsLike(a, b), TestsLike(b, c)
  PROVE  TestsLike(a, c)
BY DEF TestsLike

LEMMA LikeNamed ==
  ASSUME NEW ms, Named(ms), NEW new, TestsLike(ms, new)
  PROVE  Named(new) /\ Names(new) = Names(ms) /\ \A name : Find(name, new) = Find(name, ms)
<1>1. Names(new) = Names(ms) /\ \A name : Find(name, new) = Find(name, ms)
  BY FindSame DEF Named, TestsLike
<1>2. QED BY <1>1 DEF Named, TestsLike

(* Options added to tests and build modes.                                  *)
SameModes(tests, new) == \A i \in DOMAIN tests : new[i].mode = tests[i].mode

LEMMA ModesGiven ==
  ASSUME NEW tests, NEW modes, Named(modes), NEW names, NEW build, NEW run
  PROVE  TestsLike(modes, AddOptions(tests, modes, names, build, run).modes)
<1> DEFINE new == AddOptions(tests, modes, names, build, run).modes
           built == {tests[Find(n, tests)].mode : n \in ToSet(names)}
<1>1. new = [i \in DOMAIN modes |->
               [modes[i] EXCEPT !.build = IF modes[i].name \in built THEN @ \o build ELSE @]]
  BY DEF AddOptions
<1> HIDE DEF new, built
<1>2. \A i \in DOMAIN modes : \E b : new[i] = [modes[i] EXCEPT !.build = b]
  BY <1>1
<1>3. \A i \in DOMAIN modes : DOMAIN new[i] = DOMAIN modes[i] /\ new[i].name = modes[i].name
  BY <1>2 DEF Named
<1>4. new = [i \in DOMAIN modes |-> new[i]]
  BY <1>1
<1>5. QED BY <1>3, <1>4, LikeMade DEF new, Named

LEMMA OptionsAdded ==
  ASSUME NEW tests, TestsKnown(tests), NEW modes, NEW names, NEW build, NEW run
  PROVE  LET new == AddOptions(tests, modes, names, build, run).tests
         IN /\ TestsLike(tests, new) /\ SameModes(tests, new)
            /\ \A i \in DOMAIN tests : new[i].reseed = tests[i].reseed
<1> DEFINE new == AddOptions(tests, modes, names, build, run).tests
           more(i) == FlattenSeq([k \in 1..Len(Only(names, {tests[i].name})) |-> run])
<1>1. new = [i \in DOMAIN tests |-> [tests[i] EXCEPT !.run = @ \o more(i)]]
  BY DEF AddOptions
<1> HIDE DEF new, more
<1>2. \A i \in DOMAIN tests : new[i] = [tests[i] EXCEPT !.run = @ \o more(i)]
  BY <1>1
<1>3. \A i \in DOMAIN tests : {"name", "reseed", "mode"} \subseteq DOMAIN tests[i]
  BY DEF TestsKnown, TestKeys, ToSet
<1>4. \A i \in DOMAIN tests : DOMAIN new[i] = DOMAIN tests[i]
  BY <1>2
<1>5. \A i \in DOMAIN tests : /\ new[i].name = tests[i].name /\ new[i].reseed = tests[i].reseed
                               /\ new[i].mode = tests[i].mode
  BY <1>2, <1>3
<1>6. new = [i \in DOMAIN tests |-> new[i]]
  BY <1>1
<1>7. QED BY <1>4, <1>5, <1>6, LikeMade DEF new, TestsKnown, SameModes

LEMMA NamesListed ==
  ASSUME NEW ms, IsSeq(ms)
  PROVE  IsSeq(NamesOf(ms)) /\ ToSet(NamesOf(ms)) = Names(ms)
<1> DEFINE new == NamesOf(ms)
<1>1. Len(ms) \in Nat /\ DOMAIN ms = 1..Len(ms)
  BY SeqIs
<1>2. new = [i \in 1..Len(ms) |-> ms[i].name]
  BY <1>1 DEF NamesOf
<1> HIDE DEF new
<1>3. new = [i \in 1..Len(ms) |-> new[i]]
  BY <1>2
<1>4. IsSeq(new) /\ ToSet(new) = {new[i] : i \in 1..Len(ms)}
  BY <1>1, <1>3, SeqMade
<1>5. ToSet(new) = Names(ms)
  BY <1>1, <1>2, <1>4 DEF Names
<1>6. QED BY <1>4, <1>5 DEF new

LEMMA HitsAreNames ==
  ASSUME NEW names, IsSeq(names), ArgsRead(args)
  PROVE  IsSeq(Hits(names)) /\ ToSet(Hits(names)) \subseteq ToSet(names)
<1> DEFINE seqs == [p \in DOMAIN args.items |-> Only(names, args.items[p])]
           n == Len(args.items)
<1>1. n \in Nat /\ DOMAIN args.items = 1..n
  BY DEF ArgsRead
<1> HIDE DEF n
<1>2. seqs = [p \in 1..n |-> seqs[p]]
  BY <1>1
<1>3. \A p \in 1..n : IsSeq(seqs[p]) /\ ToSet(seqs[p]) \subseteq ToSet(names)
  BY <1>1, OnlyIs
<1>4. Hits(names) = FlattenSeq(seqs)
  BY DEF Hits
<1> HIDE DEF seqs
<1>5. IsSeq(seqs) /\ ToSet(seqs) = {seqs[p] : p \in 1..n}
  BY <1>1, <1>2, SeqMade
<1>6. \A s \in ToSet(seqs) : IsSeq(s) /\ ToSet(s) \subseteq ToSet(names)
  BY <1>3, <1>5
<1>7. IsSeq(FlattenSeq(seqs)) /\ ToSet(FlattenSeq(seqs)) \subseteq UNION {ToSet(s) : s \in ToSet(seqs)}
  BY <1>5, <1>6, FlattenIs
<1>8. QED BY <1>4, <1>6, <1>7

(* What the lists change of a configuration that has its objects.          *)
Listing(c, x) ==
  /\ DOMAIN x = DOMAIN c
  /\ \A k \in {"stage", "name", "variant", "scratch", "buildPass", "runPass", "regrs", "jobs"} : x[k] = c[k]
  /\ TestsLike(c.tests, x.tests) /\ SameModes(c.tests, x.tests) /\ TestsLike(c.builds, x.builds)
  /\ IsSeq(x.runList) /\ ToSet(x.runList) \subseteq Names(c.tests)

LEMMA RegressionListed ==
  ASSUME NEW c, Fields \subseteq DOMAIN c, TestsKnown(c.tests), Named(c.builds), NEW x, Listing(c, x),
         NEW r, IsSeq(r.tests), ToSet(r.tests) \subseteq Names(c.tests)
  PROVE  Listing(c, AddRegression(x, r))
<1> DEFINE added == AddOptions(x.tests, x.builds, r.tests, r.build, r.run)
           at == added.tests
           reseeded == [i \in DOMAIN at |->
                          IF r.reseed # None /\ Contains(r.tests, at[i].name)
                          THEN [at[i] EXCEPT !.reseed = r.reseed] ELSE at[i]]
           new == AddRegression(x, r)
<1>1. CASE ToSet(r.tests) \cap ToSet(x.runList) # {}
  BY <1>1 DEF AddRegression
<1>2. CASE ToSet(r.tests) \cap ToSet(x.runList) = {}
  <2>1. new = [x EXCEPT !.runList = @ \o r.tests, !.tests = reseeded, !.builds = added.modes]
    BY <1>2 DEF AddRegression
  <2>2. TestsKnown(x.tests)
    BY LikeKnown DEF Listing
  <2>3. TestsLike(x.tests, at) /\ SameModes(x.tests, at)
    BY <2>2, OptionsAdded
  <2>11. TestsLike(c.builds, added.modes)
    <3>1. Named(x.builds) /\ TestsLike(c.builds, x.builds)
      BY LikeNamed DEF Listing
    <3>2. TestsLike(x.builds, added.modes)
      BY <3>1, ModesGiven
    <3>3. QED BY <3>1, <3>2, LikeTwice
  <2> HIDE DEF added, new
  <2>4. TestsKnown(at)
    BY <2>2, <2>3, LikeKnown
  <2>5. TestsLike(at, reseeded) /\ SameModes(at, reseeded)
    <3>1. \A i \in DOMAIN at : reseeded[i] \in {at[i], [at[i] EXCEPT !.reseed = r.reseed]}
      OBVIOUS
    <3>2. reseeded = [i \in DOMAIN at |-> reseeded[i]]
      OBVIOUS
    <3> HIDE DEF reseeded
    <3>3. \A i \in DOMAIN at : {"name", "mode"} \subseteq DOMAIN at[i]
      BY <2>4 DEF TestsKnown, TestKeys, ToSet
    <3>4. \A i \in DOMAIN at : /\ DOMAIN reseeded[i] = DOMAIN at[i] /\ reseeded[i].name = at[i].name
                                /\ reseeded[i].mode = at[i].mode
      BY <3>1, <3>3
    <3>5. IsSeq(at)
      BY <2>4 DEF TestsKnown
    <3> HIDE DEF at
    <3>6. QED BY <3>2, <3>4, <3>5, LikeMade DEF SameModes
  <2> HIDE DEF reseeded
  <2>6. TestsLike(c.tests, reseeded) /\ SameModes(c.tests, reseeded)
    <3>1. TestsLike(c.tests, at) /\ SameModes(c.tests, at)
      BY <2>3, LikeTwice DEF Listing, SameModes, TestsLike
    <3>2. QED BY <2>5, <3>1, LikeTwice DEF SameModes, TestsLike
  <2>7. IsSeq(x.runList \o r.tests) /\ ToSet(x.runList \o r.tests) \subseteq Names(c.tests)
    BY SeqJoined DEF Listing
  <2>8. /\ DOMAIN new = DOMAIN x /\ new.runList = x.runList \o r.tests /\ new.tests = reseeded
        /\ new.builds = added.modes
    BY <2>1 DEF Listing, Fields
  <2>9. \A k \in {"stage", "name", "variant", "scratch", "buildPass", "runPass", "regrs", "jobs"} : new[k] = x[k]
    BY <2>1 DEF Listing, Fields
  <2>10. QED BY <2>6, <2>7, <2>8, <2>9, <2>11 DEF Listing, new
<1>3. QED BY <1>1, <1>2

LEMMA RegressionsListed ==
  ASSUME NEW c, CfgKnown(c), c.stage = "created", ArgsRead(args)
  PROVE  Listing(c, WithRegressions(c))
<1> DEFINE hits == Hits(NamesOf(c.regrs))
           seq == [k \in DOMAIN hits |-> c.regrs[Find(hits[k], c.regrs)]]
           n == Len(hits)
<1>1. /\ Fields \subseteq DOMAIN c /\ c.jobs = <<>> /\ c.runList = <<>>
      /\ TestsKnown(c.tests) /\ RegressionsKnown(c) /\ Named(c.builds)
  BY DEF CfgKnown, AtStageKnown, ModesKnown
<1>2. IsSeq(c.regrs) /\ \A r \in ToSet(c.regrs) : IsSeq(r.tests) /\ ToSet(r.tests) \subseteq Names(c.tests)
  BY <1>1 DEF RegressionsKnown, TestedBy
<1>3. IsSeq(hits) /\ ToSet(hits) \subseteq Names(c.regrs)
  BY <1>2, NamesListed, HitsAreNames
<1>4. WithRegressions(c) = RegressionsAdded(c, seq)
  BY DEF WithRegressions, RegressionsAdded
<1> HIDE DEF hits
<1>5. n \in Nat /\ DOMAIN hits = 1..n /\ \A k \in 1..n : hits[k] \in Names(c.regrs)
  BY <1>3, SeqIs
<1>6. \A k \in 1..n : seq[k] \in ToSet(c.regrs)
  BY <1>2, <1>5, FindIs
<1>7. seq = [k \in 1..n |-> seq[k]]
  BY <1>5
<1> HIDE DEF seq, n
<1>8. Len(seq) = n /\ DOMAIN seq = 1..n
  BY <1>5, <1>7, SeqMade
<1>9. PICK x : AddRegressionTrace(x, c, seq)
  BY <1>5, <1>8, AddRegressionSteps
<1>10. /\ x[0] = c /\ \A k \in 1..n : x[k] = AddRegression(x[k - 1], seq[k])
      /\ RegressionsAdded(c, seq) = x[n]
  BY <1>9, <1>8 DEF AddRegressionTrace
<1> DEFINE G == {k \in 0..n : Listing(c, x[k])}
<1>11. 0 \in G
  <2>1. /\ TestsLike(c.tests, c.tests) /\ SameModes(c.tests, c.tests) /\ TestsLike(c.builds, c.builds)
        /\ IsSeq(<<>>) /\ ToSet(<<>>) = {}
    BY <1>1 DEF TestsLike, TestsKnown, SameModes, Named, IsSeq, ToSet
  <2>2. Listing(c, c)
    BY <1>1, <2>1 DEF Listing
  <2>3. QED BY <1>5, <1>10, <2>2
<1>12. ASSUME NEW k \in 1..n, k - 1 \in G PROVE k \in G
  <2>1. k \in 0..n /\ Listing(c, x[k - 1]) /\ x[k] = AddRegression(x[k - 1], seq[k])
    BY <1>5, <1>10, <1>12
  <2>2. IsSeq(seq[k].tests) /\ ToSet(seq[k].tests) \subseteq Names(c.tests)
    BY <1>2, <1>6
  <2>3. QED BY <1>1, <2>1, <2>2, RegressionListed
<1> HIDE DEF G
<1>13. \A k \in 0..n : k \in G
  BY <1>5, <1>11, <1>12, Climb
<1>14. QED BY <1>4, <1>5, <1>10, <1>13 DEF G

LEMMA TestsListed ==
  ASSUME NEW c, Fields \subseteq DOMAIN c, TestsKnown(c.tests), NEW x, Listing(c, x), ArgsRead(args)
  PROVE  Listing(c, WithTests(x))
<1> DEFINE rest == Only(NamesOf(x.tests), Names(x.tests) \ ToSet(x.runList))
           new == WithTests(x)
<1>1. new = [x EXCEPT !.runList = @ \o Hits(rest)]
  BY DEF WithTests
<1>2. TestsKnown(x.tests) /\ Names(x.tests) = Names(c.tests)
  BY LikeKnown DEF Listing
<1>3. IsSeq(rest) /\ ToSet(rest) \subseteq Names(c.tests)
  BY <1>2, NamesListed, OnlyIs DEF TestsKnown
<1> HIDE DEF rest, new
<1>4. IsSeq(Hits(rest)) /\ ToSet(Hits(rest)) \subseteq Names(c.tests)
  BY <1>3, HitsAreNames
<1>5. IsSeq(x.runList \o Hits(rest)) /\ ToSet(x.runList \o Hits(rest)) \subseteq Names(c.tests)
  BY <1>4, SeqJoined DEF Listing
<1>6. /\ DOMAIN new = DOMAIN x /\ new.runList = x.runList \o Hits(rest) /\ new.tests = x.tests
      /\ new.builds = x.builds
      /\ \A k \in {"stage", "name", "variant", "scratch", "buildPass", "runPass", "regrs", "jobs"} : new[k] = x[k]
  BY <1>1 DEF Listing, Fields
<1>7. QED BY <1>5, <1>6 DEF Listing, new

(* The number of runs of a test is a number, at least 1.                    *)
LEMMA ReseededIs ==
  ASSUME ArgsRead(args), NEW reseed, args.reseed # None \/ reseed \in Int
  PROVE  Reseeded(reseed) \in Nat \ {0}
<1> DEFINE base == IF args.reseed # None THEN args.reseed ELSE reseed
           num == base * args.times[1]
           den == args.times[2]
           floor == num \div den
           x == RoundHalfEven(num, den)
<1>1. base \in Int /\ args.times[1] \in Int /\ den \in Nat \ {0}
  BY DEF ArgsRead
<1>2. num \in Int
  BY <1>1
<1> HIDE DEF num, den, base
<1>3. floor \in Int
  BY <1>1, <1>2
<1>4. x \in {floor, floor + 1}
  BY DEF RoundHalfEven
<1> HIDE DEF floor, x
<1>5. x \in Int
  BY <1>3, <1>4
<1>6. Max({1, x}) \in Nat \ {0}
  <2>1. CASE x >= 1
    <3>1. {1, x} \in SUBSET Int /\ x \in {1, x} /\ \A k \in {1, x} : k <= x
      BY <1>5, <2>1
    <3>2. Max({1, x}) = x
      BY <3>1, MaxIs
    <3>3. QED BY <1>5, <2>1, <3>2
  <2>2. CASE ~(x >= 1)
    <3>1. {1, x} \in SUBSET Int /\ 1 \in {1, x} /\ \A k \in {1, x} : k <= 1
      BY <1>5, <2>2
    <3>2. Max({1, x}) = 1
      BY <3>1, MaxIs
    <3>3. QED BY <3>2
  <2>3. QED BY <2>1, <2>2
<1>7. Reseeded(reseed) = Max({1, x})
  BY DEF Reseeded, x, num, den, base
<1>8. QED BY <1>6, <1>7

(* Numbered(tests, names): the named tests are there and may be reseeded.   *)
Numbered(tests, names) ==
  names \subseteq Names(tests) /\ \A n \in names : args.reseed # None \/ tests[Find(n, tests)].reseed \in Int
ReseedKnown(tests, names) == \A n \in names : tests[Find(n, tests)].reseed \in Nat \ {0}

LEMMA ReseedOne ==
  ASSUME ArgsRead(args), NEW ts, TestsKnown(ts), NEW names, Numbered(ts, names),
         NEW done, ReseedKnown(ts, done), done \subseteq names, NEW n \in names
  PROVE  LET new == Reseed(ts, n)
         IN /\ TestsLike(ts, new) /\ SameModes(ts, new)
            /\ Numbered(new, names) /\ ReseedKnown(new, done \cup {n})
<1> DEFINE new == Reseed(ts, n)
           f == Find(n, ts)
           s == Reseeded(ts[f].reseed)
<1>1. \A m \in names : Find(m, ts) \in DOMAIN ts /\ ts[Find(m, ts)].name = m
  BY FindIs DEF Numbered, TestsKnown
<1>2. f \in DOMAIN ts /\ n \in Names(ts)
  BY <1>1 DEF Numbered
<1>3. s \in Nat \ {0}
  BY ReseededIs DEF Numbered
<1>4. new = [ts EXCEPT ![f] = [ts[f] EXCEPT !.reseed = s]]
  BY <1>2 DEF Reseed
<1>5. {"name", "reseed", "mode"} \subseteq DOMAIN ts[f]
  BY <1>2 DEF TestsKnown, TestKeys, ToSet
<1> HIDE DEF new, f, s
<1>6. /\ DOMAIN new = DOMAIN ts /\ new[f].reseed = s /\ new[f].name = ts[f].name /\ new[f].mode = ts[f].mode
      /\ DOMAIN new[f] = DOMAIN ts[f] /\ \A i \in DOMAIN ts : i # f => new[i] = ts[i]
  BY <1>2, <1>4, <1>5
<1>7. TestsLike(ts, new)
  <2>1. new = [i \in DOMAIN ts |-> new[i]]
    BY <1>4
  <2>2. \A i \in DOMAIN ts : DOMAIN new[i] = DOMAIN ts[i] /\ new[i].name = ts[i].name
    BY <1>6
  <2>3. QED BY <2>1, <2>2, LikeMade DEF TestsKnown
<1>8. Names(new) = Names(ts) /\ \A m : Find(m, new) = Find(m, ts)
  BY <1>7, LikeKnown
<1>9. \A m \in names : \/ Find(m, ts) = f /\ new[Find(m, new)].reseed \in Nat \ {0}
                       \/ new[Find(m, new)] = ts[Find(m, ts)]
  BY <1>1, <1>3, <1>6, <1>8
<1>10. Numbered(new, names)
  BY <1>8, <1>9 DEF Numbered
<1>11. ReseedKnown(new, done \cup {n})
  <2>1. new[Find(n, new)].reseed \in Nat \ {0}
    BY <1>3, <1>6, <1>8 DEF f
  <2>2. QED BY <1>9, <2>1 DEF ReseedKnown
<1>12. SameModes(ts, new)
  BY <1>6 DEF SameModes
<1>13. QED BY <1>7, <1>10, <1>11, <1>12 DEF new

LEMMA ReseedAll ==
  ASSUME ArgsRead(args), NEW ts, TestsKnown(ts), NEW list, IsSeq(list), Numbered(ts, ToSet(list))
  PROVE  LET new == FoldLeft(Reseed, ts, list)
         IN TestsLike(ts, new) /\ SameModes(ts, new) /\ ReseedKnown(new, ToSet(list))
<1> DEFINE n == Len(list)
           names == ToSet(list)
<1>1. n \in Nat /\ DOMAIN list = 1..n /\ names = {list[i] : i \in 1..n}
  BY SeqIs
<1>2. FoldLeft(Reseed, ts, list) = AllReseeded(ts, list)
  BY DEF AllReseeded
<1>3. PICK r : ReseedTrace(r, ts, list)
  BY <1>1, ReseedSteps
<1>4. /\ r[0] = ts /\ \A k \in 1..n : r[k] = Reseed(r[k - 1], list[k])
      /\ AllReseeded(ts, list) = r[n]
  BY <1>3 DEF ReseedTrace
<1> HIDE DEF n, names
<1> DEFINE done(k) == {list[i] : i \in 1..k}
           G == {k \in 0..n : /\ TestsLike(ts, r[k]) /\ SameModes(ts, r[k])
                              /\ Numbered(r[k], names) /\ ReseedKnown(r[k], done(k))}
<1>5. 0 \in G
  <2>1. TestsLike(ts, ts) /\ SameModes(ts, ts)
    BY DEF TestsLike, TestsKnown, SameModes
  <2>2. done(0) = {}
    BY InitialParts
  <2> HIDE DEF done
  <2>3. ReseedKnown(r[0], done(0)) /\ Numbered(r[0], names)
    BY <1>4, <2>2 DEF ReseedKnown, names
  <2>4. QED BY <1>1, <1>4, <2>1, <2>3
<1>6. ASSUME NEW k \in 1..n, k - 1 \in G PROVE k \in G
  <2>1. k \in 0..n /\ r[k] = Reseed(r[k - 1], list[k]) /\ list[k] \in names
    BY <1>1, <1>4
  <2>2. /\ TestsLike(ts, r[k - 1]) /\ SameModes(ts, r[k - 1])
        /\ Numbered(r[k - 1], names) /\ ReseedKnown(r[k - 1], done(k - 1))
    BY <1>6
  <2>3. done(k) = done(k - 1) \cup {list[k]} /\ done(k - 1) \subseteq names
    <3>1. \A i \in 1..k : i = k \/ i \in 1..k - 1
      BY <1>1
    <3>2. k \in 1..k /\ \A i \in 1..k - 1 : i \in 1..k /\ i \in 1..n
      BY <1>1
    <3>3. QED BY <1>1, <3>1, <3>2
  <2> HIDE DEF done
  <2>4. TestsKnown(r[k - 1])
    BY <2>2, LikeKnown
  <2>5. /\ TestsLike(r[k - 1], r[k]) /\ SameModes(r[k - 1], r[k])
        /\ Numbered(r[k], names) /\ ReseedKnown(r[k], done(k - 1) \cup {list[k]})
    <3> DEFINE t == r[k - 1]
               d == done(k - 1)
               e == list[k]
    <3>1. /\ TestsKnown(t) /\ Numbered(t, names) /\ ReseedKnown(t, d) /\ d \subseteq names
          /\ e \in names /\ r[k] = Reseed(t, e)
      BY <2>1, <2>2, <2>3, <2>4
    <3> HIDE DEF t, d, e
    <3>2. TestsLike(t, r[k]) /\ SameModes(t, r[k]) /\ Numbered(r[k], names) /\ ReseedKnown(r[k], d \cup {e})
      BY <3>1, ReseedOne
    <3>3. QED BY <3>2 DEF t, d, e
  <2>6. TestsLike(ts, r[k]) /\ SameModes(ts, r[k])
    BY <2>2, <2>5, LikeTwice DEF SameModes, TestsLike
  <2>7. QED BY <2>1, <2>3, <2>5, <2>6
<1> HIDE DEF G
<1>7. \A k \in 0..n : k \in G
  BY <1>1, <1>5, <1>6, Climb
<1>8. done(n) = names
  BY <1>1
<1>9. TestsLike(ts, r[n]) /\ SameModes(ts, r[n]) /\ ReseedKnown(r[n], names)
  <2>1. n \in G
    BY <1>1, <1>7
  <2> HIDE DEF done
  <2>2. QED BY <1>8, <2>1 DEF G
<1>10. FoldLeft(Reseed, ts, list) = r[n]
  BY <1>2, <1>4
<1>11. QED BY <1>9, <1>10 DEF names

(* What _create_build_and_run_list() makes of a configuration.              *)
LEMMA ListedIs ==
  ASSUME NEW c0, CfgKnown(c0), c0.stage = "created", ArgsRead(args), Listed(c0) # Exit
  PROVE  LET c == WithTests(WithRegressions(c0))
             new == Listed(c0)
         IN /\ DOMAIN new = DOMAIN c0 /\ new.stage = "listed"
            /\ \A k \in {"name", "variant", "scratch", "buildPass", "runPass", "regrs", "jobs"} : new[k] = c0[k]
            /\ TestsLike(c0.tests, new.tests) /\ ReseedKnown(new.tests, ToSet(new.runList))
            /\ SameModes(c0.tests, new.tests) /\ SameModes(c0.tests, c.tests)
            /\ TestsLike(c0.tests, c.tests) /\ TestsLike(c0.builds, new.builds)
            /\ new.runList = c.runList /\ IsSeq(c.runList) /\ ToSet(c.runList) \subseteq Names(c0.tests)
            /\ new.buildList = Firsts([i \in DOMAIN c.runList |-> TestOf(c, c.runList[i]).mode])
<1> DEFINE c == WithTests(WithRegressions(c0))
           added == AddOptions(c.tests, c.builds, c.runList, c.buildOpts, c.runOpts)
           at == added.tests
           tests == FoldLeft(Reseed, at, c.runList)
           buildList == Firsts([i \in DOMAIN c.runList |-> TestOf(c, c.runList[i]).mode])
           new == Listed(c0)
<1>1. Fields \subseteq DOMAIN c0 /\ TestsKnown(c0.tests) /\ Named(c0.builds)
  BY DEF CfgKnown, AtStageKnown, ModesKnown
<1>2. Listing(c0, c)
  BY <1>1, RegressionsListed, TestsListed
<1> HIDE DEF c
<1>3. /\ args.reseed = None => \A n \in ToSet(c.runList) : TestOf(c, n).reseed \in Int
      /\ new = WithGlobals(c, added)
  BY DEF Listed, c
<1>4. TestsKnown(c.tests) /\ Names(c.tests) = Names(c0.tests)
  BY <1>1, <1>2, LikeKnown DEF Listing
<1>5. /\ TestsLike(c.tests, at) /\ \A i \in DOMAIN c.tests : at[i].reseed = c.tests[i].reseed
      /\ SameModes(c.tests, at)
  BY <1>4, OptionsAdded
<1>15. TestsLike(c0.builds, added.modes)
  <2>1. Named(c.builds) /\ TestsLike(c0.builds, c.builds)
    BY <1>1, <1>2, LikeNamed DEF Listing
  <2>2. TestsLike(c.builds, added.modes)
    BY <2>1, ModesGiven
  <2>3. QED BY <2>1, <2>2, LikeTwice
<1>6. new = [c EXCEPT !.stage = "listed", !.builds = added.modes, !.tests = tests, !.buildList = buildList]
  BY <1>3 DEF WithGlobals
<1> HIDE DEF added, at, new
<1>7. TestsKnown(at) /\ Names(at) = Names(c.tests) /\ \A name : Find(name, at) = Find(name, c.tests)
  BY <1>4, <1>5, LikeKnown
<1>8. IsSeq(c.runList) /\ ToSet(c.runList) \subseteq Names(c.tests)
  BY <1>2, <1>4 DEF Listing
<1>9. Numbered(at, ToSet(c.runList))
  <2>1. \A n \in ToSet(c.runList) : Find(n, c.tests) \in DOMAIN c.tests
    BY <1>4, <1>8, FindIs DEF TestsKnown
  <2>2. QED BY <1>3, <1>5, <1>7, <1>8, <2>1 DEF Numbered, TestOf
<1>10. TestsLike(at, tests) /\ SameModes(at, tests) /\ ReseedKnown(tests, ToSet(c.runList))
  BY <1>7, <1>8, <1>9, ReseedAll
<1> HIDE DEF tests, buildList
<1>11. TestsLike(c0.tests, tests) /\ SameModes(c0.tests, tests)
  <2>1. TestsLike(c0.tests, at) /\ SameModes(c0.tests, at)
    BY <1>2, <1>5, LikeTwice DEF Listing, SameModes, TestsLike
  <2>2. QED BY <1>10, <2>1, LikeTwice DEF SameModes, TestsLike
<1>12. /\ DOMAIN new = DOMAIN c0 /\ new.stage = "listed" /\ new.tests = tests /\ new.buildList = buildList
       /\ new.builds = added.modes
       /\ \A k \in {"name", "variant", "scratch", "buildPass", "runPass", "regrs", "jobs", "runList"} : new[k] = c[k]
  BY <1>1, <1>2, <1>6 DEF Listing, Fields
<1>13. \A k \in {"name", "variant", "scratch", "buildPass", "runPass", "regrs", "jobs"} : new[k] = c0[k]
  BY <1>2, <1>12 DEF Listing
<1>14. SameModes(c0.tests, c.tests) /\ TestsLike(c0.tests, c.tests)
  BY <1>2 DEF Listing
<1>16. QED BY <1>4, <1>8, <1>10, <1>11, <1>12, <1>13, <1>14, <1>15 DEF new, c, buildList

LEMMA ListedKnown ==
  ASSUME NEW c0, CfgKnown(c0), c0.stage = "created", ArgsRead(args), Listed(c0) # Exit
  PROVE  CfgKnown(Listed(c0))
<1> DEFINE c == WithTests(WithRegressions(c0))
           list == c.runList
           modes == [i \in DOMAIN list |-> TestOf(c, list[i]).mode]
           new == Listed(c0)
<1>1. /\ Fields \subseteq DOMAIN c0 /\ TestsKnown(c0.tests) /\ c0.jobs = <<>> /\ ModesKnown(c0)
      /\ (c0.buildPass = None \/ IsSeq(c0.buildPass)) /\ (c0.runPass = None \/ IsSeq(c0.runPass))
  BY DEF CfgKnown, AtStageKnown
<1>2. /\ DOMAIN new = DOMAIN c0 /\ new.stage = "listed"
      /\ \A k \in {"name", "variant", "buildPass", "runPass", "regrs", "jobs"} : new[k] = c0[k]
      /\ TestsLike(c0.tests, new.tests) /\ ReseedKnown(new.tests, ToSet(new.runList))
      /\ SameModes(c0.tests, new.tests) /\ SameModes(c0.tests, c.tests)
      /\ TestsLike(c0.tests, c.tests) /\ TestsLike(c0.builds, new.builds)
      /\ new.runList = list /\ IsSeq(list) /\ ToSet(list) \subseteq Names(c0.tests)
      /\ new.buildList = Firsts(modes)
  BY ListedIs
<1> HIDE DEF new, c
<1>3. /\ TestsKnown(new.tests) /\ Names(new.tests) = Names(c0.tests)
      /\ Named(new.builds) /\ Names(new.builds) = Names(c0.builds)
  BY <1>1, <1>2, LikeKnown, LikeNamed DEF ModesKnown
<1>4. ASSUME NEW name \in ToSet(list)
      PROVE  TestOf(c, name).mode = TestOf(new, name).mode /\ TestOf(c, name).mode \in Names(new.builds)
  <2>1. Find(name, c0.tests) \in DOMAIN c0.tests
    BY <1>1, <1>2, FindIs DEF TestsKnown
  <2>2. Find(name, c.tests) = Find(name, c0.tests) /\ Find(name, new.tests) = Find(name, c0.tests)
    BY <1>1, <1>2, LikeKnown
  <2>3. QED BY <1>1, <1>2, <1>3, <2>1, <2>2 DEF TestOf, SameModes, ModesKnown
<1>5. /\ IsSeq(new.buildList) /\ OnceEach(new.buildList)
      /\ ToSet(new.buildList) = {TestOf(c, name).mode : name \in ToSet(list)}
  <2>1. IsSeq(list)
    BY <1>2
  <2> HIDE DEF list
  <2>2. /\ Len(list) \in Nat /\ modes = [i \in 1..Len(list) |-> modes[i]] /\ DOMAIN list = 1..Len(list)
        /\ ToSet(list) = {list[i] : i \in 1..Len(list)} /\ \A i \in 1..Len(list) : modes[i] = TestOf(c, list[i]).mode
    BY <2>1, SeqIs
  <2> HIDE DEF modes
  <2>3. IsSeq(modes) /\ ToSet(modes) = {modes[i] : i \in 1..Len(list)}
    BY <2>2, SeqMade
  <2>4. QED BY <1>2, <2>2, <2>3, FirstsIs
<1> HIDE DEF list, modes
<1>6. ListsKnown(new)
  <2>1. IsSeq(new.runList) /\ ToSet(new.runList) \subseteq Names(new.tests)
    BY <1>2, <1>3
  <2>2. ToSet(new.buildList) \subseteq Names(new.builds)
    BY <1>4, <1>5
  <2>3. \A name \in ToSet(new.runList) :
          TestOf(new, name).reseed \in Nat \ {0} /\ TestOf(new, name).mode \in ToSet(new.buildList)
    BY <1>2, <1>4, <1>5 DEF ReseedKnown, TestOf
  <2>4. \A m \in ToSet(new.buildList) : \E name \in ToSet(new.runList) : TestOf(new, name).mode = m
    BY <1>2, <1>4, <1>5
  <2>5. QED BY <1>5, <2>1, <2>2, <2>3, <2>4 DEF ListsKnown
<1>7. AtStageKnown(new)
  BY <1>1, <1>2, <1>3, <1>6 DEF AtStageKnown
<1>8. QED BY <1>1, <1>2, <1>7 DEF CfgKnown, new

-----------------------------------------------------------------------------
(* The jobs.                                                               *)
LEMMA OwnJobsMade ==
  ASSUME NEW c, NEW n \in Nat, NEW s, s = [k \in 1..n |-> s[k]], \A k \in 1..n : OwnJob(c, s[k])
  PROVE  OwnJobs(c, s)
BY SeqMade DEF OwnJobs

LEMMA OwnJobsJoined ==
  ASSUME NEW c, NEW s, OwnJobs(c, s), NEW t, OwnJobs(c, t)
  PROVE  OwnJobs(c, s \o t)
BY SeqJoined DEF OwnJobs

LEMMA OwnJobsFew ==
  ASSUME NEW c, NEW i, OwnJob(c, i), NEW j, OwnJob(c, j)
  PROVE  OwnJobs(c, <<>>) /\ OwnJobs(c, <<i>>) /\ OwnJobs(c, <<i, j>>)
<1>1. ASSUME NEW S, \A e \in S : OwnJob(c, e), NEW s \in Seq(S) PROVE OwnJobs(c, s)
  <2>1. IsSeq(s) /\ ToSet(s) \subseteq S
    BY SeqElements
  <2>2. QED BY <1>1, <2>1 DEF OwnJobs
<1> DEFINE S == {i, j}
<1>2. <<>> \in Seq(S) /\ <<i>> \in Seq(S) /\ <<i, j>> \in Seq(S)
  OBVIOUS
<1>3. \A e \in S : OwnJob(c, e)
  OBVIOUS
<1> HIDE DEF S
<1>4. QED BY <1>1, <1>2, <1>3

LEMMA OwnOf ==
  ASSUME NEW c, NEW a, NEW target, NEW qual
  PROVE  /\ {"block", "pass"} \subseteq DOMAIN JobSpec(c, a, target, qual)
         /\ OwnJob(c, JobSpec(c, a, target, qual))
<1>1. IsSeq(<<>>)
  BY DEF IsSeq, ToSet
<1>2. QED BY <1>1 DEF JobSpec, OwnJob

LEMMA CoverageOwn ==
  ASSUME NEW c, NEW runs
  PROVE  OwnJobs(c, CoverageJobs(c, runs))
<1> DEFINE merge == CovMerge(c, args, runs)
           report == CovReport(c, args, merge)
           plan == CovVPlan(c, args, report)
<1>1. OwnJob(c, merge) /\ OwnJob(c, report) /\ OwnJob(c, plan)
  BY OwnOf DEF CovMerge, CovReport, CovVPlan, OwnJob
<1>2. CoverageJobs(c, runs) \in {<<>>, <<merge>> \o <<report>>, <<merge>> \o <<report, plan>>}
  BY DEF CoverageJobs
<1> HIDE DEF merge, report, plan
<1>3. OwnJobs(c, <<>>) /\ OwnJobs(c, <<merge>>) /\ OwnJobs(c, <<report>>) /\ OwnJobs(c, <<report, plan>>)
  BY <1>1, OwnJobsFew
<1>4. QED BY <1>2, <1>3, OwnJobsJoined

LEMMA BuildsOwn ==
  ASSUME NEW c, IsSeq(c.buildList), IsSeq(c.buildPass)
  PROVE  OwnJobs(c, Builds(c).builds)
<1> DEFINE none == [builds |-> <<>>, use |-> <<>>, primary |-> c.primary]
           seq == [i \in DOMAIN c.buildList |->
                     CompileSim(c, args, c.builds[Find(c.buildList[i], c.builds)])]
           n == Len(c.buildList)
           all == BuildsAdded(none, seq)
<1>1. n \in Nat /\ DOMAIN c.buildList = 1..n
  BY SeqIs
<1>2. \A i \in 1..n : OwnJob(c, seq[i])
  <2>1. ASSUME NEW m PROVE OwnJob(c, CompileSim(c, args, m))
    BY OwnOf DEF CompileSim, OwnJob
  <2>2. QED BY <1>1, <2>1
<1>3. seq = [i \in 1..n |-> seq[i]]
  BY <1>1
<1>4. Builds(c).builds = all.builds
  BY DEF Builds, BuildsAdded
<1> HIDE DEF seq, all, n
<1>5. Len(seq) = n /\ DOMAIN seq = 1..n
  BY <1>1, <1>3, SeqMade
<1>6. PICK r : AddBuildTrace(r, none, seq)
  BY <1>1, <1>5, AddBuildSteps
<1>7. /\ r[0] = none /\ \A k \in 1..n : r[k] = AddBuild(r[k - 1], seq[k])
      /\ BuildsAdded(none, seq) = r[n]
  BY <1>6, <1>5 DEF AddBuildTrace
<1> DEFINE Good(acc) == DOMAIN acc = {"builds", "use", "primary"} /\ OwnJobs(c, acc.builds)
           G == {k \in 0..n : Good(r[k])}
<1>8. 0 \in G
  <2>1. OwnJobs(c, <<>>)
    BY DEF OwnJobs, IsSeq, ToSet
  <2>2. QED BY <1>1, <1>7, <2>1
<1>9. ASSUME NEW k \in 1..n, k - 1 \in G PROVE k \in G
  <2> DEFINE acc == r[k - 1]
             job == seq[k]
             same == SelectInSeq(acc.builds, LAMBDA b : Equivalent(job, b))
  <2>1. k \in 0..n /\ Good(acc) /\ r[k] = AddBuild(acc, job) /\ OwnJob(c, job)
    BY <1>1, <1>2, <1>7, <1>9
  <2>2. CASE same = 0
    <3>1. r[k] = [acc EXCEPT !.builds = Append(@, job), !.use = Put(@, job.name, job.name)]
      BY <2>1, <2>2 DEF AddBuild
    <3> HIDE DEF acc, job, same
    <3>2. DOMAIN r[k] = DOMAIN acc /\ r[k].builds = Append(acc.builds, job)
      BY <2>1, <3>1
    <3>3. OwnJobs(c, Append(acc.builds, job))
      BY <2>1, SeqAppended DEF OwnJobs
    <3>4. QED BY <2>1, <3>2, <3>3
  <2>3. CASE same # 0
    <3>1. \E u, p : r[k] = [acc EXCEPT !.use = u, !.primary = p]
      BY <2>1, <2>3 DEF AddBuild
    <3> HIDE DEF acc, job, same
    <3>2. DOMAIN r[k] = DOMAIN acc /\ r[k].builds = acc.builds
      BY <2>1, <3>1
    <3>3. QED BY <2>1, <3>2
  <2>4. QED BY <2>2, <2>3
<1> HIDE DEF G
<1>10. \A k \in 0..n : k \in G
  BY <1>1, <1>8, <1>9, Climb
<1>11. QED BY <1>1, <1>4, <1>7, <1>10 DEF G, all

LEMMA TaggedIs ==
  ASSUME NEW c, IsSeq(c.runList), \A n \in ToSet(c.runList) : TestOf(c, n).reseed \in Nat
  PROVE  IsSeq(Tagged(c))
<1> DEFINE of(k) == [n \in 1..TestOf(c, c.runList[k]).reseed |->
                       [index |-> n - 1, test |-> TestOf(c, c.runList[k])]]
           seqs == [k \in DOMAIN c.runList |-> of(k)]
           m == Len(c.runList)
<1>1. m \in Nat /\ DOMAIN c.runList = 1..m /\ \A k \in 1..m : c.runList[k] \in ToSet(c.runList)
  BY SeqIs
<1>2. ASSUME NEW k \in 1..m PROVE IsSeq(of(k))
  <2> DEFINE t == TestOf(c, c.runList[k])
             s == of(k)
  <2>1. t.reseed \in Nat
    BY <1>1
  <2>2. s = [n \in 1..t.reseed |-> s[n]]
    OBVIOUS
  <2> HIDE DEF s, t
  <2>3. IsSeq(s)
    BY <2>1, <2>2, SeqMade
  <2>4. QED BY <2>3 DEF s
<1>3. Tagged(c) = FlattenSeq(seqs)
  BY DEF Tagged
<1>4. \A k \in 1..m : seqs[k] = of(k)
  BY <1>1
<1>5. seqs = [k \in 1..m |-> seqs[k]]
  BY <1>1
<1> HIDE DEF seqs, m, of
<1>6. IsSeq(seqs) /\ ToSet(seqs) = {seqs[k] : k \in 1..m}
  BY <1>1, <1>5, SeqMade
<1>7. \A s \in ToSet(seqs) : IsSeq(s)
  BY <1>2, <1>4, <1>6
<1>8. QED BY <1>3, <1>6, <1>7, FlattenIs

LEMMA ByIndexIs ==
  ASSUME NEW tagged, IsSeq(tagged)
  PROVE  IsSeq(ByIndex(tagged)) /\ ToSet(ByIndex(tagged)) \subseteq ToSet(tagged)
<1> DEFINE n == Len(tagged)
           seqs == [i \in 1..n |-> Only(tagged, {r \in ToSet(tagged) : r.index = i - 1})]
<1>1. n \in Nat
  BY SeqIs
<1>2. ByIndex(tagged) = FlattenSeq(seqs)
  BY DEF ByIndex
<1>3. \A i \in 1..n : IsSeq(seqs[i]) /\ ToSet(seqs[i]) \subseteq ToSet(tagged)
  BY OnlyIs
<1>4. seqs = [i \in 1..n |-> seqs[i]]
  OBVIOUS
<1> HIDE DEF seqs, n
<1>5. IsSeq(seqs) /\ ToSet(seqs) = {seqs[i] : i \in 1..n}
  BY <1>1, <1>4, SeqMade
<1>6. \A s \in ToSet(seqs) : IsSeq(s) /\ ToSet(s) \subseteq ToSet(tagged)
  BY <1>3, <1>5
<1>7. IsSeq(FlattenSeq(seqs)) /\ ToSet(FlattenSeq(seqs)) \subseteq UNION {ToSet(s) : s \in ToSet(seqs)}
  BY <1>5, <1>6, FlattenIs
<1>8. QED BY <1>2, <1>6, <1>7

LEMMA RunsOwn ==
  ASSUME NEW c, IsSeq(c.runPass), NEW builds, NEW tagged, IsSeq(tagged)
  PROVE  OwnJobs(c, RunJobs(c, builds, tagged))
<1> DEFINE seeded == [k \in DOMAIN tagged |-> [index |-> tagged[k].index, test |-> tagged[k].test,
                                               seed |-> SeedOf(args, Created + k)]]
           ordered == ByIndex(seeded)
           Job(r) == RunTest(c, args, r.index, r.test, builds[Find(r.test.mode, builds)], r.seed)
           runs == [k \in DOMAIN ordered |-> Job(ordered[k])]
           n == Len(ordered)
<1>1. RunJobs(c, builds, tagged) = runs
  BY DEF RunJobs
<1>2. IsSeq(seeded)
  <2>1. Len(tagged) \in Nat /\ seeded = [k \in 1..Len(tagged) |-> seeded[k]]
    BY SeqIs
  <2> HIDE DEF seeded
  <2>2. QED BY <2>1, SeqMade
<1> HIDE DEF seeded
<1>3. IsSeq(ordered)
  BY <1>2, ByIndexIs
<1> HIDE DEF ordered
<1>4. n \in Nat /\ DOMAIN ordered = 1..n
  BY <1>3, SeqIs
<1>5. \A k \in 1..n : OwnJob(c, runs[k])
  <2>1. ASSUME NEW idx, NEW t, NEW build, NEW seed PROVE OwnJob(c, RunTest(c, args, idx, t, build, seed))
    <3>1. IsSeq(<<>>)
      BY DEF IsSeq, ToSet
    <3>2. QED BY <3>1, OwnOf DEF RunTest, OwnJob
  <2>2. QED BY <1>4, <2>1
<1>6. runs = [k \in 1..n |-> runs[k]]
  BY <1>4
<1> HIDE DEF runs, n
<1>7. QED BY <1>1, <1>4, <1>5, <1>6, OwnJobsMade

LEMMA FirstOwn ==
  ASSUME NEW c, NEW runs, OwnJobs(c, runs)
  PROVE  OwnJobs(c, SubSeq(runs, 1, Min({1, Len(runs)})))
<1> DEFINE S == ToSet(runs)
           n == Min({1, Len(runs)})
<1>1. runs \in Seq(S) /\ Len(runs) \in Nat
  BY SeqIs DEF OwnJobs, IsSeq
<1>2. n \in Nat /\ n <= Len(runs)
  <2>1. CASE Len(runs) = 0
    <3>1. {1, Len(runs)} = {0, 1}
      BY <2>1
    <3>2. Min({0, 1}) = 0
      BY DEF Min
    <3>3. n = 0
      BY <3>1, <3>2
    <3>4. QED BY <2>1, <3>3
  <2>2. CASE Len(runs) # 0
    <3>1. n \in {1, Len(runs)} /\ n <= 1
      BY <1>1, <2>2 DEF Min
    <3>2. QED BY <1>1, <2>2, <3>1
  <2>3. QED BY <2>1, <2>2
<1> HIDE DEF n
<1>3. SubSeq(runs, 1, n) \in Seq(S)
  BY <1>1, <1>2
<1>4. IsSeq(SubSeq(runs, 1, n)) /\ ToSet(SubSeq(runs, 1, n)) \subseteq S
  BY <1>3, SeqElements
<1>5. QED BY <1>4 DEF OwnJobs, n

(* _create_deploy_objects().                                               *)
LEMMA DeployedKnown ==
  ASSUME NEW c0, CfgKnown(c0), c0.stage = "listed", Deployed(c0, Builds(c0)) # Exit
  PROVE  CfgKnown(Deployed(c0, Builds(c0)))
<1> DEFINE all == Builds(c0)
           Using(t) == IF Contains(c0.runList, t.name) THEN [t EXCEPT !.mode = all.use[@]] ELSE t
           tests == [i \in DOMAIN c0.tests |-> Using(c0.tests[i])]
           c == [c0 EXCEPT !.primary = all.primary, !.tests = tests]
           ran == RunJobs(c, all.builds, Tagged(c))
           runs == IF args.buildOnly THEN <<>>
                   ELSE IF args.gui THEN SubSeq(ran, 1, Min({1, Len(ran)})) ELSE ran
           own == (IF args.runOnly THEN <<>> ELSE all.builds) \o runs \o CoverageJobs(c, runs)
           new == Deployed(c0, all)
<1>1. /\ Fields \subseteq DOMAIN c0 /\ TestsKnown(c0.tests) /\ ListsKnown(c0)
      /\ (c0.buildPass = None \/ IsSeq(c0.buildPass)) /\ (c0.runPass = None \/ IsSeq(c0.runPass))
  BY DEF CfgKnown, AtStageKnown
<1>2. /\ c.buildPass # None /\ (args.buildOnly \/ c.runPass # None)
      /\ new = [c EXCEPT !.stage = "deployed", !.jobs = own]
  BY DEF Deployed
<1> HIDE DEF all, new
<1>3. /\ DOMAIN c = DOMAIN c0 /\ c.tests = tests
      /\ \A k \in {"name", "variant", "buildPass", "runPass", "runList"} : c[k] = c0[k]
  BY <1>1 DEF Fields
<1>4. TestsLike(c0.tests, tests) /\ \A i \in DOMAIN c0.tests : tests[i].reseed = c0.tests[i].reseed
  <2>1. \A i \in DOMAIN c0.tests : {"name", "reseed"} \subseteq DOMAIN c0.tests[i]
    BY <1>1 DEF TestsKnown, TestKeys, ToSet
  <2>2. \A i \in DOMAIN c0.tests : /\ DOMAIN tests[i] = DOMAIN c0.tests[i] /\ tests[i].name = c0.tests[i].name
                                   /\ tests[i].reseed = c0.tests[i].reseed
    BY <2>1
  <2>3. tests = [i \in DOMAIN c0.tests |-> tests[i]]
    OBVIOUS
  <2> HIDE DEF tests
  <2>4. QED BY <1>1, <2>2, <2>3, LikeMade DEF TestsKnown
<1> HIDE DEF c, tests
<1>5. TestsKnown(tests) /\ Names(tests) = Names(c0.tests) /\ \A name : Find(name, tests) = Find(name, c0.tests)
  BY <1>1, <1>4, LikeKnown
<1>6. IsSeq(c.runList) /\ \A n \in ToSet(c.runList) : TestOf(c, n).reseed \in Nat
  <2>1. \A n \in ToSet(c0.runList) : Find(n, c0.tests) \in DOMAIN c0.tests /\ c0.tests[Find(n, c0.tests)].reseed \in Nat
    BY <1>1, FindIs DEF ListsKnown, TestsKnown, TestOf
  <2>2. QED BY <1>1, <1>3, <1>4, <1>5, <2>1 DEF ListsKnown, TestOf
<1>7. OwnJobs(c, all.builds)
  <2>1. IsSeq(c0.buildList) /\ IsSeq(c0.buildPass)
    BY <1>1, <1>2, <1>3 DEF ListsKnown
  <2>2. OwnJobs(c0, all.builds)
    BY <2>1, BuildsOwn DEF all
  <2>3. QED BY <1>3, <2>2 DEF OwnJobs, OwnJob
<1>8. OwnJobs(c, runs)
  <2>1. OwnJobs(c, <<>>)
    BY DEF OwnJobs, IsSeq, ToSet
  <2>2. ASSUME ~args.buildOnly PROVE OwnJobs(c, ran)
    <3>1. IsSeq(c.runPass)
      BY <1>1, <1>2, <1>3, <2>2
    <3>2. QED BY <1>6, <3>1, TaggedIs, RunsOwn
  <2> HIDE DEF ran
  <2>3. QED BY <2>1, <2>2, FirstOwn
<1> HIDE DEF runs
<1>9. OwnJobs(c, own)
  <2>1. OwnJobs(c, <<>>)
    BY DEF OwnJobs, IsSeq, ToSet
  <2> DEFINE built == IF args.runOnly THEN <<>> ELSE all.builds
  <2>2. OwnJobs(c, built)
    BY <1>7, <2>1
  <2>3. own = (built \o runs) \o CoverageJobs(c, runs)
    OBVIOUS
  <2> HIDE DEF built, own
  <2>4. QED BY <1>8, <2>2, <2>3, CoverageOwn, OwnJobsJoined
<1> HIDE DEF own
<1>10. /\ DOMAIN new = DOMAIN c0 /\ new.stage = "deployed" /\ new.jobs = own
       /\ new.name = c.name /\ new.variant = c.variant
       /\ new.buildPass = c0.buildPass /\ new.runPass = c0.runPass
  BY <1>1, <1>2, <1>3 DEF Fields
<1>11. OwnJobs(new, new.jobs)
  BY <1>9, <1>10 DEF OwnJobs, OwnJob
<1>12. QED BY <1>1, <1>10, <1>11 DEF CfgKnown, AtStageKnown, new, all

-----------------------------------------------------------------------------
(* The configurations of an invocation.                                    *)
CfgsKnown ==
  /\ input \in Inputs /\ ArgsRead(args)
  /\ IsSeq(cfgs) /\ \A i \in DOMAIN cfgs : CfgKnown(cfgs[i])

LEMMA CfgsSet ==
  ASSUME CfgsKnown, NEW i \in DOMAIN cfgs, NEW c, c # Exit => CfgKnown(c), Advance(i, c),
         UNCHANGED <<input, args>>
  PROVE  CfgsKnown'
<1>1. CASE UNCHANGED cfgs
  BY <1>1 DEF CfgsKnown, ArgsRead
<1>2. CASE c # Exit /\ cfgs' = [cfgs EXCEPT ![i] = c]
  <2> DEFINE n == Len(cfgs)
  <2>1. n \in Nat /\ DOMAIN cfgs = 1..n
    BY SeqIs DEF CfgsKnown
  <2>2. cfgs' = [k \in 1..n |-> cfgs'[k]] /\ \A k \in 1..n : CfgKnown(cfgs'[k])
    BY <1>2, <2>1 DEF CfgsKnown
  <2>3. IsSeq(cfgs') /\ DOMAIN cfgs' = 1..n
    BY <2>1, <2>2, SeqMade
  <2>4. ArgsRead(args)' /\ input' \in Inputs
    BY DEF CfgsKnown, ArgsRead
  <2>5. QED BY <2>2, <2>3, <2>4 DEF CfgsKnown
<1>3. QED BY <1>1, <1>2 DEF Advance, SetAt

LEMMA CfgsMade ==
  ASSUME CfgsKnown, MakeCfg
  PROVE  CfgsKnown'
<1> DEFINE initial == IF args.tool = None THEN [dvsim_root |-> Scalar("str", "root")]
                      ELSE [dvsim_root |-> Scalar("str", "root"), tool |-> Scalar("str", args.tool)]
           made == MakeCfgs(input.files, args.path, initial, Defaults(args))
           paths == IF input.files[args.path].uses = None THEN <<args.path>>
                    ELSE input.files[args.path].uses
<1>1. /\ UNCHANGED <<input, args>>
      /\ \/ UNCHANGED cfgs
         \/ made # Exit /\ cfgs' = [i \in DOMAIN made |-> Object(made[i], paths[i])]
  BY DEF MakeCfg
<1>2. CASE UNCHANGED cfgs
  BY <1>1, <1>2 DEF CfgsKnown, ArgsRead
<1>3. CASE made # Exit /\ cfgs' = [i \in DOMAIN made |-> Object(made[i], paths[i])]
  <2>1. FilesRead(input.files)
    BY FilesAssumption DEF CfgsKnown, FilesRead
  <2>2. DOMAIN initial \cap Keys = {}
    BY DEF Keys, DictsRead, Patterns
  <2>3. AttrsRead(Defaults(args)) /\ DefaultLists(Defaults(args))
    <3> DEFINE d == Defaults(args)
    <3>1. /\ DOMAIN d \cap Keys = {"build_modes", "run_modes", "tests", "regressions", "overrides"}
          /\ \A k \in {"build_modes", "run_modes", "tests", "regressions", "overrides"} : d[k] = List(<<>>)
          /\ DOMAIN DictsRead = {"build_modes", "run_modes", "tests", "regressions"}
      BY DEF Defaults, Keys, DictsRead, Patterns
    <3> HIDE DEF d
    <3>2. IsList(List(<<>>)) /\ List(<<>>).list = <<>> /\ List(<<>>) # None
      BY NoneIsNoList DEF IsList, List
    <3>3. \A S : <<>> \in Seq(S)
      OBVIOUS
    <3>4. ToSet(<<>>) = {}
      BY DEF ToSet
    <3>5. \A k \in {"build_modes", "run_modes", "tests", "regressions", "overrides"} : AttrRead(k, d[k])
      BY <3>1, <3>2, <3>3, <3>4 DEF AttrRead, ReadAs, OverrideRead, Patterns
    <3>6. AttrsRead(d) /\ DefaultLists(d)
      BY <3>1, <3>2, <3>5 DEF AttrsRead, DefaultLists
    <3>7. QED BY <3>6 DEF d
  <2> DEFINE n == Len(made)
  <2> HIDE DEF initial, made, paths
  <2>4. IsSeq(made) /\ \A v \in ToSet(made) : ConfigRead(v)
    BY <1>3, <2>1, <2>2, <2>3, CfgsRead DEF made
  <2>5. n \in Nat /\ DOMAIN made = 1..n /\ \A i \in 1..n : ConfigRead(made[i])
    BY <2>4, SeqIs
  <2>6. cfgs' = [i \in 1..n |-> cfgs'[i]] /\ \A i \in 1..n : CfgKnown(cfgs'[i])
    <3>1. \A i \in 1..n : CfgKnown(Object(made[i], paths[i]))
      BY <2>5, ObjectKnown
    <3>2. cfgs' = [i \in 1..n |-> Object(made[i], paths[i])]
      BY <1>3, <2>5
    <3>3. QED BY <3>1, <3>2
  <2>7. IsSeq(cfgs') /\ DOMAIN cfgs' = 1..n
    BY <2>5, <2>6, SeqMade
  <2>8. QED BY <1>1, <2>6, <2>7 DEF CfgsKnown, ArgsRead
<1>4. QED BY <1>1, <1>2, <1>3

LEMMA CfgsCovered ==
  ASSUME CfgsKnown, CreateCoverage
  PROVE  CfgsKnown'
<1> DEFINE job(i) == IF args.covUnr THEN CovUnr(cfgs[i], args) ELSE CovAnalyze(cfgs[i], args)
           new(i) == [cfgs[i] EXCEPT !.stage = "deployed", !.jobs = <<job(i)>>]
           n == Len(cfgs)
<1>1. UNCHANGED <<input, args>> /\ (UNCHANGED cfgs \/ cfgs' = [i \in DOMAIN cfgs |-> new(i)])
  BY DEF CreateCoverage
<1>2. CASE UNCHANGED cfgs
  BY <1>1, <1>2 DEF CfgsKnown, ArgsRead
<1>3. CASE cfgs' = [i \in DOMAIN cfgs |-> new(i)]
  <2>1. n \in Nat /\ DOMAIN cfgs = 1..n
    BY SeqIs DEF CfgsKnown
  <2>2. ASSUME NEW i \in 1..n PROVE CfgKnown(new(i))
    <3> DEFINE c == cfgs[i]
               j == job(i)
               x == new(i)
    <3>1. CfgKnown(c)
      BY <2>1 DEF CfgsKnown
    <3>2. OwnJob(c, j)
      BY OwnOf DEF CovUnr, CovAnalyze, OwnJob
    <3>3. x = [c EXCEPT !.stage = "deployed", !.jobs = <<j>>]
      OBVIOUS
    <3> HIDE DEF c, j, new
    <3>4. /\ DOMAIN x = DOMAIN c /\ x.stage = "deployed" /\ x.jobs = <<j>>
          /\ \A k \in {"name", "variant", "buildPass", "runPass"} : x[k] = c[k]
      BY <3>1, <3>3 DEF CfgKnown, Fields
    <3>5. OwnJobs(c, <<j>>)
      BY <3>2, OwnJobsFew
    <3>6. OwnJobs(x, x.jobs)
      BY <3>4, <3>5 DEF OwnJobs, OwnJob
    <3>7. QED BY <3>1, <3>4, <3>6 DEF CfgKnown, AtStageKnown
  <2>3. cfgs' = [i \in 1..n |-> cfgs'[i]] /\ \A i \in 1..n : cfgs'[i] = new(i)
    BY <1>3, <2>1
  <2> HIDE DEF new, n
  <2>4. IsSeq(cfgs') /\ DOMAIN cfgs' = 1..n
    BY <2>1, <2>3, SeqMade
  <2>5. QED BY <1>1, <2>2, <2>3, <2>4 DEF CfgsKnown, ArgsRead
<1>4. QED BY <1>1, <1>2, <1>3

LEMMA CfgsInitially ==
  ASSUME Init
  PROVE  CfgsKnown
<1>1. IsSeq(<<>>) /\ DOMAIN <<>> = {}
  BY DEF IsSeq, ToSet
<1>2. QED BY <1>1, ArgsAssumption DEF Init, CfgsKnown, ArgsRead

LEMMA CfgsStep ==
  ASSUME CfgsKnown, [Next]_vars
  PROVE  CfgsKnown'
<1>1. CASE ParseArgs
  <2>1. /\ args'.times = input.args.times /\ args'.items = input.args.items /\ args'.seeds = input.args.seeds
        /\ args'.reseed \in {1, input.args.reseed} /\ UNCHANGED <<input, cfgs>>
    BY <1>1, ArgsAssumption DEF ParseArgs, CfgsKnown
  <2>2. QED BY <2>1, ArgsAssumption DEF CfgsKnown, ArgsRead
<1>2. CASE MakeCfg
  BY <1>2, CfgsMade
<1>3. CASE CreateCoverage
  BY <1>3, CfgsCovered
<1>4. ASSUME NEW i \in DOMAIN cfgs, CreateObjects(i) PROVE CfgsKnown'
  <2>1. PICK known : Advance(i, IF Selected(cfgs[i]) THEN Objects(cfgs[i], known)
                                ELSE [cfgs[i] EXCEPT !.stage = "skipped"])
    BY <1>4 DEF CreateObjects
  <2>2. cfgs[i].stage = "new" /\ CfgKnown(cfgs[i]) /\ UNCHANGED <<input, args>>
    BY <1>4 DEF CreateObjects, NextAt, AtStage, CfgsKnown
  <2>3. CfgKnown([cfgs[i] EXCEPT !.stage = "skipped"])
    BY <2>2 DEF CfgKnown, AtStageKnown, Fields
  <2>4. Objects(cfgs[i], known) # Exit => CfgKnown(Objects(cfgs[i], known))
    BY <2>2, ObjectsKnown
  <2>5. QED BY <2>1, <2>2, <2>3, <2>4, CfgsSet
<1>5. ASSUME NEW i \in DOMAIN cfgs, CreateLists(i) PROVE CfgsKnown'
  <2>1. /\ Advance(i, Listed(cfgs[i])) /\ UNCHANGED <<input, args>> /\ cfgs[i].stage = "created"
        /\ CfgKnown(cfgs[i]) /\ ArgsRead(args)
    BY <1>5 DEF CreateLists, NextAt, AtStage, CfgsKnown
  <2>2. QED BY <2>1, ListedKnown, CfgsSet
<1>6. ASSUME NEW i \in DOMAIN cfgs, CreateDeploy(i) PROVE CfgsKnown'
  <2>1. /\ Advance(i, Deployed(cfgs[i], Builds(cfgs[i]))) /\ UNCHANGED <<input, args>>
        /\ cfgs[i].stage = "listed" /\ CfgKnown(cfgs[i])
    BY <1>6 DEF CreateDeploy, AtStage, CfgsKnown
  <2>2. QED BY <2>1, DeployedKnown, CfgsSet
<1>7. CASE \/ Choose \/ DeployObjects \/ GenResults \/ UNCHANGED vars
           \/ \E j \in ToSet(jobs), log \in input.logs : RunJob(j, log) \/ LoseJob(j, log)
  BY <1>7 DEF Choose, DeployObjects, GenResults, RunJob, LoseJob, vars, CfgsKnown, ArgsRead
<1>8. QED BY <1>1, <1>2, <1>3, <1>4, <1>5, <1>6, <1>7 DEF Next

LEMMA JobsKnownAreTheirs ==
  ASSUME CfgsKnown
  PROVE  JobsOfConfigs
<1>1. ASSUME NEW i \in DOMAIN cfgs
      PROVE  /\ cfgs[i].jobs \in Seq(Jobs)
             /\ cfgs[i].jobs # <<>> => cfgs[i].stage = "deployed"
             /\ \A j \in ToSet(cfgs[i].jobs) :
                  j.block = <<cfgs[i].name, cfgs[i].variant>> /\ j.pass \in Seq(ToSet(j.pass))
  <2> DEFINE c == cfgs[i]
  <2>1. CfgKnown(c)
    BY DEF CfgsKnown
  <2>2. ToSet(c.jobs) \subseteq Jobs
    BY DEF Jobs
  <2> HIDE DEF c
  <2>3. OwnJobs(c, <<>>)
    BY DEF OwnJobs, IsSeq, ToSet
  <2>4. OwnJobs(c, c.jobs) /\ (c.jobs # <<>> => c.stage = "deployed")
    BY <2>1, <2>3 DEF CfgKnown, AtStageKnown
  <2>5. c.jobs \in Seq(ToSet(c.jobs)) /\ \A j \in ToSet(c.jobs) : OwnJob(c, j)
    BY <2>4 DEF OwnJobs, IsSeq
  <2>6. c.jobs \in Seq(Jobs)
    BY <2>2, <2>5
  <2>7. QED BY <2>4, <2>5, <2>6 DEF OwnJob, IsSeq, c
<1>2. QED BY <1>1 DEF JobsOfConfigs, CfgsKnown, IsSeq

(* The jobs of a configuration are made when its objects are (flow.py:400,  *)
(* deploy.py:123-158): each carries the configuration's name and variant,    *)
(* which is what its result is counted under (cli/run.py's gen_results()),   *)
(* and its pass patterns are a list, for any files that can be read.        *)
THEOREM JobsAreTheirs == Spec => []JobsOfConfigs
<1>1. Spec => []CfgsKnown
  BY CfgsInitially, CfgsStep, PTL DEF Spec
<1>2. QED BY <1>1, JobsKnownAreTheirs, PTL

-----------------------------------------------------------------------------
(* What is asked for.  A test that two patterns of --items hit is in the    *)
(* list twice: no test of a configuration is.                              *)
HitsApart(names) ==
  \A p, q \in DOMAIN args.items : p # q => ToSet(names) \cap args.items[p] \cap args.items[q] = {}
Apart(c) == \A p, q \in DOMAIN args.items : p # q => Names(c.tests) \cap args.items[p] \cap args.items[q] = {}

LEMMA NamesOnce ==
  ASSUME NEW ms, IsSeq(ms), OncePerName(ms)
  PROVE  OnceEach(NamesOf(ms))
<1>1. DOMAIN NamesOf(ms) = DOMAIN ms /\ \A i \in DOMAIN ms : NamesOf(ms)[i] = ms[i].name
  BY DEF NamesOf
<1>2. QED BY <1>1 DEF OnceEach, OncePerName

LEMMA HitsAre ==
  ASSUME NEW names, IsSeq(names), ArgsRead(args)
  PROVE  /\ IsSeq(Hits(names))
         /\ \A e : e \in ToSet(Hits(names)) <=> e \in ToSet(names) /\ \E p \in DOMAIN args.items : e \in args.items[p]
         /\ OnceEach(names) /\ HitsApart(names) => OnceEach(Hits(names))
<1> DEFINE seqs == [p \in DOMAIN args.items |-> Only(names, args.items[p])]
           n == Len(args.items)
<1>1. n \in Nat /\ DOMAIN args.items = 1..n
  BY DEF ArgsRead
<1> HIDE DEF n
<1>2. seqs = [p \in 1..n |-> seqs[p]]
  BY <1>1
<1>3. \A p \in 1..n : /\ seqs[p] = Only(names, args.items[p]) /\ IsSeq(seqs[p])
                      /\ ToSet(seqs[p]) = ToSet(names) \cap args.items[p]
  BY <1>1, OnlyIs
<1>4. Hits(names) = FlattenSeq(seqs)
  BY DEF Hits
<1> HIDE DEF seqs
<1>5. IsSeq(seqs) /\ DOMAIN seqs = 1..n
  BY <1>1, <1>2, SeqMade
<1>6. IsSeq(FlattenSeq(seqs))
  BY <1>3, <1>5, FlattenBlocks
<1>7. ASSUME NEW e
      PROVE  e \in ToSet(Hits(names)) <=> e \in ToSet(names) /\ \E p \in DOMAIN args.items : e \in args.items[p]
  <2>1. e \in ToSet(FlattenSeq(seqs)) <=> \E p \in 1..n : e \in ToSet(seqs[p])
    BY <1>3, <1>5, FlattenHas DEF InSome
  <2>2. QED BY <1>1, <1>3, <1>4, <2>1
<1>8. ASSUME OnceEach(names), HitsApart(names) PROVE OnceEach(Hits(names))
  <2>1. \A p \in 1..n : OnceEach(seqs[p])
    BY <1>3, <1>8, PicksOnce
  <2>2. \A p, q \in 1..n : p # q => ToSet(seqs[p]) \cap ToSet(seqs[q]) = {}
    BY <1>1, <1>3, <1>8 DEF HitsApart
  <2>3. QED BY <1>3, <1>4, <1>5, <2>1, <2>2, FlattenOnce
<1>9. QED BY <1>4, <1>6, <1>7, <1>8

(* The regressions hit so far: those that are alone are in the list, and    *)
(* nothing else than tests of some of them, each once.                     *)
Chosen(c, x, done) ==
  /\ OnceEach(x.runList)
  /\ \A e \in ToSet(x.runList) : \E q \in done : e \in ToSet(q.tests)
  /\ \A r \in done : r \in Alone(c) => ToSet(r.tests) \subseteq ToSet(x.runList)

LEMMA RegressionChosen ==
  ASSUME NEW c, NEW x, "runList" \in DOMAIN x, IsSeq(x.runList),
         NEW done \in SUBSET Asked(c), Chosen(c, x, done),
         NEW r \in Asked(c), IsSeq(r.tests), OnceEach(r.tests)
  PROVE  Chosen(c, AddRegression(x, r), done \cup {r})
<1> DEFINE new == AddRegression(x, r)
<1>1. CASE ToSet(r.tests) \cap ToSet(x.runList) # {}
  <2>1. new = x
    BY <1>1 DEF AddRegression
  <2>2. PICK e \in ToSet(x.runList) : e \in ToSet(r.tests)
    BY <1>1
  <2>3. PICK q \in done : e \in ToSet(q.tests)
    BY <2>2 DEF Chosen
  <2>4. r \in Alone(c) => q = r
    BY <2>2, <2>3 DEF Alone
  <2>5. r \in Alone(c) => ToSet(r.tests) \subseteq ToSet(x.runList)
    BY <2>3, <2>4 DEF Chosen
  <2> HIDE DEF new
  <2>6. QED BY <2>1, <2>5 DEF Chosen, new
<1>2. CASE ToSet(r.tests) \cap ToSet(x.runList) = {}
  <2>1. \E t, b : new = [x EXCEPT !.runList = @ \o r.tests, !.tests = t, !.builds = b]
    BY <1>2 DEF AddRegression
  <2> HIDE DEF new
  <2>2. new.runList = x.runList \o r.tests
    BY <2>1
  <2>3. ToSet(new.runList) = ToSet(x.runList) \cup ToSet(r.tests)
    BY <2>2, SeqJoined
  <2>4. OnceEach(new.runList)
    BY <1>2, <2>2, JoinedOnce DEF Chosen
  <2>5. \A e \in ToSet(new.runList) : \E q \in done \cup {r} : e \in ToSet(q.tests)
    BY <2>3 DEF Chosen
  <2>6. \A q \in done \cup {r} : q \in Alone(c) => ToSet(q.tests) \subseteq ToSet(new.runList)
    BY <2>3 DEF Chosen
  <2>7. QED BY <2>4, <2>5, <2>6 DEF Chosen, new
<1>3. QED BY <1>1, <1>2

LEMMA RegressionsChosen ==
  ASSUME NEW c, CfgKnown(c), c.stage = "created", ArgsRead(args)
  PROVE  Chosen(c, WithRegressions(c), Asked(c))
<1> DEFINE hits == Hits(NamesOf(c.regrs))
           seq == [k \in DOMAIN hits |-> c.regrs[Find(hits[k], c.regrs)]]
           n == Len(hits)
<1>1. /\ Fields \subseteq DOMAIN c /\ c.jobs = <<>> /\ c.runList = <<>>
      /\ TestsKnown(c.tests) /\ RegressionsKnown(c) /\ Named(c.builds)
  BY DEF CfgKnown, AtStageKnown, ModesKnown
<1>2. /\ IsSeq(c.regrs) /\ OncePerName(c.regrs)
      /\ \A r \in ToSet(c.regrs) : IsSeq(r.tests) /\ OnceEach(r.tests) /\ ToSet(r.tests) \subseteq Names(c.tests)
  BY <1>1 DEF RegressionsKnown, TestedBy
<1>3. IsSeq(hits) /\ \A e : e \in ToSet(hits) <=> e \in Names(c.regrs) /\ \E p \in DOMAIN args.items : e \in args.items[p]
  BY <1>2, NamesListed, HitsAre
<1>4. WithRegressions(c) = RegressionsAdded(c, seq)
  BY DEF WithRegressions, RegressionsAdded
<1> HIDE DEF hits
<1>5. n \in Nat /\ DOMAIN hits = 1..n /\ ToSet(hits) = {hits[k] : k \in 1..n}
  BY <1>3, SeqIs
<1>6. \A k \in 1..n : seq[k] \in Asked(c) /\ seq[k].name = hits[k]
  <2>1. ASSUME NEW k \in 1..n PROVE seq[k] \in Asked(c) /\ seq[k].name = hits[k]
    <3>1. hits[k] \in Names(c.regrs) /\ \E p \in DOMAIN args.items : hits[k] \in args.items[p]
      BY <1>3, <1>5
    <3>2. seq[k] \in ToSet(c.regrs) /\ seq[k].name = hits[k]
      BY <1>2, <1>5, <3>1, FindIs
    <3>3. QED BY <3>1, <3>2 DEF Asked
  <2>2. QED BY <2>1
<1>7. seq = [k \in 1..n |-> seq[k]]
  BY <1>5
<1> HIDE DEF seq, n
<1>8. Len(seq) = n /\ DOMAIN seq = 1..n
  BY <1>5, <1>7, SeqMade
<1>9. PICK x : AddRegressionTrace(x, c, seq)
  BY <1>5, <1>8, AddRegressionSteps
<1>10. /\ x[0] = c /\ \A k \in 1..n : x[k] = AddRegression(x[k - 1], seq[k])
       /\ RegressionsAdded(c, seq) = x[n]
  BY <1>9, <1>8 DEF AddRegressionTrace
<1> DEFINE done(k) == {seq[i] : i \in 1..k}
           Good(k) == Listing(c, x[k]) /\ Chosen(c, x[k], done(k))
           G == {k \in 0..n : Good(k)}
<1>12. 0 \in G
  <2>1. /\ TestsLike(c.tests, c.tests) /\ SameModes(c.tests, c.tests) /\ TestsLike(c.builds, c.builds)
        /\ IsSeq(<<>>) /\ ToSet(<<>>) = {} /\ OnceEach(<<>>)
    BY <1>1 DEF TestsLike, TestsKnown, SameModes, Named, IsSeq, ToSet, OnceEach
  <2>2. Listing(c, c)
    BY <1>1, <2>1 DEF Listing
  <2>3. done(0) = {}
    BY InitialParts
  <2> HIDE DEF done
  <2>4. Chosen(c, c, done(0))
    BY <1>1, <2>1, <2>3 DEF Chosen
  <2>5. QED BY <1>5, <1>10, <2>2, <2>4
<1>13. ASSUME NEW k \in 1..n, k - 1 \in G PROVE k \in G
  <2>1. k \in 0..n /\ Good(k - 1) /\ x[k] = AddRegression(x[k - 1], seq[k]) /\ seq[k] \in Asked(c)
    BY <1>5, <1>6, <1>10, <1>13
  <2>2. IsSeq(seq[k].tests) /\ OnceEach(seq[k].tests) /\ ToSet(seq[k].tests) \subseteq Names(c.tests)
    BY <1>2, <2>1 DEF Asked
  <2>3. Listing(c, x[k])
    BY <1>1, <2>1, <2>2, RegressionListed
  <2>4. done(k) = done(k - 1) \cup {seq[k]} /\ done(k - 1) \in SUBSET Asked(c)
    <3>1. \A i \in 1..k : i = k \/ i \in 1..k - 1
      BY <1>5
    <3>2. k \in 1..k /\ \A i \in 1..k - 1 : i \in 1..k /\ i \in 1..n
      BY <1>5
    <3>3. QED BY <1>6, <3>1, <3>2
  <2> HIDE DEF done
  <2> DEFINE y == x[k - 1]
             r == seq[k]
             d == done(k - 1)
  <2>5. /\ Fields \subseteq DOMAIN y /\ IsSeq(y.runList) /\ Chosen(c, y, d)
        /\ d \in SUBSET Asked(c) /\ r \in Asked(c) /\ IsSeq(r.tests) /\ OnceEach(r.tests)
    BY <1>1, <2>1, <2>2, <2>4 DEF Listing
  <2>6. DOMAIN x[k] = DOMAIN y
    BY <2>1, <2>3 DEF Listing
  <2> HIDE DEF y, r, d
  <2>7. Chosen(c, AddRegression(y, r), d \cup {r})
    BY <2>5, RegressionChosen DEF Fields
  <2>8. Good(k)
    BY <2>1, <2>3, <2>4, <2>5, <2>6, <2>7 DEF y, r, d
  <2> HIDE DEF Good
  <2>9. QED BY <2>1, <2>8
<1> HIDE DEF G
<1>14. n \in G
  <2>1. \A k \in 0..n : k \in G
    BY <1>5, <1>12, <1>13, Climb
  <2>2. QED BY <1>5, <2>1
<1>15. done(n) = Asked(c)
  <2>1. ASSUME NEW r \in Asked(c) PROVE \E k \in 1..n : r = seq[k]
    <3>1. r \in ToSet(c.regrs) /\ \E p \in DOMAIN args.items : r.name \in args.items[p]
      BY DEF Asked
    <3>2. r.name \in Names(c.regrs)
      BY <3>1 DEF Names, ToSet
    <3>3. r.name \in ToSet(hits)
      BY <1>3, <3>1, <3>2
    <3>4. PICK k \in 1..n : hits[k] = r.name
      BY <1>5, <3>3
    <3>5. seq[k].name = r.name /\ seq[k] \in ToSet(c.regrs)
      BY <1>6, <3>4 DEF Asked
    <3>6. seq[k] = r
      BY <1>2, <3>1, <3>5 DEF OncePerName, ToSet
    <3>7. QED BY <3>6
  <2>2. QED BY <1>6, <2>1
<1> HIDE DEF done
<1>16. Chosen(c, x[n], Asked(c))
  BY <1>14, <1>15 DEF G
<1>17. QED BY <1>4, <1>10, <1>16

(* What a list has if it is what was asked for: what is hit, and the tests   *)
(* of the regressions that are hit, unless another one had one of them.      *)
Hit(e) == \E p \in DOMAIN args.items : e \in args.items[p]
Requested(c) ==
  /\ \A e \in Names(c.tests) : Hit(e) => e \in ToSet(c.runList)
  /\ \A r \in Alone(c) : ToSet(r.tests) \subseteq ToSet(c.runList)
  /\ \A e \in ToSet(c.runList) : (e \in Names(c.tests) /\ Hit(e)) \/ \E q \in Asked(c) : e \in ToSet(q.tests)
  /\ Apart(c) => OnceEach(c.runList)

LEMMA ListedRequested ==
  ASSUME NEW c0, CfgKnown(c0), c0.stage = "created", ArgsRead(args), Listed(c0) # Exit
  PROVE  Requested(Listed(c0))
<1> DEFINE w == WithRegressions(c0)
           rest == Only(NamesOf(w.tests), Names(w.tests) \ ToSet(w.runList))
           list == WithTests(w).runList
           new == Listed(c0)
<1>1. Fields \subseteq DOMAIN c0 /\ TestsKnown(c0.tests)
  BY DEF CfgKnown, AtStageKnown
<1>2. Listing(c0, w) /\ Chosen(c0, w, Asked(c0))
  BY RegressionsListed, RegressionsChosen
<1>3. /\ new.regrs = c0.regrs /\ TestsLike(c0.tests, new.tests) /\ new.runList = list
  BY ListedIs
<1> HIDE DEF w, new
<1>4. list = w.runList \o Hits(rest)
  <2>1. WithTests(w) = [w EXCEPT !.runList = @ \o Hits(rest)]
    BY DEF WithTests
  <2>2. QED BY <1>1, <1>2, <2>1 DEF Listing, Fields
<1>5. /\ TestsKnown(w.tests) /\ Names(w.tests) = Names(c0.tests) /\ Names(new.tests) = Names(c0.tests)
  BY <1>1, <1>2, <1>3, LikeKnown DEF Listing
<1>6. /\ IsSeq(rest) /\ OnceEach(rest) /\ ToSet(rest) = Names(c0.tests) \ ToSet(w.runList)
  <2> DEFINE names == NamesOf(w.tests)
  <2>1. IsSeq(names) /\ ToSet(names) = Names(c0.tests) /\ OnceEach(names)
    BY <1>5, NamesListed, NamesOnce DEF TestsKnown
  <2> HIDE DEF names
  <2>2. QED BY <1>5, <2>1, OnlyIs, PicksOnce DEF names
<1> HIDE DEF rest
<1>7. /\ IsSeq(Hits(rest)) /\ \A e : e \in ToSet(Hits(rest)) <=> e \in ToSet(rest) /\ Hit(e)
      /\ HitsApart(rest) => OnceEach(Hits(rest))
  BY <1>6, HitsAre DEF Hit
<1>8. IsSeq(w.runList) /\ ToSet(list) = ToSet(w.runList) \cup ToSet(Hits(rest))
  BY <1>2, <1>4, <1>7, SeqJoined DEF Listing
<1>9. Asked(new) = Asked(c0) /\ Alone(new) = Alone(c0) /\ Alone(c0) \subseteq Asked(c0)
  BY <1>3 DEF Asked, Alone
<1>10. Apart(new) => HitsApart(rest)
  BY <1>5, <1>6 DEF Apart, HitsApart
<1>11. Apart(new) => OnceEach(list)
  BY <1>2, <1>4, <1>6, <1>7, <1>8, <1>10, JoinedOnce DEF Chosen
<1> HIDE DEF list
<1>12. \A e \in Names(new.tests) : Hit(e) => e \in ToSet(new.runList)
  BY <1>3, <1>5, <1>6, <1>7, <1>8
<1>13. \A r \in Alone(new) : ToSet(r.tests) \subseteq ToSet(new.runList)
  BY <1>2, <1>3, <1>8, <1>9 DEF Chosen
<1>14. \A e \in ToSet(new.runList) :
         (e \in Names(new.tests) /\ Hit(e)) \/ \E q \in Asked(new) : e \in ToSet(q.tests)
  BY <1>2, <1>3, <1>5, <1>6, <1>7, <1>8, <1>9 DEF Chosen
<1>15. QED BY <1>3, <1>11, <1>12, <1>13, <1>14 DEF Requested, new

(* The runs before they are ordered: of each test as many as it is to run,  *)
(* numbered from 0.                                                        *)
TaggedWell(c, tagged) ==
  /\ IsSeq(tagged)
  /\ \A k \in 1..Len(tagged) :
       /\ \E e \in ToSet(c.runList) : /\ tagged[k].test = TestOf(c, e)
                                      /\ tagged[k].index \in 0..TestOf(c, e).reseed - 1
       /\ tagged[k].index \in 0..Len(tagged) - 1
  /\ \A e \in ToSet(c.runList) : \A i \in 0..TestOf(c, e).reseed - 1 :
       \E k \in 1..Len(tagged) : tagged[k].index = i /\ tagged[k].test = TestOf(c, e)
  /\ OnceEach(c.runList) =>
       \A k, l \in 1..Len(tagged) :
         tagged[k].test.name = tagged[l].test.name /\ tagged[k].index = tagged[l].index => k = l

LEMMA TaggedPlaces ==
  ASSUME NEW c, IsSeq(c.runList),
         \A e \in ToSet(c.runList) : TestOf(c, e).reseed \in Nat /\ TestOf(c, e).name = e
  PROVE  TaggedWell(c, Tagged(c))
<1> DEFINE list == c.runList
           m == Len(list)
           times(k) == TestOf(c, list[k]).reseed
           of(k) == [n \in 1..times(k) |-> [index |-> n - 1, test |-> TestOf(c, list[k])]]
           seqs == [k \in DOMAIN list |-> of(k)]
           tagged == Tagged(c)
           N == Len(tagged)
<1>1. m \in Nat /\ DOMAIN list = 1..m /\ ToSet(list) = {list[k] : k \in 1..m}
  BY SeqIs
<1>2. \A k \in 1..m : times(k) \in Nat /\ TestOf(c, list[k]).name = list[k]
  BY <1>1
<1>3. ASSUME NEW k \in 1..m
      PROVE  /\ seqs[k] = of(k) /\ IsSeq(seqs[k]) /\ Len(seqs[k]) = times(k)
             /\ \A n \in 1..times(k) : seqs[k][n].index = n - 1 /\ seqs[k][n].test = TestOf(c, list[k])
  <2> DEFINE s == of(k)
             r == times(k)
  <2>1. seqs[k] = s /\ r \in Nat
    BY <1>1, <1>2
  <2>2. s = [n \in 1..r |-> s[n]]
    OBVIOUS
  <2>3. \A n \in 1..r : s[n].index = n - 1 /\ s[n].test = TestOf(c, list[k])
    OBVIOUS
  <2> HIDE DEF s, r, seqs
  <2>4. IsSeq(s) /\ Len(s) = r
    BY <2>1, <2>2, SeqMade
  <2>5. QED BY <2>1, <2>3, <2>4 DEF s, r
<1>3a. \A k \in 1..m : IsSeq(seqs[k]) /\ Len(seqs[k]) = times(k) /\ times(k) \in Nat
  BY <1>2, <1>3
<1>3b. \A k \in 1..m : \A n \in 1..times(k) : seqs[k][n].index = n - 1 /\ seqs[k][n].test = TestOf(c, list[k])
  BY <1>3
<1>4. seqs = [k \in 1..m |-> seqs[k]] /\ tagged = FlattenSeq(seqs)
  BY <1>1 DEF Tagged
<1> HIDE DEF seqs, tagged, m, of
<1>5. IsSeq(seqs) /\ DOMAIN seqs = 1..m /\ Len(seqs) = m
  BY <1>1, <1>4, SeqMade
<1>6. IsSeq(tagged) /\ \E b, p : Blocks(b, p, m, seqs, tagged)
  BY <1>3a, <1>4, <1>5, FlattenBlocks
<1>7. PICK b, p : Blocks(b, p, m, seqs, tagged)
  BY <1>6
<1>8. N \in Nat
  BY <1>6, SeqIs
<1> HIDE DEF N, list, times
<1>9. ASSUME NEW x \in 1..N
      PROVE  /\ b[x] \in 1..m /\ p[x] \in 1..times(b[x])
             /\ tagged[x].index = p[x] - 1 /\ tagged[x].test = TestOf(c, list[b[x]])
  <2>1. b[x] \in 1..m /\ p[x] \in Nat \ {0} /\ p[x] <= Len(seqs[b[x]]) /\ tagged[x] = seqs[b[x]][p[x]]
    BY <1>7 DEF Blocks, N
  <2> DEFINE k == b[x]
             n == p[x]
  <2>2. k \in 1..m /\ n \in Nat \ {0} /\ n <= Len(seqs[k]) /\ tagged[x] = seqs[k][n]
    BY <2>1
  <2> HIDE DEF k, n
  <2>3. n \in 1..times(k)
    BY <1>3a, <2>2
  <2>4. QED BY <1>3b, <2>2, <2>3 DEF k, n
<1>10. ASSUME NEW k \in 1..m, NEW n \in 1..times(k) PROVE \E x \in 1..N : b[x] = k /\ p[x] = n
  <2>1. n \in 1..Len(seqs[k])
    BY <1>3a, <1>10
  <2>2. QED BY <1>7, <2>1 DEF Blocks, N
<1>11. \A k \in 1..m : times(k) <= N
  BY <1>3a, <1>7 DEF Blocks, N
<1>12. \A x, y \in 1..N : b[x] = b[y] /\ p[x] = p[y] => x = y
  <2>1. ASSUME NEW x \in 1..N, NEW y \in 1..N, x < y PROVE b[x] # b[y] \/ p[x] # p[y]
    <3>1. b[x] < b[y] \/ (b[x] = b[y] /\ p[x] < p[y])
      BY <1>7, <2>1 DEF Blocks, N
    <3>2. b[x] \in Int /\ b[y] \in Int /\ p[x] \in Int /\ p[y] \in Int
      BY <1>9
    <3>3. QED BY <3>1, <3>2
  <2>2. \A x, y \in 1..N : x < y \/ y < x \/ x = y
    BY <1>8
  <2>3. QED BY <2>1, <2>2
<1>13. ASSUME NEW x \in 1..N
       PROVE  /\ \E e \in ToSet(list) : /\ tagged[x].test = TestOf(c, e)
                                        /\ tagged[x].index \in 0..TestOf(c, e).reseed - 1
              /\ tagged[x].index \in 0..N - 1
  <2> DEFINE k == b[x]
             n == p[x]
  <2>1. /\ k \in 1..m /\ n \in 1..times(k) /\ times(k) \in Nat /\ times(k) <= N
        /\ tagged[x].index = n - 1 /\ tagged[x].test = TestOf(c, list[k])
    BY <1>2, <1>9, <1>11
  <2> HIDE DEF k, n
  <2>2. n - 1 \in 0..times(k) - 1 /\ n - 1 \in 0..N - 1
    BY <1>8, <2>1
  <2>3. QED BY <1>1, <2>1, <2>2 DEF times
<1>14. ASSUME NEW e \in ToSet(list), NEW i \in 0..TestOf(c, e).reseed - 1
       PROVE  \E k \in 1..N : tagged[k].index = i /\ tagged[k].test = TestOf(c, e)
  <2>1. PICK k \in 1..m : e = list[k]
    BY <1>1
  <2>2. i + 1 \in 1..times(k) /\ (i + 1) - 1 = i
    BY <1>2, <1>14, <2>1 DEF times
  <2>3. PICK x \in 1..N : b[x] = k /\ p[x] = i + 1
    BY <1>10, <2>2
  <2>4. QED BY <1>9, <2>1, <2>2, <2>3
<1>15. ASSUME OnceEach(list), NEW x \in 1..N, NEW y \in 1..N,
              tagged[x].test.name = tagged[y].test.name, tagged[x].index = tagged[y].index
       PROVE  x = y
  <2>1. list[b[x]] = list[b[y]]
    BY <1>2, <1>9, <1>15
  <2>2. b[x] = b[y]
    BY <1>1, <1>9, <1>15, <2>1 DEF OnceEach
  <2>3. p[x] = p[y]
    <3>1. p[x] - 1 = p[y] - 1 /\ p[x] \in Int /\ p[y] \in Int
      BY <1>9, <1>15
    <3>2. QED BY <3>1
  <2>4. QED BY <1>12, <2>2, <2>3
<1>16. QED BY <1>6, <1>13, <1>14, <1>15 DEF TaggedWell, list, N, tagged

(* Ordered by index: each run has its place, and an earlier one no larger   *)
(* index.                                                                  *)
Places(at, s, ordered) ==
  /\ IsSeq(ordered) /\ at \in [1..Len(ordered) -> 1..Len(s)]
  /\ \A x \in 1..Len(ordered) : ordered[x] = s[at[x]]
  /\ \A x, y \in 1..Len(ordered) : at[x] = at[y] => x = y
  /\ \A k \in 1..Len(s) : \E x \in 1..Len(ordered) : s[k] = ordered[x]
  /\ \A x, y \in 1..Len(ordered) : x < y => s[at[x]].index <= s[at[y]].index

LEMMA ByIndexPlaces ==
  ASSUME NEW s, IsSeq(s), \A k \in 1..Len(s) : s[k].index \in 0..Len(s) - 1
  PROVE  \E at : Places(at, s, ByIndex(s))
<1> DEFINE n == Len(s)
           at_(i) == {r \in ToSet(s) : r.index = i - 1}
           seqs == [i \in 1..n |-> Only(s, at_(i))]
           ordered == ByIndex(s)
           N == Len(ordered)
<1>1. n \in Nat /\ DOMAIN s = 1..n /\ ToSet(s) = {s[k] : k \in 1..n}
  BY SeqIs
<1>2. ordered = FlattenSeq(seqs) /\ seqs = [i \in 1..n |-> seqs[i]]
  BY DEF ByIndex
<1>3. \A i \in 1..n : /\ seqs[i] = Only(s, at_(i)) /\ IsSeq(seqs[i])
                      /\ ToSet(seqs[i]) = ToSet(s) \cap at_(i)
  BY OnlyIs
<1>3a. \A i \in 1..n : \E f : Picks(f, s, seqs[i])
  BY <1>3, OnlyPicks
<1> HIDE DEF seqs, ordered, n, at_
<1>4. IsSeq(seqs) /\ DOMAIN seqs = 1..n /\ Len(seqs) = n
  BY <1>1, <1>2, SeqMade
<1>5. IsSeq(ordered) /\ \E b, p : Blocks(b, p, n, seqs, ordered)
  BY <1>2, <1>3, <1>4, FlattenBlocks
<1>6. PICK b, p : Blocks(b, p, n, seqs, ordered)
  BY <1>5
<1>7. N \in Nat
  BY <1>5, SeqIs
<1> DEFINE from == [i \in 1..n |-> CHOOSE f : Picks(f, s, seqs[i])]
<1>9. \A i \in 1..n : Picks(from[i], s, seqs[i])
  BY <1>3a
<1> HIDE DEF from, N
<1> DEFINE at == [x \in 1..N |-> from[b[x]][p[x]]]
<1>10. ASSUME NEW x \in 1..N
       PROVE  /\ b[x] \in 1..n /\ p[x] \in 1..Len(seqs[b[x]]) /\ ordered[x] = seqs[b[x]][p[x]]
              /\ at[x] = from[b[x]][p[x]] /\ at[x] \in 1..n /\ ordered[x] = s[at[x]]
              /\ ordered[x].index = b[x] - 1
  <2> DEFINE i == b[x]
             q == p[x]
             t == seqs[i]
             f == from[i]
  <2>1. i \in 1..n /\ q \in Nat \ {0} /\ q <= Len(t) /\ ordered[x] = t[q]
    BY <1>6 DEF Blocks, N
  <2>2. IsSeq(t) /\ ToSet(t) = ToSet(s) \cap at_(i) /\ Picks(f, s, t)
    BY <1>3, <1>9, <2>1
  <2>3. at[x] = f[q]
    OBVIOUS
  <2> HIDE DEF i, q, t, f, at
  <2>4. Len(t) \in Nat /\ ToSet(t) = {t[y] : y \in 1..Len(t)}
    BY <2>2, SeqIs
  <2>5. q \in 1..Len(t)
    BY <2>1, <2>4
  <2>6. f[q] \in 1..n /\ t[q] = s[f[q]]
    BY <2>2, <2>5 DEF Picks, n
  <2>7. t[q].index = i - 1
    BY <2>2, <2>4, <2>5 DEF at_
  <2>8. QED BY <2>1, <2>3, <2>5, <2>6, <2>7 DEF i, q, t, f
<1>11. at \in [1..N -> 1..n]
  BY <1>10
<1> HIDE DEF at
<1>12. ASSUME NEW x \in 1..N, NEW y \in 1..N, x < y PROVE at[x] # at[y] /\ b[x] <= b[y]
  <2>1. b[x] < b[y] \/ (b[x] = b[y] /\ p[x] < p[y])
    BY <1>6, <1>12 DEF Blocks, N
  <2>2. b[x] \in Int /\ b[y] \in Int
    BY <1>10
  <2>3. CASE b[x] < b[y]
    <3>1. b[x] - 1 # b[y] - 1
      BY <2>2, <2>3
    <3>2. ordered[x].index # ordered[y].index
      BY <1>10, <3>1
    <3>3. at[x] # at[y]
      BY <1>10, <3>2
    <3>4. QED BY <2>2, <2>3, <3>3
  <2>4. CASE b[x] = b[y] /\ p[x] < p[y]
    <3> DEFINE i == b[x]
               f == from[i]
    <3>1. i \in 1..n /\ p[x] \in 1..Len(seqs[i]) /\ p[y] \in 1..Len(seqs[i]) /\ at[x] = f[p[x]] /\ at[y] = f[p[y]]
      BY <1>10, <2>4
    <3>2. Picks(f, s, seqs[i])
      BY <1>9, <3>1
    <3> HIDE DEF i, f
    <3>3. f[p[x]] < f[p[y]] /\ f[p[x]] \in 1..n /\ f[p[y]] \in 1..n
      BY <2>4, <3>1, <3>2 DEF Picks, n
    <3>4. at[x] # at[y]
      BY <3>1, <3>3
    <3>5. QED BY <2>2, <2>4, <3>4
  <2>5. QED BY <2>1, <2>3, <2>4
<1>13. \A x, y \in 1..N : x < y \/ y < x \/ x = y
  BY <1>7
<1>14. \A x, y \in 1..N : at[x] = at[y] => x = y
  BY <1>12, <1>13
<1>15. \A x, y \in 1..N : x < y => s[at[x]].index <= s[at[y]].index
  <2>1. ASSUME NEW x \in 1..N, NEW y \in 1..N, x < y PROVE s[at[x]].index <= s[at[y]].index
    <3>1. s[at[x]].index = b[x] - 1 /\ s[at[y]].index = b[y] - 1 /\ b[x] \in Int /\ b[y] \in Int /\ b[x] <= b[y]
      BY <1>10, <1>12, <2>1
    <3>2. QED BY <3>1
  <2>2. QED BY <2>1
<1>16. ASSUME NEW k \in 1..n PROVE \E x \in 1..N : s[k] = ordered[x]
  <2> DEFINE i == s[k].index + 1
  <2>1. i \in 1..n /\ s[k].index = i - 1
    BY <1>1 DEF n
  <2>2. s[k] \in at_(i)
    BY <1>1, <2>1 DEF at_
  <2> HIDE DEF i
  <2>3. s[k] \in ToSet(seqs[i])
    BY <1>1, <1>3, <2>1, <2>2
  <2>4. PICK q \in 1..Len(seqs[i]) : s[k] = seqs[i][q]
    <3> DEFINE t == seqs[i]
    <3>1. IsSeq(t) /\ s[k] \in ToSet(t)
      BY <1>3, <2>1, <2>3
    <3> HIDE DEF t
    <3>2. \E q \in 1..Len(t) : s[k] = t[q]
      BY <3>1, SeqIs
    <3>3. QED BY <3>2 DEF t
  <2>5. PICK x \in 1..N : b[x] = i /\ p[x] = q
    BY <1>6, <2>1, <2>4 DEF Blocks, N
  <2>6. QED BY <1>10, <2>4, <2>5
<1>17. Places(at, s, ordered)
  BY <1>5, <1>10, <1>11, <1>14, <1>15, <1>16 DEF Places, n, N
<1>18. QED BY <1>17 DEF ordered

LEMMA JobsInSeq ==
  ASSUME CfgsKnown, NEW i \in DOMAIN cfgs
  PROVE  IsSeq(cfgs[i].jobs)
<1>1. IsSeq(<<>>)
  BY DEF IsSeq, ToSet
<1>2. QED BY <1>1 DEF CfgsKnown, CfgKnown, AtStageKnown, OwnJobs

LEMMA CreatedIs ==
  ASSUME CfgsKnown
  PROVE  Created \in Nat
<1> DEFINE n == Len(cfgs)
           of(i) == {i} \X DOMAIN RunsOf(cfgs[i])
           all == {of(i) : i \in 1..n}
           f == [i \in 1..n |-> of(i)]
<1>1. n \in Nat /\ DOMAIN cfgs = 1..n
  BY SeqIs DEF CfgsKnown
<1>2. \A i \in 1..n : IsFiniteSet(of(i))
  <2>1. ASSUME NEW i \in 1..n PROVE IsFiniteSet(of(i))
    <3> DEFINE r == RunsOf(cfgs[i])
    <3>1. IsSeq(r)
      BY <1>1, JobsInSeq, OnlyIs DEF RunsOf
    <3> HIDE DEF r
    <3>2. DOMAIN r = 1..Len(r) /\ Len(r) \in Nat
      BY <3>1, SeqIs
    <3>3. IsFiniteSet(DOMAIN r)
      BY <3>2, FS_Interval
    <3>4. IsFiniteSet({i})
      BY FS_Singleton
    <3>5. IsFiniteSet({i} \X DOMAIN r)
      BY <3>3, <3>4, FS_Product
    <3>6. QED BY <3>5 DEF r
  <2>2. QED BY <2>1
<1>3. IsFiniteSet(1..n)
  BY <1>1, FS_Interval
<1>4. UNION {{i} \X DOMAIN RunsOf(cfgs[i]) : i \in DOMAIN cfgs} = UNION all
  BY <1>1
<1>5. f \in Surjection(1..n, all)
  BY DEF Surjection
<1>6. \A T \in all : IsFiniteSet(T)
  BY <1>2
<1> HIDE DEF n, all, f
<1>7. IsFiniteSet(all)
  BY <1>3, <1>5, FS_Surjection
<1>8. IsFiniteSet(UNION all)
  BY <1>6, <1>7, FS_UNION
<1>9. QED BY <1>4, <1>8, FS_CardinalityType DEF Created

(* The runs made of a configuration's list.                                *)
RunsMade(c, runs) ==
  /\ IsSeq(runs)
  /\ \A k \in 1..Len(runs) :
       /\ runs[k].target = "run" /\ runs[k].name \in ToSet(c.runList)
       /\ runs[k].id[2] \in 0..TestOf(c, runs[k].name).reseed - 1
       /\ runs[k].mode = TestOf(c, runs[k].name).mode
  /\ \A e \in ToSet(c.runList) : \A i \in 0..TestOf(c, e).reseed - 1 :
       \E k \in 1..Len(runs) : runs[k].name = e /\ runs[k].id[2] = i
  /\ OnceEach(c.runList) =>
       \A k, l \in 1..Len(runs) : runs[k].name = runs[l].name /\ runs[k].id[2] = runs[l].id[2] => k = l
  /\ \A k, l \in 1..Len(runs) : k < l => runs[k].id[2] <= runs[l].id[2]
  /\ \A k, l \in 1..Len(runs) :
       k # l /\ runs[k].seed = runs[l].seed => runs[k].seed \in {args.fixedSeed} \cup ToSet(args.seeds)

LEMMA RunIs ==
  ASSUME NEW c, NEW idx, NEW t, NEW build, NEW seed
  PROVE  LET j == RunTest(c, args, idx, t, build, seed)
         IN j.target = "run" /\ j.name = t.name /\ j.mode = t.mode /\ j.id[2] = idx /\ j.seed = seed
<1> DEFINE id == <<Tag(c)>> \o <<idx, t.name, seed>>
           spec == JobSpec(c, args, "run", <<idx, t.name, seed>>)
           j == RunTest(c, args, idx, t, build, seed)
<1>1. id[2] = idx
  <2>1. IsSeq(<<Tag(c)>>) /\ IsSeq(<<idx, t.name, seed>>) /\ Len(<<Tag(c)>>) = 1 /\ Len(<<idx, t.name, seed>>) = 3
    BY DEF IsSeq, ToSet
  <2>2. 2 \in 1..1 + 3 /\ 2 - 1 = 1
    OBVIOUS
  <2>3. id[2] = <<idx, t.name, seed>>[1]
    BY <2>1, <2>2, SeqJoined
  <2>4. QED BY <2>3
<1>2. spec.id = id /\ spec.target = "run" /\ {"id", "target", "name", "mode", "seed"} \subseteq DOMAIN spec
  BY DEF JobSpec
<1> HIDE DEF id, spec
<1>3. j.target = "run" /\ j.name = t.name /\ j.mode = t.mode /\ j.seed = seed /\ j.id = id
  BY <1>2 DEF RunTest, spec
<1> HIDE DEF j
<1>4. QED BY <1>1, <1>3 DEF j

LEMMA SeedsDiffer ==
  ASSUME ArgsRead(args), NEW e \in Nat, NEW k \in Nat \ {0}, NEW l \in Nat \ {0}, k # l,
         SeedOf(args, e + k) = SeedOf(args, e + l)
  PROVE  SeedOf(args, e + k) \in {args.fixedSeed} \cup ToSet(args.seeds)
<1> DEFINE m == Len(args.seeds)
           a == e + k
           b == e + l
<1>1. m \in Nat /\ ToSet(args.seeds) = {args.seeds[i] : i \in 1..m}
  BY SeqElements, SeqIs DEF ArgsRead
<1>2. a \in Nat \ {0} /\ b \in Nat \ {0} /\ a # b
  OBVIOUS
<1> HIDE DEF m, a, b
<1>3. \A x \in Nat \ {0} : x <= m => x \in 1..m
  BY <1>1
<1>4. CASE a <= m
  BY <1>1, <1>2, <1>3, <1>4 DEF SeedOf, m, a
<1>5. CASE b <= m
  BY <1>1, <1>2, <1>3, <1>5 DEF SeedOf, m, a, b
<1>6. CASE ~(a <= m) /\ ~(b <= m)
  <2>1. CASE args.fixedSeed # None
    BY <1>6, <2>1 DEF SeedOf, m, a
  <2>2. CASE args.fixedSeed = None
    <3>1. SeedOf(args, a) = -a /\ SeedOf(args, b) = -b
      BY <1>6, <2>2 DEF SeedOf, m
    <3>2. -a = -b
      BY <3>1 DEF a, b
    <3>3. QED BY <1>2, <3>2
  <2>3. QED BY <2>1, <2>2
<1>7. QED BY <1>4, <1>5, <1>6

LEMMA RunsAreMade ==
  ASSUME CfgsKnown, NEW c, IsSeq(c.runList), NEW builds,
         \A e \in ToSet(c.runList) : TestOf(c, e).reseed \in Nat /\ TestOf(c, e).name = e
  PROVE  RunsMade(c, RunJobs(c, builds, Tagged(c)))
<1> DEFINE tagged == Tagged(c)
           n == Len(tagged)
           seeded == [k \in DOMAIN tagged |-> [index |-> tagged[k].index, test |-> tagged[k].test,
                                               seed |-> SeedOf(args, Created + k)]]
           ordered == ByIndex(seeded)
           N == Len(ordered)
           Job(r) == RunTest(c, args, r.index, r.test, builds[Find(r.test.mode, builds)], r.seed)
           runs == [k \in DOMAIN ordered |-> Job(ordered[k])]
<1>1. RunJobs(c, builds, tagged) = runs
  BY DEF RunJobs
<1>2. TaggedWell(c, tagged)
  BY TaggedPlaces
<1> HIDE DEF tagged
<1>3. n \in Nat /\ DOMAIN tagged = 1..n
  BY <1>2, SeqIs DEF TaggedWell
<1>4. /\ seeded = [k \in 1..n |-> seeded[k]]
      /\ \A k \in 1..n : /\ seeded[k].index = tagged[k].index /\ seeded[k].test = tagged[k].test
                         /\ seeded[k].seed = SeedOf(args, Created + k)
  BY <1>3
<1> HIDE DEF n, seeded
<1>5. IsSeq(seeded) /\ Len(seeded) = n
  BY <1>3, <1>4, SeqMade
<1>6. \A k \in 1..Len(seeded) : seeded[k].index \in 0..Len(seeded) - 1
  BY <1>2, <1>4, <1>5 DEF TaggedWell, n
<1>7. PICK at : Places(at, seeded, ordered)
  BY <1>5, <1>6, ByIndexPlaces
<1> HIDE DEF ordered
<1>8. N \in Nat /\ DOMAIN ordered = 1..N
  BY <1>7, SeqIs DEF Places
<1>9. \A k \in 1..N : /\ runs[k].target = "run" /\ runs[k].name = ordered[k].test.name
                      /\ runs[k].mode = ordered[k].test.mode
                      /\ runs[k].id[2] = ordered[k].index /\ runs[k].seed = ordered[k].seed
  BY <1>8, RunIs
<1>10. runs = [k \in 1..N |-> runs[k]]
  BY <1>8
<1> HIDE DEF N, runs
<1>11. IsSeq(runs) /\ Len(runs) = N
  BY <1>8, <1>10, SeqMade
<1>12. ASSUME NEW k \in 1..N
       PROVE  /\ at[k] \in 1..n /\ runs[k].name = tagged[at[k]].test.name
              /\ runs[k].mode = tagged[at[k]].test.mode
              /\ runs[k].id[2] = tagged[at[k]].index /\ runs[k].seed = SeedOf(args, Created + at[k])
  <2>1. at[k] \in 1..n /\ ordered[k] = seeded[at[k]]
    BY <1>5, <1>7 DEF Places, N
  <2>2. QED BY <1>4, <1>9, <2>1
<1>13. ASSUME NEW k \in 1..N
       PROVE  /\ runs[k].target = "run" /\ runs[k].name \in ToSet(c.runList)
              /\ runs[k].id[2] \in 0..TestOf(c, runs[k].name).reseed - 1
              /\ runs[k].mode = TestOf(c, runs[k].name).mode
  <2>1. PICK e \in ToSet(c.runList) : /\ tagged[at[k]].test = TestOf(c, e)
                                      /\ tagged[at[k]].index \in 0..TestOf(c, e).reseed - 1
    BY <1>2, <1>12 DEF TaggedWell, n
  <2>2. runs[k].name = e
    BY <1>12, <2>1
  <2>3. QED BY <1>9, <1>12, <2>1, <2>2
<1>14. ASSUME NEW e \in ToSet(c.runList), NEW i \in 0..TestOf(c, e).reseed - 1
       PROVE  \E k \in 1..N : runs[k].name = e /\ runs[k].id[2] = i
  <2>1. PICK k \in 1..n : tagged[k].index = i /\ tagged[k].test = TestOf(c, e)
    BY <1>2 DEF TaggedWell, n
  <2>2. PICK x \in 1..N : seeded[k] = ordered[x]
    BY <1>5, <1>7 DEF Places, N
  <2>3. ordered[x].index = i /\ ordered[x].test.name = e
    BY <1>4, <2>1, <2>2
  <2>4. QED BY <1>9, <2>3
<1>15. ASSUME OnceEach(c.runList), NEW k \in 1..N, NEW l \in 1..N,
              runs[k].name = runs[l].name, runs[k].id[2] = runs[l].id[2]
       PROVE  k = l
  <2>1. /\ at[k] \in 1..n /\ at[l] \in 1..n
        /\ tagged[at[k]].test.name = tagged[at[l]].test.name /\ tagged[at[k]].index = tagged[at[l]].index
    BY <1>12, <1>15
  <2>2. \A x, y \in 1..n : tagged[x].test.name = tagged[y].test.name /\ tagged[x].index = tagged[y].index => x = y
    BY <1>2, <1>15 DEF TaggedWell, n
  <2>3. at[k] = at[l]
    BY <2>1, <2>2
  <2>4. QED BY <1>7, <2>3 DEF Places, N
<1>16. ASSUME NEW k \in 1..N, NEW l \in 1..N, k < l PROVE runs[k].id[2] <= runs[l].id[2]
  <2>1. seeded[at[k]].index <= seeded[at[l]].index
    BY <1>7, <1>16 DEF Places, N
  <2>2. QED BY <1>4, <1>12, <2>1
<1>17. ASSUME NEW k \in 1..N, NEW l \in 1..N, k # l, runs[k].seed = runs[l].seed
       PROVE  runs[k].seed \in {args.fixedSeed} \cup ToSet(args.seeds)
  <2>1. at[k] # at[l]
    BY <1>7, <1>17 DEF Places, N
  <2>2. at[k] \in Nat \ {0} /\ at[l] \in Nat \ {0} /\ Created \in Nat /\ ArgsRead(args)
    BY <1>12, CreatedIs DEF CfgsKnown
  <2>3. SeedOf(args, Created + at[k]) = SeedOf(args, Created + at[l])
    BY <1>12, <1>17
  <2>4. QED BY <1>12, <2>1, <2>2, <2>3, SeedsDiffer
<1>18. RunsMade(c, runs)
  <2> DEFINE R == 1..Len(runs)
  <2>1. R = 1..N
    BY <1>11
  <2>2. \A k \in R : /\ runs[k].target = "run" /\ runs[k].name \in ToSet(c.runList)
                     /\ runs[k].id[2] \in 0..TestOf(c, runs[k].name).reseed - 1
                     /\ runs[k].mode = TestOf(c, runs[k].name).mode
    BY <1>13, <2>1
  <2>3. \A e \in ToSet(c.runList) : \A i \in 0..TestOf(c, e).reseed - 1 :
          \E k \in R : runs[k].name = e /\ runs[k].id[2] = i
    <3>1. ASSUME NEW e \in ToSet(c.runList), NEW i \in 0..TestOf(c, e).reseed - 1
          PROVE  \E k \in R : runs[k].name = e /\ runs[k].id[2] = i
      <4>1. \E k \in 1..N : runs[k].name = e /\ runs[k].id[2] = i
        BY <1>14
      <4> HIDE DEF R
      <4>2. QED BY <4>1, <2>1
    <3> HIDE DEF R
    <3>2. QED BY <3>1, Zenon
  <2>4. OnceEach(c.runList) =>
          \A k, l \in R : runs[k].name = runs[l].name /\ runs[k].id[2] = runs[l].id[2] => k = l
    BY <1>15, <2>1
  <2>5. \A k, l \in R : k < l => runs[k].id[2] <= runs[l].id[2]
    BY <1>16, <2>1
  <2>6. \A k, l \in R :
          k # l /\ runs[k].seed = runs[l].seed => runs[k].seed \in {args.fixedSeed} \cup ToSet(args.seeds)
    BY <1>17, <2>1
  <2>7. QED BY <1>11, <2>2, <2>3, <2>4, <2>5, <2>6, Zenon DEF RunsMade
<1>19. QED BY <1>1, <1>18 DEF tagged

(* The builds that are kept are some of those listed, in their order; each  *)
(* of those listed has one of them to use, and one that is kept has itself. *)
CompilesOf(c) ==
  [i \in DOMAIN c.buildList |-> CompileSim(c, args, c.builds[Find(c.buildList[i], c.builds)])]
BuildsKept(seq, k, acc) ==
  /\ DOMAIN acc = {"builds", "use", "primary"} /\ IsSeq(acc.builds)
  /\ \E at : Picks(at, seq, acc.builds) /\ \A x \in 1..Len(acc.builds) : at[x] <= k
  /\ \A i \in 1..k : seq[i].name \in DOMAIN acc.use /\ acc.use[seq[i].name] \in Names(acc.builds)
  /\ OncePerName(seq) => \A x \in 1..Len(acc.builds) : /\ acc.builds[x].name \in DOMAIN acc.use
                                                      /\ acc.use[acc.builds[x].name] = acc.builds[x].name

LEMMA PicksNext ==
  ASSUME NEW seq, IsSeq(seq), NEW k \in 1..Len(seq), NEW s, IsSeq(s),
         NEW at, Picks(at, seq, s), \A x \in 1..Len(s) : at[x] <= k - 1
  PROVE  LET new == Append(s, seq[k])
         IN \E to : Picks(to, seq, new) /\ \A x \in 1..Len(new) : to[x] <= k
<1> DEFINE m == Len(s)
           e == seq[k]
           new == Append(s, e)
           to == [x \in 1..m + 1 |-> IF x <= m THEN at[x] ELSE k]
<1>1. m \in Nat /\ Len(seq) \in Nat /\ k \in Nat
  BY SeqIs
<1>2. /\ at \in [1..m -> 1..Len(seq)] /\ \A x \in 1..m : s[x] = seq[at[x]] /\ at[x] <= k - 1
      /\ \A x, y \in 1..m : x < y => at[x] < at[y]
  BY DEF Picks
<1>3. IsSeq(new) /\ Len(new) = m + 1 /\ new[m + 1] = e /\ \A x \in 1..m : new[x] = s[x]
  BY SeqAppended
<1> HIDE DEF m, e, new
<1>4. \A x \in 1..m + 1 : x \in 1..m \/ x = m + 1
  BY <1>1
<1>5. \A x \in 1..m : to[x] = at[x]
  BY <1>1
<1>6. to[m + 1] = k
  BY <1>1
<1>7. to \in [1..m + 1 -> 1..Len(seq)]
  BY <1>1, <1>2, <1>4
<1> HIDE DEF to
<1>8. ASSUME NEW x \in 1..m + 1 PROVE to[x] \in Nat /\ to[x] <= k /\ new[x] = seq[to[x]]
  <2>1. CASE x \in 1..m
    <3>1. to[x] = at[x] /\ at[x] \in 1..Len(seq) /\ at[x] <= k - 1 /\ new[x] = s[x] /\ s[x] = seq[at[x]]
      BY <1>2, <1>3, <1>5, <2>1
    <3>2. at[x] \in Nat /\ at[x] <= k
      BY <1>1, <3>1
    <3>3. QED BY <3>1, <3>2
  <2>2. CASE x = m + 1
    <3>1. to[x] = k /\ new[x] = e
      BY <1>3, <1>6, <2>2
    <3>2. QED BY <1>1, <3>1 DEF e
  <2>3. QED BY <1>4, <2>1, <2>2
<1>9. \A x, y \in 1..m + 1 : x < y => to[x] < to[y]
  <2>1. ASSUME NEW x \in 1..m + 1, NEW y \in 1..m + 1, x < y PROVE to[x] < to[y]
    <3>1. x \in 1..m
      BY <1>1, <2>1
    <3>2. CASE y \in 1..m
      BY <1>2, <1>5, <2>1, <3>1, <3>2
    <3>3. CASE y = m + 1
      <4>1. to[x] = at[x] /\ at[x] <= k - 1 /\ at[x] \in 1..Len(seq) /\ to[y] = k
        BY <1>2, <1>5, <1>6, <3>1, <3>3
      <4>2. QED BY <1>1, <4>1
    <3>4. QED BY <1>4, <3>2, <3>3
  <2>2. QED BY <2>1
<1>10. Picks(to, seq, new)
  BY <1>3, <1>7, <1>8, <1>9 DEF Picks
<1>11. QED BY <1>3, <1>8, <1>10 DEF new, e

LEMMA BuildKept ==
  ASSUME NEW seq, IsSeq(seq), NEW k \in 1..Len(seq), NEW acc, BuildsKept(seq, k - 1, acc)
  PROVE  BuildsKept(seq, k, AddBuild(acc, seq[k]))
<1> DEFINE job == seq[k]
           bs == acc.builds
           I == {i \in 1..Len(bs) : Equivalent(job, bs[i])}
           same == SelectInSeq(bs, LAMBDA b : Equivalent(job, b))
           new == AddBuild(acc, job)
<1>1. k \in Nat /\ IsSeq(bs) /\ Len(bs) \in Nat /\ DOMAIN bs = 1..Len(bs)
  BY SeqIs DEF BuildsKept
<1>2. \A i \in 1..k : i = k \/ i \in 1..k - 1
  BY <1>1
<1>3. PICK at : Picks(at, seq, bs) /\ \A x \in 1..Len(bs) : at[x] <= k - 1
  BY DEF BuildsKept
<1>4. ASSUME OncePerName(seq), NEW x \in 1..Len(bs)
      PROVE  bs[x].name # job.name /\ bs[x].name \in DOMAIN acc.use /\ acc.use[bs[x].name] = bs[x].name
  <2>1. at[x] \in 1..Len(seq) /\ at[x] <= k - 1 /\ bs[x] = seq[at[x]]
    BY <1>3 DEF Picks
  <2>2. at[x] # k /\ DOMAIN seq = 1..Len(seq)
    BY <1>1, <2>1, SeqIs
  <2>3. QED BY <1>4, <2>1, <2>2 DEF OncePerName, BuildsKept
<1>5. CASE same = 0
  <2> DEFINE u == Put(acc.use, job.name, job.name)
  <2>1. new = [acc EXCEPT !.builds = Append(@, job), !.use = Put(@, job.name, job.name)]
    BY <1>5 DEF AddBuild
  <2> HIDE DEF same, new
  <2>2. DOMAIN new = DOMAIN acc /\ new.builds = Append(bs, job) /\ new.use = u
    BY <2>1 DEF BuildsKept
  <2>3. IsSeq(new.builds)
    BY <1>1, <2>2, SeqAppended
  <2>4. /\ Names(bs) \subseteq Names(new.builds) /\ job.name \in Names(new.builds)
        /\ \A x \in 1..Len(new.builds) : new.builds[x] = job \/ \E i \in 1..Len(bs) : new.builds[x] = bs[i]
    <3>1. Len(new.builds) = Len(bs) + 1 /\ DOMAIN new.builds = 1..Len(bs) + 1
      BY <1>1, <2>2, <2>3, SeqAppended, SeqIs
    <3>2. new.builds[Len(bs) + 1] = job /\ \A i \in 1..Len(bs) : new.builds[i] = bs[i]
      BY <1>1, <2>2, SeqAppended
    <3>3. Len(bs) + 1 \in DOMAIN new.builds /\ \A i \in 1..Len(bs) : i \in DOMAIN new.builds
      BY <1>1, <3>1
    <3> HIDE DEF bs, job
    <3>4. Names(bs) \subseteq Names(new.builds) /\ job.name \in Names(new.builds)
      BY <1>1, <3>2, <3>3 DEF Names
    <3>5. \A x \in 1..Len(bs) + 1 : x = Len(bs) + 1 \/ x \in 1..Len(bs)
      BY <1>1
    <3>6. QED BY <3>1, <3>2, <3>4, <3>5
  <2>5. \E to : Picks(to, seq, new.builds) /\ \A x \in 1..Len(new.builds) : to[x] <= k
    BY <1>1, <1>3, <2>2, PicksNext
  <2>6. DOMAIN u = DOMAIN acc.use \cup {job.name}
        /\ \A e \in DOMAIN acc.use \cup {job.name} : u[e] = IF e = job.name THEN job.name ELSE acc.use[e]
    BY DEF Put
  <2> HIDE DEF u
  <2>7. ASSUME NEW i \in 1..k PROVE seq[i].name \in DOMAIN u /\ u[seq[i].name] \in Names(new.builds)
    BY <1>2, <2>4, <2>6 DEF BuildsKept
  <2>8. OncePerName(seq) => \A x \in 1..Len(new.builds) : /\ new.builds[x].name \in DOMAIN u
                                                         /\ u[new.builds[x].name] = new.builds[x].name
    BY <1>4, <2>4, <2>6
  <2>9. QED BY <2>2, <2>3, <2>5, <2>7, <2>8 DEF BuildsKept, new
<1>6. CASE same # 0
  <2> DEFINE b == bs[same]
             u == Put(acc.use, job.name, b.name)
  <2>1. same \in 1..Len(bs)
    <3>1. same = IF I # {} THEN Min(I) ELSE 0
      BY DEF SelectInSeq
    <3>2. I # {} /\ same = Min(I)
      BY <1>6, <3>1
    <3>3. I \in SUBSET Nat
      BY <1>1
    <3> HIDE DEF same
    <3>4. PICK x \in I : \A y \in I : x <= y
      <4> HIDE DEF I
      <4>1. QED BY <3>2, <3>3, Least
    <3>5. Min(I) \in I
      <4> HIDE DEF I
      <4>1. QED BY <3>4 DEF Min
    <3>6. QED BY <3>2, <3>5
  <2>2. \E p : new = [acc EXCEPT !.use = u, !.primary = p]
    BY <1>6 DEF AddBuild
  <2> HIDE DEF same, new
  <2>3. DOMAIN new = DOMAIN acc /\ new.builds = bs /\ new.use = u
    BY <2>2 DEF BuildsKept
  <2>4. b.name \in Names(bs)
    BY <1>1, <2>1 DEF Names
  <2>5. DOMAIN u = DOMAIN acc.use \cup {job.name}
        /\ \A e \in DOMAIN acc.use \cup {job.name} : u[e] = IF e = job.name THEN b.name ELSE acc.use[e]
    BY DEF Put
  <2> HIDE DEF u, b
  <2>6. ASSUME NEW i \in 1..k PROVE seq[i].name \in DOMAIN u /\ u[seq[i].name] \in Names(bs)
    BY <1>2, <2>4, <2>5 DEF BuildsKept
  <2>7. \A x \in 1..Len(bs) : at[x] <= k
    <3>1. \A x \in 1..Len(bs) : at[x] \in 1..Len(seq) /\ at[x] <= k - 1
      BY <1>3 DEF Picks
    <3>2. QED BY <1>1, <3>1
  <2>8. OncePerName(seq) => \A x \in 1..Len(bs) : bs[x].name \in DOMAIN u /\ u[bs[x].name] = bs[x].name
    BY <1>4, <2>5
  <2>9. QED BY <1>1, <1>3, <2>3, <2>6, <2>7, <2>8 DEF BuildsKept, new
<1>7. QED BY <1>5, <1>6

LEMMA BuildsAreKept ==
  ASSUME NEW c, IsSeq(c.buildList)
  PROVE  LET all == Builds(c)
         IN /\ BuildsKept(CompilesOf(c), Len(c.buildList), all)
            /\ IsSeq(CompilesOf(c)) /\ Len(CompilesOf(c)) = Len(c.buildList)
<1> DEFINE none == [builds |-> <<>>, use |-> <<>>, primary |-> c.primary]
           seq == CompilesOf(c)
           n == Len(c.buildList)
           all == BuildsAdded(none, seq)
           new == Builds(c)
<1>1. n \in Nat /\ DOMAIN c.buildList = 1..n
  BY SeqIs
<1>2. seq = [i \in 1..n |-> seq[i]]
  BY <1>1 DEF CompilesOf
<1>3. new = IF Len(all.builds) = 1 THEN [all EXCEPT !.primary = all.builds[1].name] ELSE all
  BY DEF Builds, BuildsAdded, CompilesOf
<1> HIDE DEF seq, all, n, new
<1>4. IsSeq(seq) /\ Len(seq) = n /\ DOMAIN seq = 1..n
  BY <1>1, <1>2, SeqMade
<1>5. PICK r : AddBuildTrace(r, none, seq)
  BY <1>1, <1>4, AddBuildSteps
<1>6. /\ r[0] = none /\ \A k \in 1..n : r[k] = AddBuild(r[k - 1], seq[k])
      /\ BuildsAdded(none, seq) = r[n]
  BY <1>4, <1>5 DEF AddBuildTrace
<1> DEFINE G == {k \in 0..n : BuildsKept(seq, k, r[k])}
<1>7. 0 \in G
  <2>1. IsSeq(<<>>) /\ Len(<<>>) = 0 /\ 1..0 = {}
    BY DEF IsSeq, ToSet
  <2>2. [x \in 1..0 |-> 1] \in [1..0 -> 1..Len(seq)]
    BY <2>1
  <2>3. Picks([x \in 1..0 |-> 1], seq, <<>>)
    BY <2>1, <2>2 DEF Picks
  <2>4. BuildsKept(seq, 0, none)
    BY <2>1, <2>3 DEF BuildsKept
  <2>5. QED BY <1>1, <1>6, <2>4
<1>8. ASSUME NEW k \in 1..n, k - 1 \in G PROVE k \in G
  <2>1. k \in 0..n /\ k \in 1..Len(seq) /\ BuildsKept(seq, k - 1, r[k - 1]) /\ r[k] = AddBuild(r[k - 1], seq[k])
    BY <1>1, <1>4, <1>6, <1>8
  <2>2. BuildsKept(seq, k, AddBuild(r[k - 1], seq[k]))
    BY <1>4, <2>1, BuildKept
  <2>3. QED BY <2>1, <2>2
<1> HIDE DEF G
<1>9. n \in G
  <2>1. \A k \in 0..n : k \in G
    BY <1>1, <1>7, <1>8, Climb
  <2>2. QED BY <1>1, <2>1
<1>10. BuildsKept(seq, n, all)
  BY <1>6, <1>9 DEF G, all
<1>11. DOMAIN new = DOMAIN all /\ new.builds = all.builds /\ new.use = all.use
  BY <1>3, <1>10 DEF BuildsKept
<1>12. BuildsKept(seq, n, new)
  BY <1>10, <1>11 DEF BuildsKept
<1>13. QED BY <1>4, <1>12 DEF seq, n, new

(* The jobs of one target among those of a configuration.                  *)
OfTarget(js, target) == Only(js, {j \in ToSet(js) : j.target = target})

LEMMA OnlyMiddle ==
  ASSUME NEW pre, IsSeq(pre), NEW mid, IsSeq(mid), NEW post, IsSeq(post), NEW target,
         \A j \in ToSet(mid) : j.target = target,
         \A j \in ToSet(pre) \cup ToSet(post) : j.target # target
  PROVE  LET got == OfTarget(pre \o mid \o post, target)
         IN IsSeq(got) /\ ToSet(got) = ToSet(mid) /\ \E at : Picks(at, mid, got)
<1> DEFINE two == pre \o mid
           all == two \o post
           set == {j \in ToSet(all) : j.target = target}
           got == Only(all, set)
           a == Len(pre)
           m == Len(mid)
           z == Len(post)
           n == Len(got)
<1>1. /\ a \in Nat /\ m \in Nat /\ z \in Nat
      /\ ToSet(pre) = {pre[i] : i \in 1..a} /\ ToSet(mid) = {mid[i] : i \in 1..m}
      /\ ToSet(post) = {post[i] : i \in 1..z}
  BY SeqIs
<1>2. /\ IsSeq(two) /\ ToSet(two) = ToSet(pre) \cup ToSet(mid) /\ Len(two) = a + m
      /\ \A i \in 1..a + m : two[i] = IF i <= a THEN pre[i] ELSE mid[i - a]
  BY SeqJoined
<1> HIDE DEF two, a, m, z
<1>3. /\ IsSeq(all) /\ ToSet(all) = ToSet(two) \cup ToSet(post) /\ Len(all) = (a + m) + z
      /\ \A i \in 1..(a + m) + z : all[i] = IF i <= a + m THEN two[i] ELSE post[i - (a + m)]
  <2>1. /\ IsSeq(two \o post) /\ ToSet(two \o post) = ToSet(two) \cup ToSet(post)
        /\ Len(two \o post) = Len(two) + Len(post)
        /\ \A i \in 1..Len(two) + Len(post) :
             (two \o post)[i] = IF i <= Len(two) THEN two[i] ELSE post[i - Len(two)]
    BY <1>2, SeqJoined
  <2>2. Len(two) = a + m /\ Len(post) = z
    BY <1>2 DEF z
  <2>3. QED BY <2>1, <2>2
<1> HIDE DEF all
<1>4. IsSeq(got) /\ ToSet(got) = ToSet(all) \cap set
  BY <1>3, OnlyIs
<1>5. ToSet(got) = ToSet(mid)
  BY <1>2, <1>3, <1>4
<1>6. PICK p : Picks(p, all, got)
  BY <1>3, OnlyPicks
<1> HIDE DEF got, set
<1>7. n \in Nat /\ DOMAIN got = 1..n /\ \A k \in 1..n : got[k] \in ToSet(got)
  BY <1>4, SeqIs
<1> HIDE DEF n
<1>8. /\ p \in [1..n -> 1..(a + m) + z] /\ \A k \in 1..n : got[k] = all[p[k]]
      /\ \A k, l \in 1..n : k < l => p[k] < p[l]
  BY <1>3, <1>6 DEF Picks, n
<1> DEFINE at == [k \in 1..n |-> p[k] - a]
<1>9. ASSUME NEW k \in 1..n PROVE p[k] - a \in 1..m /\ got[k] = mid[p[k] - a]
  <2> DEFINE x == p[k]
  <2>1. x \in 1..(a + m) + z /\ got[k] = all[x] /\ got[k].target = target
    BY <1>5, <1>7, <1>8
  <2> HIDE DEF x
  <2>2. CASE x > a + m
    <3>1. x - (a + m) \in 1..z /\ ~(x <= a + m)
      BY <1>1, <2>1, <2>2
    <3>2. all[x] = post[x - (a + m)]
      BY <1>3, <2>1, <3>1
    <3>3. QED BY <1>1, <2>1, <3>1, <3>2
  <2>3. CASE x <= a
    <3>1. x \in 1..a /\ x \in 1..a + m /\ x <= a + m
      BY <1>1, <2>1, <2>3
    <3>2. all[x] = pre[x]
      BY <1>2, <1>3, <2>1, <2>3, <3>1
    <3>3. QED BY <1>1, <2>1, <3>1, <3>2
  <2>4. CASE x > a /\ x <= a + m
    <3>1. x - a \in 1..m /\ x \in 1..a + m /\ ~(x <= a)
      BY <1>1, <2>1, <2>4
    <3>2. all[x] = mid[x - a]
      BY <1>2, <1>3, <2>1, <2>4, <3>1
    <3>3. QED BY <2>1, <3>1, <3>2 DEF x
  <2>5. x \in Nat
    BY <1>1, <2>1
  <2>6. QED BY <1>1, <2>2, <2>3, <2>4, <2>5
<1>10. at \in [1..n -> 1..m] /\ \A k \in 1..n : got[k] = mid[at[k]]
  BY <1>9
<1>11. ASSUME NEW k \in 1..n, NEW l \in 1..n, k < l PROVE at[k] < at[l]
  <2>1. p[k] \in Int /\ p[l] \in Int /\ p[k] < p[l] /\ at[k] = p[k] - a /\ at[l] = p[l] - a
    BY <1>1, <1>8, <1>11
  <2> HIDE DEF at
  <2>2. QED BY <1>1, <2>1
<1> HIDE DEF at
<1>12. Picks(at, mid, got)
  BY <1>10, <1>11 DEF Picks, m, n
<1>13. QED BY <1>4, <1>5, <1>12 DEF OfTarget, got, set, all, two

LEMMA BuildTargets ==
  ASSUME NEW c, IsSeq(c.buildList)
  PROVE  IsSeq(Builds(c).builds) /\ \A j \in ToSet(Builds(c).builds) : j.target = "build"
<1> DEFINE all == Builds(c)
           seq == CompilesOf(c)
           bs == all.builds
<1>1. BuildsKept(seq, Len(c.buildList), all) /\ DOMAIN seq = DOMAIN c.buildList
      /\ IsSeq(seq)
  BY BuildsAreKept DEF CompilesOf
<1>2. \A i \in DOMAIN seq : seq[i].target = "build"
  BY DEF CompilesOf, CompileSim, JobSpec
<1> HIDE DEF all, seq
<1>3. PICK at : Picks(at, seq, bs)
  BY <1>1 DEF BuildsKept
<1>4. IsSeq(bs) /\ ToSet(bs) = {bs[i] : i \in 1..Len(bs)}
  BY <1>1, SeqIs DEF BuildsKept
<1>5. DOMAIN seq = 1..Len(seq)
  BY <1>1, SeqIs
<1> HIDE DEF bs
<1>6. \A i \in 1..Len(bs) : bs[i].target = "build"
  BY <1>2, <1>3, <1>5 DEF Picks
<1>7. QED BY <1>4, <1>6 DEF bs, all

LEMMA CoverageTargets ==
  ASSUME NEW c, NEW runs
  PROVE  /\ IsSeq(CoverageJobs(c, runs))
         /\ \A j \in ToSet(CoverageJobs(c, runs)) : j.target \in {"cov_merge", "cov_report", "cov_vplan"}
<1> DEFINE merge == CovMerge(c, args, runs)
           report == CovReport(c, args, merge)
           plan == CovVPlan(c, args, report)
           S == {merge, report, plan}
<1>1. merge.target = "cov_merge" /\ report.target = "cov_report" /\ plan.target = "cov_vplan"
  BY DEF CovMerge, CovReport, CovVPlan, JobSpec
<1>2. CoverageJobs(c, runs) \in {<<>>, <<merge>> \o <<report>>, <<merge>> \o <<report, plan>>}
  BY DEF CoverageJobs
<1> HIDE DEF merge, report, plan
<1>3. CoverageJobs(c, runs) \in Seq(S)
  <2>1. \A s, t \in Seq(S) : s \o t \in Seq(S)
    OBVIOUS
  <2>2. <<>> \in Seq(S) /\ <<merge>> \in Seq(S) /\ <<report>> \in Seq(S) /\ <<report, plan>> \in Seq(S)
    OBVIOUS
  <2> HIDE DEF S
  <2>3. QED BY <1>2, <2>1, <2>2
<1>4. QED BY <1>1, <1>3, SeqElements

(* What _create_deploy_objects() makes of a configuration.                  *)
Resolved(c0, all) ==
  LET Using(t) == IF Contains(c0.runList, t.name) THEN [t EXCEPT !.mode = all.use[@]] ELSE t
  IN [c0 EXCEPT !.primary = all.primary, !.tests = [i \in DOMAIN @ |-> Using(@[i])]]
BuildsFor(all) == IF args.runOnly THEN <<>> ELSE all.builds
RunsFor(c, builds) ==
  LET ran == RunJobs(c, builds, Tagged(c))
  IN IF args.buildOnly THEN <<>> ELSE IF args.gui THEN SubSeq(ran, 1, Min({1, Len(ran)})) ELSE ran

LEMMA DeployedIs ==
  ASSUME NEW c0, NEW all, Deployed(c0, all) # Exit
  PROVE  LET c == Resolved(c0, all)
             runs == RunsFor(c, all.builds)
         IN /\ Deployed(c0, all) = [c EXCEPT !.stage = "deployed",
                                      !.jobs = BuildsFor(all) \o runs \o CoverageJobs(c, runs)]
            /\ all.primary \in Names(all.builds)
            /\ None \notin {c.buildPass, c.buildFail}
            /\ ~args.buildOnly => None \notin {c.runPass, c.runFail}
<1> DEFINE c == Resolved(c0, all)
           runs == RunsFor(c, all.builds)
<1>1. /\ Deployed(c0, all) = [c EXCEPT !.stage = "deployed",
                                !.jobs = BuildsFor(all) \o runs \o CoverageJobs(c, runs)]
  BY DEF Deployed, Resolved, BuildsFor, RunsFor
<1>2. /\ all.primary \in Names(all.builds) /\ None \notin {c.buildPass, c.buildFail}
      /\ ~args.buildOnly => None \notin {c.runPass, c.runFail}
  BY DEF Deployed, Resolved
<1>3. QED BY <1>1, <1>2

LEMMA ResolvedIs ==
  ASSUME NEW c0, CfgKnown(c0), c0.stage = "listed", NEW all
  PROVE  LET c == Resolved(c0, all)
         IN /\ DOMAIN c = DOMAIN c0
            /\ \A k \in DOMAIN c0 \ {"primary", "tests"} : c[k] = c0[k]
            /\ "primary" \in DOMAIN c0 => c.primary = all.primary
            /\ TestsLike(c0.tests, c.tests)
            /\ \A e \in ToSet(c0.runList) :
                 /\ TestOf(c, e).name = e /\ TestOf(c, e).reseed \in Nat \ {0}
                 /\ TestOf(c, e).mode = all.use[TestOf(c0, e).mode]
<1> DEFINE Using(t) == IF Contains(c0.runList, t.name) THEN [t EXCEPT !.mode = all.use[@]] ELSE t
           tests == [i \in DOMAIN c0.tests |-> Using(c0.tests[i])]
           c == Resolved(c0, all)
<1>1. Fields \subseteq DOMAIN c0 /\ TestsKnown(c0.tests) /\ ListsKnown(c0)
  BY DEF CfgKnown, AtStageKnown
<1>2. c = [c0 EXCEPT !.primary = all.primary, !.tests = tests]
  BY DEF Resolved
<1> HIDE DEF c
<1>3. /\ DOMAIN c = DOMAIN c0 /\ c.tests = tests
      /\ \A k \in DOMAIN c0 \ {"primary", "tests"} : c[k] = c0[k]
      /\ "primary" \in DOMAIN c0 => c.primary = all.primary
  BY <1>1, <1>2 DEF Fields
<1>4. \A i \in DOMAIN c0.tests : {"name", "reseed", "mode"} \subseteq DOMAIN c0.tests[i]
  BY <1>1 DEF TestsKnown, TestKeys, ToSet
<1>5. ASSUME NEW i \in DOMAIN c0.tests
      PROVE  /\ DOMAIN tests[i] = DOMAIN c0.tests[i] /\ tests[i].name = c0.tests[i].name
             /\ tests[i].reseed = c0.tests[i].reseed
             /\ Contains(c0.runList, c0.tests[i].name) => tests[i].mode = all.use[c0.tests[i].mode]
  BY <1>4
<1>6. tests = [i \in DOMAIN c0.tests |-> tests[i]]
  OBVIOUS
<1> HIDE DEF tests
<1>7. TestsLike(c0.tests, tests)
  BY <1>1, <1>5, <1>6, LikeMade DEF TestsKnown
<1>8. \A e : Find(e, tests) = Find(e, c0.tests)
  BY <1>1, <1>7, LikeKnown
<1>9. ASSUME NEW e \in ToSet(c0.runList)
      PROVE  /\ TestOf(c, e).name = e /\ TestOf(c, e).reseed \in Nat \ {0}
             /\ TestOf(c, e).mode = all.use[TestOf(c0, e).mode]
  <2> DEFINE f == Find(e, c0.tests)
  <2>1. f \in DOMAIN c0.tests /\ c0.tests[f].name = e /\ c0.tests[f].reseed \in Nat \ {0}
    BY <1>1, FindIs DEF ListsKnown, TestsKnown, TestOf
  <2>2. Contains(c0.runList, e)
    BY <1>1, ContainsIs DEF ListsKnown
  <2>3. TestOf(c, e) = tests[f] /\ TestOf(c0, e) = c0.tests[f]
    BY <1>3, <1>8 DEF TestOf
  <2> HIDE DEF f
  <2>4. QED BY <1>5, <2>1, <2>2, <2>3
<1>10. QED BY <1>3, <1>7, <1>9 DEF c

(* What is asked of the runs of a deployed configuration.                   *)
AsRequested(c) ==
  LET runs == RunsOf(c)
      wanted == {t.name : t \in {x \in ToSet(c.tests) : \E p \in DOMAIN args.items : x.name \in args.items[p]}}
      byRegr == UNION {ToSet(r.tests) : r \in Asked(c)}
      sure == wanted \cup UNION {ToSet(r.tests) : r \in Alone(c)}
      indices(n) == {j.id[2] : j \in {x \in ToSet(runs) : x.name = n}}
  IN ~args.gui /\ ~args.buildOnly =>
       /\ Between(sure, {j.name : j \in ToSet(runs)}, byRegr)
       /\ \A n \in {j.name : j \in ToSet(runs)} :
            /\ indices(n) = 0..Cardinality(indices(n)) - 1
            /\ \A k, l \in DOMAIN runs :
                 runs[k].name = n /\ runs[l].name = n /\ runs[k].id[2] = runs[l].id[2] => k = l
       /\ \A k, l \in DOMAIN runs : k < l => runs[k].id[2] <= runs[l].id[2]
       /\ \A k, l \in DOMAIN runs :
            k # l /\ runs[k].seed = runs[l].seed => runs[k].seed \in {args.fixedSeed} \cup ToSet(args.seeds)

LEMMA RunsRequested ==
  ASSUME NEW c, IsSeq(c.runList), \A e \in ToSet(c.runList) : TestOf(c, e).reseed \in Nat \ {0},
         Requested(c), Apart(c),
         NEW made, RunsMade(c, made), IsSeq(RunsOf(c)), ToSet(RunsOf(c)) = ToSet(made),
         NEW at, Picks(at, made, RunsOf(c))
  PROVE  AsRequested(c)
<1> DEFINE runs == RunsOf(c)
           n == Len(runs)
           m == Len(made)
           names == {j.name : j \in ToSet(runs)}
           wanted == {t.name : t \in {x \in ToSet(c.tests) : \E p \in DOMAIN args.items : x.name \in args.items[p]}}
           byRegr == UNION {ToSet(r.tests) : r \in Asked(c)}
           sure == wanted \cup UNION {ToSet(r.tests) : r \in Alone(c)}
           indices(e) == {j.id[2] : j \in {x \in ToSet(runs) : x.name = e}}
<1>1. /\ n \in Nat /\ DOMAIN runs = 1..n /\ m \in Nat /\ ToSet(made) = {made[k] : k \in 1..m}
  BY SeqIs DEF RunsMade
<1>2. OnceEach(c.runList)
  BY DEF Requested
<1>3. /\ \A k \in 1..m : made[k].name \in ToSet(c.runList)
                         /\ made[k].id[2] \in 0..TestOf(c, made[k].name).reseed - 1
      /\ \A e \in ToSet(c.runList) : \A i \in 0..TestOf(c, e).reseed - 1 :
           \E k \in 1..m : made[k].name = e /\ made[k].id[2] = i
      /\ \A k, l \in 1..m : made[k].name = made[l].name /\ made[k].id[2] = made[l].id[2] => k = l
      /\ \A k, l \in 1..m : k < l => made[k].id[2] <= made[l].id[2]
      /\ \A k, l \in 1..m :
           k # l /\ made[k].seed = made[l].seed => made[k].seed \in {args.fixedSeed} \cup ToSet(args.seeds)
  BY <1>2 DEF RunsMade
<1>4. /\ at \in [1..n -> 1..m] /\ \A k \in 1..n : runs[k] = made[at[k]]
      /\ \A k, l \in 1..n : k < l => at[k] < at[l]
  BY DEF Picks
<1>5. \A k, l \in 1..n : k # l => at[k] # at[l]
  <2>1. ASSUME NEW k \in 1..n, NEW l \in 1..n, k # l PROVE at[k] # at[l]
    <3>1. at[k] \in Nat /\ at[l] \in Nat /\ (k < l \/ l < k)
      BY <1>1, <1>4, <2>1
    <3>2. QED BY <1>4, <3>1
  <2>2. QED BY <2>1
<1>6. ToSet(runs) = {made[k] : k \in 1..m}
  BY <1>1
<1> HIDE DEF n, m, runs
<1>7. names = ToSet(c.runList)
  <2>1. ASSUME NEW e \in ToSet(c.runList) PROVE \E k \in 1..m : made[k].name = e
    <3>1. 0 \in 0..TestOf(c, e).reseed - 1
      OBVIOUS
    <3>2. QED BY <1>3, <3>1
  <2>2. QED BY <1>3, <1>6, <2>1
<1>8. wanted = {e \in Names(c.tests) : Hit(e)}
  BY DEF Names, ToSet, Hit
<1>9. Between(sure, names, byRegr)
  <2>1. sure \subseteq names
    BY <1>7, <1>8 DEF Requested
  <2>2. names \subseteq sure \cup byRegr
    <3>1. ASSUME NEW e \in ToSet(c.runList) PROVE e \in wanted \/ e \in byRegr
      BY <1>8 DEF Requested
    <3>2. QED BY <1>7, <3>1
  <2>3. QED BY <2>1, <2>2 DEF Between
<1>10. ASSUME NEW e \in names PROVE indices(e) = 0..Cardinality(indices(e)) - 1
  <2> DEFINE r == TestOf(c, e).reseed
  <2>1. r \in Nat \ {0} /\ e \in ToSet(c.runList)
    BY <1>7, <1>10
  <2>2. indices(e) = 0..r - 1
    <3>1. ASSUME NEW i \in indices(e) PROVE i \in 0..r - 1
      <4>1. PICK k \in 1..m : made[k].name = e /\ made[k].id[2] = i
        BY <1>6, <3>1
      <4>2. QED BY <1>3, <4>1
    <3>2. ASSUME NEW i \in 0..r - 1 PROVE i \in indices(e)
      <4>1. PICK k \in 1..m : made[k].name = e /\ made[k].id[2] = i
        BY <1>3, <2>1
      <4>2. QED BY <1>6, <4>1
    <3>3. QED BY <3>1, <3>2
  <2> HIDE DEF r
  <2>3. Cardinality(0..r - 1) = r
    <3>1. Cardinality(0..r - 1) = IF 0 > r - 1 THEN 0 ELSE (r - 1) - 0 + 1
      BY <2>1, FS_Interval
    <3>2. QED BY <2>1, <3>1
  <2>4. QED BY <2>2, <2>3
<1>11. \A k, l \in 1..n : runs[k].name = runs[l].name /\ runs[k].id[2] = runs[l].id[2] => k = l
  BY <1>3, <1>4, <1>5
<1>12. \A k, l \in 1..n : k < l => runs[k].id[2] <= runs[l].id[2]
  BY <1>3, <1>4
<1>13. \A k, l \in 1..n :
         k # l /\ runs[k].seed = runs[l].seed => runs[k].seed \in {args.fixedSeed} \cup ToSet(args.seeds)
  BY <1>3, <1>4, <1>5
<1> HIDE DEF names, wanted, byRegr, sure, indices
<1>14. \A e \in names : indices(e) = 0..Cardinality(indices(e)) - 1
  BY <1>10
<1>15. DOMAIN runs = 1..n
  BY <1>1 DEF runs
<1>16. QED BY <1>9, <1>11, <1>12, <1>13, <1>14, <1>15 DEF AsRequested, names, wanted, byRegr, sure, indices, runs

LEMMA DeployedRequested ==
  ASSUME CfgsKnown, NEW c0, CfgKnown(c0), c0.stage = "listed", Requested(c0),
         Deployed(c0, Builds(c0)) # Exit, Apart(Deployed(c0, Builds(c0)))
  PROVE  AsRequested(Deployed(c0, Builds(c0)))
<1> DEFINE all == Builds(c0)
           c == Resolved(c0, all)
           runs == RunsFor(c, all.builds)
           pre == BuildsFor(all)
           post == CoverageJobs(c, runs)
           new == Deployed(c0, all)
<1>1. /\ Fields \subseteq DOMAIN c0 /\ TestsKnown(c0.tests) /\ ListsKnown(c0)
  BY DEF CfgKnown, AtStageKnown
<1>2. new = [c EXCEPT !.stage = "deployed", !.jobs = pre \o runs \o post]
  BY DeployedIs
<1>3. IsSeq(pre) /\ \A j \in ToSet(pre) : j.target = "build"
  <2>1. IsSeq(<<>>) /\ ToSet(<<>>) = {}
    BY DEF IsSeq, ToSet
  <2>2. QED BY <1>1, <2>1, BuildTargets DEF BuildsFor, ListsKnown
<1>4. IsSeq(post) /\ \A j \in ToSet(post) : j.target \in {"cov_merge", "cov_report", "cov_vplan"}
  BY CoverageTargets
<1>5. /\ DOMAIN c = DOMAIN c0 /\ \A k \in DOMAIN c0 \ {"primary", "tests"} : c[k] = c0[k]
      /\ TestsLike(c0.tests, c.tests)
      /\ \A e \in ToSet(c0.runList) : TestOf(c, e).name = e /\ TestOf(c, e).reseed \in Nat \ {0}
  BY ResolvedIs
<1>6. ~args.gui /\ ~args.buildOnly => runs = RunJobs(c, all.builds, Tagged(c))
  BY DEF RunsFor
<1> HIDE DEF all, c, runs, pre, post, new
<1>7. /\ new.jobs = pre \o runs \o post /\ new.tests = c.tests
      /\ new.runList = c.runList /\ new.regrs = c.regrs /\ c.runList = c0.runList /\ c.regrs = c0.regrs
  BY <1>1, <1>2, <1>5 DEF Fields
<1>8. \A e : TestOf(new, e) = TestOf(c, e)
  BY <1>7 DEF TestOf
<1>9. Names(new.tests) = Names(c0.tests)
  BY <1>1, <1>5, <1>7, LikeKnown
<1>10. Asked(new) = Asked(c0) /\ Alone(new) = Alone(c0)
  BY <1>7 DEF Asked, Alone
<1>11. Apart(new) <=> Apart(c0)
  BY <1>9 DEF Apart
<1>12. Requested(new)
  BY <1>7, <1>9, <1>10, <1>11 DEF Requested
<1>13. CASE args.gui \/ args.buildOnly
  BY <1>13 DEF AsRequested, new, all
<1>14. CASE ~args.gui /\ ~args.buildOnly
  <2>1. RunsMade(c, runs)
    BY <1>1, <1>5, <1>6, <1>7, <1>14, RunsAreMade DEF ListsKnown
  <2>2. RunsMade(new, runs)
    BY <1>7, <1>8, <2>1 DEF RunsMade
  <2>3. IsSeq(runs) /\ \A j \in ToSet(runs) : j.target = "run"
    BY <2>1, SeqIs DEF RunsMade
  <2>4. \A j \in ToSet(pre) \cup ToSet(post) : j.target # "run"
    BY <1>3, <1>4
  <2> DEFINE got == OfTarget(pre \o runs \o post, "run")
  <2>5. IsSeq(got) /\ ToSet(got) = ToSet(runs) /\ \E at : Picks(at, runs, got)
    BY <1>3, <1>4, <2>3, <2>4, OnlyMiddle
  <2>6. RunsOf(new) = got
    BY <1>7 DEF RunsOf, OfTarget
  <2> HIDE DEF got
  <2>7. PICK at : Picks(at, runs, RunsOf(new))
    BY <2>5, <2>6
  <2>8. IsSeq(new.runList) /\ \A e \in ToSet(new.runList) : TestOf(new, e).reseed \in Nat \ {0}
    BY <1>1, <1>5, <1>7, <1>8 DEF ListsKnown
  <2>9. AsRequested(new)
    BY <1>12, <2>2, <2>5, <2>6, <2>7, <2>8, RunsRequested DEF new, all
  <2>10. QED BY <2>9 DEF new, all
<1>15. QED BY <1>13, <1>14

(* From the lists on, what is asked is in them, and then in the jobs.        *)
Fulfils(c) ==
  /\ c.stage = "listed" => Requested(c)
  /\ c.stage = "deployed" /\ ~args.covUnr /\ ~args.covAnalyze /\ Apart(c) => AsRequested(c)
RequestsKnown ==
  /\ pc = "args" => cfgs = <<>>
  /\ pc = "coverage" => args.covUnr \/ args.covAnalyze
  /\ \A c \in ToSet(cfgs) : Fulfils(c)

LEMMA FulfilsStill ==
  ASSUME UNCHANGED args, NEW c, Fulfils(c)
  PROVE  Fulfils(c)'
<1>1. Apart(c)' <=> Apart(c)
  BY DEF Apart
<1>2. Asked(c)' = Asked(c)
  BY DEF Asked
<1>3. Alone(c)' = Alone(c)
  BY <1>2 DEF Alone
<1>4. Requested(c)' <=> Requested(c)
  BY <1>1, <1>2, <1>3 DEF Requested, Hit
<1>5. AsRequested(c)' <=> AsRequested(c)
  BY <1>2, <1>3 DEF AsRequested
<1>6. QED BY <1>1, <1>4, <1>5 DEF Fulfils

LEMMA RequestsSet ==
  ASSUME CfgsKnown, RequestsKnown, NEW i \in DOMAIN cfgs, NEW c, c # Exit => Fulfils(c), Advance(i, c),
         UNCHANGED args
  PROVE  RequestsKnown'
<1>1. pc' \in {pc, "done"} /\ (UNCHANGED cfgs \/ (c # Exit /\ cfgs' = [cfgs EXCEPT ![i] = c]))
  BY DEF Advance, SetAt, Fail
<1>2. pc # "args"
  BY DEF RequestsKnown
<1>3. ToSet(cfgs') \subseteq ToSet(cfgs) \/ (c # Exit /\ ToSet(cfgs') \subseteq ToSet(cfgs) \cup {c})
  BY <1>1 DEF ToSet
<1>4. \A x \in ToSet(cfgs') : Fulfils(x)
  BY <1>3 DEF RequestsKnown
<1>5. \A x \in ToSet(cfgs') : Fulfils(x)'
  BY <1>4, FulfilsStill
<1>6. QED BY <1>1, <1>2, <1>5 DEF RequestsKnown

LEMMA CfgsNew ==
  ASSUME MakeCfg
  PROVE  /\ UNCHANGED args /\ pc = "make" /\ pc' \in {"done", "objects"}
         /\ \A x \in ToSet(cfgs') : x.stage = "new" \/ x \in ToSet(cfgs)
<1> DEFINE initial == IF args.tool = None THEN [dvsim_root |-> Scalar("str", "root")]
                      ELSE [dvsim_root |-> Scalar("str", "root"), tool |-> Scalar("str", args.tool)]
           made == MakeCfgs(input.files, args.path, initial, Defaults(args))
           paths == IF input.files[args.path].uses = None THEN <<args.path>>
                    ELSE input.files[args.path].uses
<1>1. /\ UNCHANGED args /\ pc = "make" /\ pc' \in {"done", "objects"}
      /\ UNCHANGED cfgs \/ cfgs' = [i \in DOMAIN made |-> Object(made[i], paths[i])]
  BY DEF MakeCfg, Fail
<1> HIDE DEF made, paths
<1>2. \A v, path : Object(v, path).stage = "new"
  BY DEF Object
<1>3. QED BY <1>1, <1>2 DEF ToSet

LEMMA RequestsStep ==
  ASSUME CfgsKnown, RequestsKnown, [Next]_vars
  PROVE  RequestsKnown'
<1>1. CASE ParseArgs
  BY <1>1 DEF ParseArgs, RequestsKnown, ToSet
<1>2. CASE MakeCfg
  <2>1. \A x \in ToSet(cfgs') : Fulfils(x)
    BY <1>2, CfgsNew DEF RequestsKnown, Fulfils
  <2>2. \A x \in ToSet(cfgs') : Fulfils(x)'
    BY <1>2, <2>1, CfgsNew, FulfilsStill
  <2>3. QED BY <1>2, <2>2, CfgsNew DEF RequestsKnown
<1>3. CASE CreateCoverage
  <2> DEFINE job(i) == IF args.covUnr THEN CovUnr(cfgs[i], args) ELSE CovAnalyze(cfgs[i], args)
             new(i) == [cfgs[i] EXCEPT !.stage = "deployed", !.jobs = <<job(i)>>]
  <2>1. /\ UNCHANGED args /\ pc' \in {"done", "lists"} /\ (args.covUnr \/ args.covAnalyze)
        /\ UNCHANGED cfgs \/ cfgs' = [i \in DOMAIN cfgs |-> new(i)]
    BY <1>3 DEF CreateCoverage, Fail, RequestsKnown
  <2>2. \A i \in DOMAIN cfgs : new(i).stage = "deployed"
    BY DEF CfgsKnown, CfgKnown, Fields
  <2> HIDE DEF new
  <2>3. \A x \in ToSet(cfgs') : x.stage = "deployed" \/ x \in ToSet(cfgs)
    BY <2>1, <2>2 DEF ToSet
  <2>4. \A x \in ToSet(cfgs') : Fulfils(x)
    BY <2>1, <2>3 DEF RequestsKnown, Fulfils
  <2>5. \A x \in ToSet(cfgs') : Fulfils(x)'
    BY <2>1, <2>4, FulfilsStill
  <2>6. QED BY <2>1, <2>5 DEF RequestsKnown
<1>4. ASSUME NEW i \in DOMAIN cfgs, CreateObjects(i) PROVE RequestsKnown'
  <2>1. PICK known : Advance(i, IF Selected(cfgs[i]) THEN Objects(cfgs[i], known)
                                ELSE [cfgs[i] EXCEPT !.stage = "skipped"])
    BY <1>4 DEF CreateObjects
  <2>2. cfgs[i].stage = "new" /\ CfgKnown(cfgs[i]) /\ UNCHANGED args
    BY <1>4 DEF CreateObjects, NextAt, AtStage, CfgsKnown
  <2>3. [cfgs[i] EXCEPT !.stage = "skipped"].stage = "skipped"
    BY <2>2 DEF CfgKnown, Fields
  <2>4. Objects(cfgs[i], known) # Exit => Objects(cfgs[i], known).stage = "created"
    BY <2>2, ObjectsKnown
  <2>5. \A x : x.stage \in {"skipped", "created"} => Fulfils(x)
    BY DEF Fulfils
  <2> DEFINE c == IF Selected(cfgs[i]) THEN Objects(cfgs[i], known) ELSE [cfgs[i] EXCEPT !.stage = "skipped"]
  <2>6. c # Exit => c.stage \in {"skipped", "created"}
    BY <2>3, <2>4
  <2>7. Advance(i, c)
    BY <2>1
  <2> HIDE DEF c
  <2>8. QED BY <2>2, <2>5, <2>6, <2>7, RequestsSet
<1>5. ASSUME NEW i \in DOMAIN cfgs, CreateLists(i) PROVE RequestsKnown'
  <2>1. /\ Advance(i, Listed(cfgs[i])) /\ UNCHANGED args /\ cfgs[i].stage = "created"
        /\ CfgKnown(cfgs[i]) /\ ArgsRead(args)
    BY <1>5 DEF CreateLists, NextAt, AtStage, CfgsKnown
  <2>2. Listed(cfgs[i]) # Exit => Requested(Listed(cfgs[i])) /\ Listed(cfgs[i]).stage = "listed"
    BY <2>1, ListedRequested, ListedIs
  <2>3. Listed(cfgs[i]) # Exit => Fulfils(Listed(cfgs[i]))
    BY <2>2 DEF Fulfils
  <2>4. QED BY <2>1, <2>3, RequestsSet
<1>6. ASSUME NEW i \in DOMAIN cfgs, CreateDeploy(i) PROVE RequestsKnown'
  <2> DEFINE c == cfgs[i]
             new == Deployed(c, Builds(c))
  <2>1. /\ Advance(i, new) /\ UNCHANGED args /\ c.stage = "listed" /\ CfgKnown(c)
    BY <1>6 DEF CreateDeploy, AtStage, CfgsKnown
  <2>2. Requested(c)
    BY <2>1 DEF RequestsKnown, Fulfils, ToSet
  <2>3. new # Exit => new.stage = "deployed"
    <3> DEFINE r == Resolved(c, Builds(c))
    <3>1. new # Exit => \E js : new = [r EXCEPT !.stage = "deployed", !.jobs = js]
      BY DeployedIs
    <3>2. "stage" \in DOMAIN r
      BY <2>1, ResolvedIs DEF CfgKnown, Fields
    <3> HIDE DEF r, new
    <3>3. QED BY <3>1, <3>2
  <2>4. new # Exit /\ Apart(new) => AsRequested(new)
    BY <2>1, <2>2, DeployedRequested
  <2> HIDE DEF new
  <2>5. new # Exit => Fulfils(new)
    BY <2>3, <2>4 DEF Fulfils
  <2>6. QED BY <2>1, <2>5, RequestsSet
<1>7. CASE \/ Choose \/ DeployObjects \/ GenResults \/ UNCHANGED vars
           \/ \E j \in ToSet(jobs), log \in input.logs : RunJob(j, log) \/ LoseJob(j, log)
  <2>1. UNCHANGED <<cfgs, args>> /\ \/ pc' \in {"done", "lists", "run"} \/ UNCHANGED pc
                                    \/ pc' = "coverage" /\ (args.covUnr \/ args.covAnalyze)
    BY <1>7 DEF Choose, DeployObjects, GenResults, RunJob, LoseJob, Fail, vars
  <2>2. \A x \in ToSet(cfgs) : Fulfils(x)'
    BY <2>1, FulfilsStill DEF RequestsKnown
  <2>3. QED BY <2>1, <2>2 DEF RequestsKnown
<1>8. QED BY <1>1, <1>2, <1>3, <1>4, <1>5, <1>6, <1>7 DEF Next

(* Each test asked for runs with indices from 0, each once, and no other    *)
(* test does; test by test in rounds; with seeds that differ unless the      *)
(* user gave them (sim/flow.py:368-430, 474-504, deploy.py:245-290).  If a   *)
(* test is hit by two patterns of --items it is twice in the list           *)
(* (_match_items(), sim/flow.py:368): this is for patterns that do not      *)
(* share a test.                                                           *)
ItemsApart == \A c \in Deployments : Apart(c)
THEOREM RequestsMet == Spec => [](ItemsApart => RunsAsRequested)
<1>1. Init => RequestsKnown
  BY DEF Init, RequestsKnown, ToSet
<1>2. RequestsKnown => (ItemsApart => RunsAsRequested)
  <2>1. SUFFICES ASSUME RequestsKnown, ItemsApart, Handed PROVE \A c \in Deployments : AsRequested(c)
    BY DEF RunsAsRequested, AsRequested
  <2>2. QED BY <2>1 DEF RequestsKnown, ItemsApart, Deployments, Fulfils
<1>3. Spec => []CfgsKnown
  BY CfgsInitially, CfgsStep, PTL DEF Spec
<1>4. QED BY <1>1, <1>2, <1>3, RequestsStep, PTL DEF Spec

-----------------------------------------------------------------------------
(* Jobs in a list, each after what it depends on unless that is `before`    *)
(* it; no two with the same id or directory, in a list or in two.          *)
Fits(s, before) ==
  IsSeq(s) /\ \A k \in 1..Len(s) : \A d \in ToSet(s[k].deps) : d \in before \/ \E l \in 1..k - 1 : s[l].id = d
Unlike(s) == \A k, l \in 1..Len(s) : s[k].id = s[l].id \/ s[k].dir = s[l].dir => k = l
NoneShared(s, t) ==
  \A k \in 1..Len(s), l \in 1..Len(t) : s[k].id # t[l].id /\ s[k].dir # t[l].dir

LEMMA FitsJoined ==
  ASSUME NEW before, NEW s, Fits(s, before), Unlike(s), NEW t, Fits(t, before \cup IdsIn(s)), Unlike(t),
         NoneShared(s, t)
  PROVE  Fits(s \o t, before) /\ Unlike(s \o t)
<1> DEFINE m == Len(s)
           n == Len(t)
           u == s \o t
<1>1. IsSeq(s) /\ IsSeq(t) /\ m \in Nat /\ n \in Nat
  BY SeqIs DEF Fits
<1>2. IsSeq(u) /\ Len(u) = m + n /\ \A i \in 1..m + n : u[i] = IF i <= m THEN s[i] ELSE t[i - m]
  BY <1>1, SeqJoined
<1>3. /\ \A k \in 1..m : \A d \in ToSet(s[k].deps) : d \in before \/ \E l \in 1..k - 1 : s[l].id = d
      /\ \A k \in 1..n : \A d \in ToSet(t[k].deps) :
           d \in before \/ (\E l \in 1..m : s[l].id = d) \/ \E l \in 1..k - 1 : t[l].id = d
      /\ \A k, l \in 1..m : s[k].id = s[l].id \/ s[k].dir = s[l].dir => k = l
      /\ \A k, l \in 1..n : t[k].id = t[l].id \/ t[k].dir = t[l].dir => k = l
      /\ \A k \in 1..m, l \in 1..n : s[k].id # t[l].id /\ s[k].dir # t[l].dir
  BY DEF Fits, Unlike, NoneShared, IdsIn
<1> HIDE DEF m, n, u
<1>4. \A i \in 1..m + n : (i \in 1..m /\ u[i] = s[i]) \/ (i - m \in 1..n /\ i > m /\ u[i] = t[i - m])
  BY <1>1, <1>2
<1>5. \A l \in 1..m : l \in 1..m + n /\ u[l] = s[l]
  BY <1>1, <1>2
<1>6. ASSUME NEW l \in 1..n PROVE m + l \in 1..m + n /\ u[m + l] = t[l]
  <2>1. m + l \in 1..m + n /\ ~(m + l <= m) /\ (m + l) - m = l
    BY <1>1
  <2>2. QED BY <1>2, <2>1
<1>7. ASSUME NEW k \in 1..m + n, NEW d \in ToSet(u[k].deps)
      PROVE  d \in before \/ \E l \in 1..k - 1 : u[l].id = d
  <2>1. CASE k \in 1..m /\ u[k] = s[k]
    <3>1. d \in before \/ \E l \in 1..k - 1 : s[l].id = d
      BY <1>3, <1>7, <2>1
    <3>2. \A l \in 1..k - 1 : l \in 1..m
      BY <1>1, <2>1
    <3>3. QED BY <1>5, <3>1, <3>2
  <2>2. CASE k - m \in 1..n /\ k > m /\ u[k] = t[k - m]
    <3> DEFINE x == k - m
    <3>1. d \in before \/ (\E l \in 1..m : s[l].id = d) \/ \E l \in 1..x - 1 : t[l].id = d
      BY <1>3, <1>7, <2>2
    <3>2. \A l \in 1..m : l \in 1..k - 1
      BY <1>1, <2>2
    <3>3. \A l \in 1..x - 1 : l \in 1..n /\ m + l \in 1..k - 1
      BY <1>1, <2>2
    <3>4. CASE \E l \in 1..m : s[l].id = d
      BY <1>5, <3>2, <3>4
    <3>5. CASE \E l \in 1..x - 1 : t[l].id = d
      BY <1>6, <3>3, <3>5
    <3>6. QED BY <3>1, <3>4, <3>5
  <2>3. QED BY <1>4, <2>1, <2>2
<1>8. ASSUME NEW k \in 1..m + n, NEW l \in 1..m + n, u[k].id = u[l].id \/ u[k].dir = u[l].dir PROVE k = l
  <2>1. CASE k \in 1..m /\ u[k] = s[k] /\ l \in 1..m /\ u[l] = s[l]
    BY <1>3, <1>8, <2>1
  <2>2. CASE k - m \in 1..n /\ u[k] = t[k - m] /\ l - m \in 1..n /\ u[l] = t[l - m]
    <3>1. k - m = l - m
      BY <1>3, <1>8, <2>2
    <3>2. QED BY <1>1, <3>1
  <2>3. CASE k \in 1..m /\ u[k] = s[k] /\ l - m \in 1..n /\ u[l] = t[l - m]
    BY <1>3, <1>8, <2>3
  <2>4. CASE l \in 1..m /\ u[l] = s[l] /\ k - m \in 1..n /\ u[k] = t[k - m]
    BY <1>3, <1>8, <2>4
  <2>5. QED BY <1>4, <2>1, <2>2, <2>3, <2>4
<1>9. QED BY <1>2, <1>7, <1>8 DEF Fits, Unlike, u

(* What the jobs of a configuration are like.  The lists of configurations  *)
(* that share neither an id nor a directory fit one after the other.       *)
JobsGood(c) ==
  /\ Fits(c.jobs, {}) /\ Unlike(c.jobs)
  /\ \A j \in ToSet(c.jobs) :
       /\ j.id[1] = Tag(c) /\ j.dir[1] = c.scratch
       /\ j.target = "run" /\ ~args.runOnly =>
            \E b \in ToSet(c.jobs) : b.target = "build" /\ b.mode = j.mode /\ b.block = j.block /\ j.deps = <<b.id>>

LEMMA FlattenFits ==
  ASSUME NEW seqs, IsSeq(seqs), \A i \in DOMAIN seqs : Fits(seqs[i], {}) /\ Unlike(seqs[i]),
         \A i, k \in DOMAIN seqs : i # k => NoneShared(seqs[i], seqs[k])
  PROVE  Fits(FlattenSeq(seqs), {}) /\ Unlike(FlattenSeq(seqs))
<1> DEFINE flat == FlattenSeq(seqs)
           n == Len(seqs)
           N == Len(flat)
<1>1. n \in Nat /\ DOMAIN seqs = 1..n
  BY SeqIs
<1>2. IsSeq(flat) /\ \E b, p : Blocks(b, p, n, seqs, flat)
  BY FlattenBlocks DEF Fits
<1>3. PICK b, p : Blocks(b, p, n, seqs, flat)
  BY <1>2
<1> HIDE DEF flat, n
<1>4. N \in Nat
  BY <1>2, SeqIs
<1>5. /\ b \in [1..N -> 1..n] /\ p \in [1..N -> Nat \ {0}]
      /\ \A x \in 1..N : p[x] <= Len(seqs[b[x]]) /\ flat[x] = seqs[b[x]][p[x]]
      /\ \A x, y \in 1..N : x < y => b[x] < b[y] \/ (b[x] = b[y] /\ p[x] < p[y])
      /\ \A i \in 1..n : \A q \in 1..Len(seqs[i]) : \E x \in 1..N : b[x] = i /\ p[x] = q
  BY <1>3 DEF Blocks
<1> HIDE DEF N
<1>6. \A i \in 1..n : Len(seqs[i]) \in Nat
  BY <1>1, SeqIs DEF Fits
<1>7. \A x \in 1..N : b[x] \in 1..n /\ p[x] \in 1..Len(seqs[b[x]])
  BY <1>5, <1>6
<1>8. ASSUME NEW x \in 1..N, NEW y \in 1..N, b[x] = b[y], p[y] < p[x] PROVE y < x
  <2>1. x \in Int /\ y \in Int /\ (x < y \/ x = y \/ y < x)
    BY <1>4
  <2>2. p[x] \in Int /\ p[y] \in Int /\ b[x] \in Int /\ b[y] \in Int
    BY <1>5
  <2>3. QED BY <1>5, <1>8, <2>1, <2>2
<1>9. ASSUME NEW x \in 1..N, NEW y \in 1..N, b[x] = b[y], p[y] = p[x] PROVE y = x
  <2>1. x \in Int /\ y \in Int /\ (x < y \/ x = y \/ y < x)
    BY <1>4
  <2>2. p[x] \in Int /\ p[y] \in Int /\ b[x] \in Int /\ b[y] \in Int
    BY <1>5
  <2>3. QED BY <1>5, <1>9, <2>1, <2>2
<1>10. ASSUME NEW x \in 1..N, NEW d \in ToSet(flat[x].deps) PROVE \E l \in 1..x - 1 : flat[l].id = d
  <2> DEFINE i == b[x]
             s == seqs[i]
             k == p[x]
  <2>1. i \in 1..n /\ k \in 1..Len(s) /\ flat[x] = s[k] /\ Fits(s, {}) /\ Len(s) \in Nat
    BY <1>1, <1>5, <1>6, <1>7
  <2>2. PICK q \in 1..k - 1 : s[q].id = d
    BY <1>10, <2>1 DEF Fits
  <2>3. q \in 1..Len(s) /\ q < k
    BY <2>1, <2>2
  <2>4. PICK y \in 1..N : b[y] = i /\ p[y] = q
    BY <1>5, <2>1, <2>3
  <2>5. y < x /\ flat[y] = s[q]
    BY <1>5, <1>8, <2>3, <2>4
  <2>6. y \in 1..x - 1
    BY <1>4, <2>5
  <2>7. QED BY <2>2, <2>5, <2>6
<1>11. ASSUME NEW x \in 1..N, NEW y \in 1..N, flat[x].id = flat[y].id \/ flat[x].dir = flat[y].dir PROVE x = y
  <2>1. /\ b[x] \in 1..n /\ p[x] \in 1..Len(seqs[b[x]]) /\ flat[x] = seqs[b[x]][p[x]]
        /\ b[y] \in 1..n /\ p[y] \in 1..Len(seqs[b[y]]) /\ flat[y] = seqs[b[y]][p[y]]
    BY <1>5, <1>7
  <2>2. b[x] = b[y]
    <3>1. SUFFICES ASSUME b[x] # b[y] PROVE FALSE
      OBVIOUS
    <3>2. NoneShared(seqs[b[x]], seqs[b[y]])
      BY <1>1, <2>1, <3>1
    <3>3. flat[x].id # flat[y].id /\ flat[x].dir # flat[y].dir
      BY <2>1, <3>2 DEF NoneShared
    <3>4. QED BY <1>11, <3>3
  <2>3. p[x] = p[y]
    BY <1>1, <1>11, <2>1, <2>2 DEF Unlike
  <2>4. QED BY <1>9, <2>2, <2>3
<1>12. QED BY <1>2, <1>10, <1>11 DEF Fits, Unlike, N, flat

(* All are kept if no two have the same id.                                *)
LEMMA KeptAll ==
  ASSUME NEW specs, IsSeq(specs), Unlike(specs)
  PROVE  Kept(specs) = specs
<1> DEFINE n == Len(specs)
           S == ToSet(specs)
<1>1. n \in Nat /\ DOMAIN specs = 1..n /\ specs \in Seq(S)
  BY SeqIs DEF IsSeq
<1>2. PICK r : KeepsFirst(r, S, specs)
  BY <1>1, KeptFolds
<1>3. /\ r \in [0..n -> Seq(S)] /\ r[0] = <<>> /\ \A k \in 1..n : r[k] = Keep(r[k - 1], specs[k])
      /\ Kept(specs) = r[n]
  BY <1>2 DEF KeepsFirst
<1>4. \A i, k \in 1..n : specs[i].id = specs[k].id => i = k
  BY DEF Unlike
<1> HIDE DEF n, S
<1> DEFINE G == {k \in 0..n : Len(r[k]) = k /\ \A i \in 1..k : r[k][i] = specs[i]}
<1>5. 0 \in G
  BY <1>1, <1>3
<1>6. ASSUME NEW k \in 1..n, k - 1 \in G PROVE k \in G
  <2> DEFINE acc == r[k - 1]
             e == specs[k]
  <2>1. k - 1 \in 0..n /\ k \in 0..n /\ acc \in Seq(S) /\ Len(acc) = k - 1 /\ \A i \in 1..k - 1 : acc[i] = specs[i]
    <3>1. k - 1 \in 0..n /\ k \in 0..n
      BY <1>1
    <3>2. Len(r[k - 1]) = k - 1 /\ \A i \in 1..k - 1 : r[k - 1][i] = specs[i]
      BY <1>6
    <3>3. r[k - 1] \in Seq(S)
      BY <1>3, <3>1
    <3>4. QED BY <3>1, <3>2, <3>3
  <2>2. r[k] = Keep(acc, e)
    BY <1>3
  <2> HIDE DEF acc
  <2>3. DOMAIN acc = 1..k - 1 /\ \A i \in 1..k - 1 : acc[i].id # e.id
    <3>1. \A i \in 1..k - 1 : i \in 1..n /\ i # k
      BY <1>1
    <3>2. QED BY <1>4, <2>1, <3>1
  <2>4. r[k] = Append(acc, e)
    BY <2>2, <2>3 DEF Keep
  <2>5. IsSeq(acc)
    BY <2>1, SeqElements
  <2> HIDE DEF e
  <2>6. Len(Append(acc, e)) = Len(acc) + 1 /\ Append(acc, e)[Len(acc) + 1] = e
        /\ \A i \in 1..Len(acc) : Append(acc, e)[i] = acc[i]
    BY <2>5, SeqAppended
  <2>7. (k - 1) + 1 = k /\ \A i \in 1..k : i = k \/ i \in 1..k - 1
    BY <1>1
  <2>8. \A i \in 1..k : r[k][i] = specs[i]
    BY <2>1, <2>4, <2>6, <2>7 DEF e
  <2>9. QED BY <2>1, <2>4, <2>6, <2>7, <2>8
<1>7. n \in G
  <2> HIDE DEF G
  <2>1. \A k \in 0..n : k \in G
    BY <1>1, <1>5, <1>6, Climb
  <2>2. QED BY <1>1, <2>1
<1>8. r[n] \in Seq(S) /\ Len(r[n]) = n /\ \A i \in 1..n : r[n][i] = specs[i]
  BY <1>1, <1>3, <1>7
<1>9. r[n] = specs
  BY <1>1, <1>8 DEF n
<1>10. QED BY <1>3, <1>9

(* The id, the directory and the dependencies of each kind of job.          *)
LEMMA IdOf ==
  ASSUME NEW t, NEW qual, IsSeq(qual), NEW id, id = <<t>> \o qual
  PROVE  Len(id) = Len(qual) + 1 /\ id[1] = t /\ \A i \in 1..Len(qual) : id[i + 1] = qual[i]
<1> DEFINE n == Len(qual)
           one == <<t>>
<1>1. n \in Nat /\ IsSeq(one) /\ Len(one) = 1 /\ one[1] = t
  BY SeqIs DEF IsSeq, ToSet
<1> HIDE DEF one
<1>2. Len(id) = 1 + n /\ \A i \in 1..1 + n : id[i] = IF i <= 1 THEN one[i] ELSE qual[i - 1]
  BY <1>1, SeqJoined DEF one
<1> HIDE DEF n
<1>3. 1 \in 1..1 + n /\ \A i \in 1..n : i + 1 \in 1..1 + n /\ ~(i + 1 <= 1) /\ (i + 1) - 1 = i
  BY <1>1
<1>4. id[1] = t
  BY <1>1, <1>2, <1>3
<1>5. \A i \in 1..n : id[i + 1] = qual[i]
  BY <1>2, <1>3
<1>6. Len(id) = n + 1
  BY <1>1, <1>2
<1>7. QED BY <1>4, <1>5, <1>6 DEF n

JobKeys == {"id", "block", "name", "target", "mode", "seed", "deps", "dir", "covdb", "all"}
LEMMA SpecIs ==
  ASSUME NEW c, NEW a, NEW target, NEW qual, NEW s, s = JobSpec(c, a, target, qual)
  PROVE     /\ JobKeys \subseteq DOMAIN s
            /\ s.id = <<Tag(c)>> \o qual /\ s.block = <<c.name, c.variant>> /\ s.target = target
            /\ s.deps = <<>> /\ s.dir = <<c.scratch, target>>
BY DEF JobSpec, JobKeys

LEMMA SpecNeedsAll ==
  ASSUME NEW c, NEW a, NEW target, NEW qual
  PROVE  JobSpec(c, a, target, qual).all
BY DEF JobSpec

BuildShape(c, j) ==
  /\ j.target = "build" /\ j.mode = j.name /\ j.block = <<c.name, c.variant>> /\ j.deps = <<>>
  /\ Len(j.id) = 2 /\ j.id[1] = Tag(c) /\ j.id[2] = j.name
  /\ j.dir = <<c.scratch, "build", j.name>> /\ j.covdb = <<c.scratch, j.name>> /\ j.all
RunShape(c, bs, j) ==
  /\ j.target = "run" /\ j.block = <<c.name, c.variant>>
  /\ Len(j.id) = 4 /\ j.id[1] = Tag(c) /\ j.id[3] = j.name
  /\ j.dir = <<c.scratch, "run", j.name, j.id[2]>> /\ j.covdb = <<c.scratch, j.mode>>
  /\ IF args.runOnly THEN j.deps = <<>>
     ELSE \E b \in ToSet(bs) : b.name = j.mode /\ j.deps = <<b.id>>
CoverShape(c, target, j) ==
  /\ j.target = target
  /\ Len(j.id) = 2 /\ j.id[1] = Tag(c) /\ j.id[2] = target
  /\ j.dir = <<c.scratch, target>>

(* Short lists.                                                            *)
LEMMA SeqOfOne ==
  ASSUME NEW e
  PROVE  IsSeq(<<e>>) /\ Len(<<e>>) = 1 /\ <<e>>[1] = e /\ ToSet(<<e>>) = {e}
<1>1. DOMAIN <<e>> = 1..1 /\ <<e>>[1] = e /\ Len(<<e>>) = 1
  OBVIOUS
<1>2. ToSet(<<e>>) = {e}
  BY <1>1 DEF ToSet
<1>3. <<e>> \in Seq({e})
  OBVIOUS
<1>4. QED BY <1>1, <1>2, <1>3 DEF IsSeq

LEMMA SeqOfThree ==
  ASSUME NEW x, NEW y, NEW z
  PROVE  IsSeq(<<x, y, z>>) /\ Len(<<x, y, z>>) = 3 /\ <<x, y, z>>[1] = x /\ <<x, y, z>>[2] = y
<1>1. <<x, y, z>> \in Seq({x, y, z})
  OBVIOUS
<1>2. IsSeq(<<x, y, z>>)
  BY <1>1, SeqElements
<1>3. Len(<<x, y, z>>) = 3 /\ <<x, y, z>>[1] = x /\ <<x, y, z>>[2] = y
  OBVIOUS
<1>4. QED BY <1>2, <1>3

(* Each constructor of module Deploy makes a job of its shape.             *)
LEMMA BuildIs ==
  ASSUME NEW c, NEW m
  PROVE  BuildShape(c, CompileSim(c, args, m)) /\ CompileSim(c, args, m).name = m.name
<1> DEFINE q == <<m.name>>
           s == JobSpec(c, args, "build", q)
           j == CompileSim(c, args, m)
<1>1. /\ JobKeys \subseteq DOMAIN s /\ s.id = <<Tag(c)>> \o q /\ s.block = <<c.name, c.variant>>
      /\ s.target = "build" /\ s.deps = <<>>
  <2> HIDE DEF q
  <2>1. QED BY SpecIs
<1>2. IsSeq(q) /\ Len(q) = 1 /\ q[1] = m.name /\ s.all
  BY SeqOfOne, SpecNeedsAll
<1> HIDE DEF s, q
<1>3. /\ j.id = s.id /\ j.block = s.block /\ j.target = s.target /\ j.deps = s.deps
      /\ j.name = m.name /\ j.mode = m.name /\ j.dir = <<c.scratch, "build", m.name>>
      /\ j.covdb = <<c.scratch, m.name>> /\ j.all = s.all
  BY <1>1 DEF CompileSim, JobKeys, s, q
<1> HIDE DEF j
<1>4. Len(s.id) = 2 /\ s.id[1] = Tag(c) /\ s.id[2] = m.name
  <2>1. 1 \in 1..1 /\ 1 + 1 = 2
    OBVIOUS
  <2>2. Len(s.id) = 1 + 1 /\ s.id[1] = Tag(c) /\ s.id[1 + 1] = q[1]
    BY <1>1, <1>2, <2>1, IdOf
  <2>3. QED BY <1>2, <2>1, <2>2
<1>5. QED BY <1>1, <1>2, <1>3, <1>4 DEF BuildShape, j

LEMMA RunOfIs ==
  ASSUME NEW c, NEW idx, NEW t, NEW bs, NEW seed,
         ~args.runOnly => IsSeq(bs) /\ t.mode \in Names(bs)
  PROVE  LET j == RunTest(c, args, idx, t, bs[Find(t.mode, bs)], seed)
         IN RunShape(c, bs, j) /\ j.mode = t.mode
<1> DEFINE q == <<idx, t.name, seed>>
           s == JobSpec(c, args, "run", q)
           b == bs[Find(t.mode, bs)]
           j == RunTest(c, args, idx, t, b, seed)
<1>1. /\ JobKeys \subseteq DOMAIN s /\ s.id = <<Tag(c)>> \o q /\ s.block = <<c.name, c.variant>>
      /\ s.target = "run" /\ s.deps = <<>>
  <2> HIDE DEF q
  <2>1. QED BY SpecIs
<1>2. IsSeq(q) /\ Len(q) = 3 /\ q[1] = idx /\ q[2] = t.name
  <2> DEFINE n == t.name
             p == <<idx, n, seed>>
  <2>1. q = p
    OBVIOUS
  <2> HIDE DEF q, n
  <2>2. IsSeq(p) /\ Len(p) = 3 /\ p[1] = idx /\ p[2] = n
    BY SeqOfThree
  <2> HIDE DEF p
  <2>3. IsSeq(q) /\ Len(q) = 3 /\ q[1] = idx /\ q[2] = n
    BY <2>1, <2>2
  <2>4. QED BY <2>3 DEF n
<1> HIDE DEF s, q, b
<1>3. /\ j.id = s.id /\ j.block = s.block /\ j.target = s.target
      /\ j.deps = (IF args.runOnly THEN <<>> ELSE <<b.id>>)
      /\ j.name = t.name /\ j.mode = t.mode /\ j.dir = <<c.scratch, "run", t.name, idx>>
      /\ j.covdb = <<c.scratch, t.mode>>
  BY <1>1 DEF RunTest, JobKeys, s, q
<1> HIDE DEF j
<1>4. Len(s.id) = 4 /\ s.id[1] = Tag(c) /\ s.id[2] = idx /\ s.id[3] = t.name
  <2>1. 1 \in 1..3 /\ 2 \in 1..3 /\ 1 + 1 = 2 /\ 2 + 1 = 3
    OBVIOUS
  <2>2. Len(s.id) = 3 + 1 /\ s.id[1] = Tag(c) /\ \A i \in 1..3 : s.id[i + 1] = q[i]
    <3> DEFINE id == s.id
               g == Tag(c)
    <3>1. id = <<g>> \o q /\ IsSeq(q)
      BY <1>1, <1>2
    <3> HIDE DEF id, g
    <3>2. Len(id) = Len(q) + 1 /\ id[1] = g /\ \A i \in 1..Len(q) : id[i + 1] = q[i]
      BY <3>1, IdOf
    <3>3. QED BY <1>2, <3>2 DEF id, g
  <2>3. s.id[1 + 1] = q[1] /\ s.id[2 + 1] = q[2]
    BY <2>1, <2>2
  <2>4. QED BY <1>2, <2>1, <2>2, <2>3
<1>5. ~args.runOnly => b \in ToSet(bs) /\ b.name = t.mode
  BY FindIs DEF b
<1>6. QED BY <1>1, <1>3, <1>4, <1>5 DEF RunShape, j, b

LEMMA CoverIs ==
  ASSUME NEW c, NEW target, NEW s, s = JobSpec(c, args, target, <<target>>), NEW j,
         j.id = s.id, j.target = s.target, j.dir = s.dir
  PROVE  CoverShape(c, target, j)
<1> DEFINE q == <<target>>
<1>1. s.id = <<Tag(c)>> \o q /\ s.target = target /\ s.dir = <<c.scratch, target>>
  BY SpecIs
<1>2. IsSeq(q) /\ Len(q) = 1 /\ q[1] = target
  BY SeqOfOne
<1> HIDE DEF q
<1>3. 1 \in 1..1 /\ 1 + 1 = 2
  OBVIOUS
<1>4. Len(s.id) = 1 + 1 /\ s.id[1] = Tag(c) /\ s.id[1 + 1] = q[1]
  <2> DEFINE id == s.id
             g == Tag(c)
  <2>1. id = <<g>> \o q /\ IsSeq(q)
    BY <1>1, <1>2
  <2> HIDE DEF id, g
  <2>2. Len(id) = Len(q) + 1 /\ id[1] = g /\ \A i \in 1..Len(q) : id[i + 1] = q[i]
    BY <2>1, IdOf
  <2>3. QED BY <1>2, <1>3, <2>2 DEF id, g
<1>5. QED BY <1>1, <1>2, <1>3, <1>4 DEF CoverShape

LEMMA CoverJobs ==
  ASSUME NEW c, NEW runs
  PROVE  LET merge == CovMerge(c, args, runs)
             report == CovReport(c, args, merge)
             plan == CovVPlan(c, args, report)
         IN /\ CoverShape(c, "cov_merge", merge) /\ merge.deps = [i \in DOMAIN runs |-> runs[i].id]
            /\ merge.covdb = CovDbDirs(c, runs)
            /\ CoverShape(c, "cov_report", report) /\ report.deps = <<merge.id>>
            /\ CoverShape(c, "cov_vplan", plan) /\ plan.deps = <<report.id>>
<1> DEFINE merge == CovMerge(c, args, runs)
           report == CovReport(c, args, merge)
           plan == CovVPlan(c, args, report)
           s1 == JobSpec(c, args, "cov_merge", <<"cov_merge">>)
           s2 == JobSpec(c, args, "cov_report", <<"cov_report">>)
           s3 == JobSpec(c, args, "cov_vplan", <<"cov_vplan">>)
<1>1. JobKeys \subseteq DOMAIN s1 /\ JobKeys \subseteq DOMAIN s2 /\ JobKeys \subseteq DOMAIN s3
  <2>1. \A target : JobKeys \subseteq DOMAIN JobSpec(c, args, target, <<target>>)
    BY SpecIs
  <2>2. QED BY <2>1
<1>2. /\ merge.id = s1.id /\ merge.target = s1.target /\ merge.dir = s1.dir
      /\ merge.deps = [i \in DOMAIN runs |-> runs[i].id] /\ merge.covdb = CovDbDirs(c, runs)
  <2> HIDE DEF s1
  <2>1. QED BY <1>1 DEF CovMerge, JobKeys, s1
<1>3. /\ report.id = s2.id /\ report.target = s2.target /\ report.dir = s2.dir
      /\ report.deps = <<merge.id>>
  <2> HIDE DEF s1, s2, merge
  <2>1. QED BY <1>1 DEF CovReport, JobKeys, s2
<1>4. /\ plan.id = s3.id /\ plan.target = s3.target /\ plan.dir = s3.dir
      /\ plan.deps = <<report.id>>
  <2> HIDE DEF s1, s2, s3, merge, report
  <2>1. QED BY <1>1 DEF CovVPlan, JobKeys, s3
<1> HIDE DEF merge, report, plan
<1>5. /\ CoverShape(c, "cov_merge", merge) /\ CoverShape(c, "cov_report", report)
      /\ CoverShape(c, "cov_vplan", plan)
  BY <1>2, <1>3, <1>4, CoverIs
<1>6. QED BY <1>2, <1>3, <1>4, <1>5 DEF merge, report, plan

(* _create_deploy_objects(): so do the lists of runs and of builds, where a *)
(* build is listed once for each mode that no other is equivalent to.      *)
LEMMA RunsAreShaped ==
  ASSUME NEW c, IsSeq(c.runList), NEW builds, IsSeq(builds),
         \A e \in ToSet(c.runList) : /\ TestOf(c, e).reseed \in Nat /\ TestOf(c, e).name = e
                                     /\ TestOf(c, e).mode \in Names(builds)
  PROVE  \A j \in ToSet(RunJobs(c, builds, Tagged(c))) : RunShape(c, builds, j)
<1> DEFINE tagged == Tagged(c)
           n == Len(tagged)
           seeded == [k \in DOMAIN tagged |-> [index |-> tagged[k].index, test |-> tagged[k].test,
                                               seed |-> SeedOf(args, Created + k)]]
           ordered == ByIndex(seeded)
           N == Len(ordered)
           Job(r) == RunTest(c, args, r.index, r.test, builds[Find(r.test.mode, builds)], r.seed)
           runs == [k \in DOMAIN ordered |-> Job(ordered[k])]
<1>1. RunJobs(c, builds, tagged) = runs
  BY DEF RunJobs
<1>2. TaggedWell(c, tagged)
  BY TaggedPlaces
<1> HIDE DEF tagged
<1>3. n \in Nat /\ DOMAIN tagged = 1..n
  BY <1>2, SeqIs DEF TaggedWell
<1>4. /\ seeded = [k \in 1..n |-> seeded[k]]
      /\ \A k \in 1..n : seeded[k].index = tagged[k].index /\ seeded[k].test = tagged[k].test
  BY <1>3
<1> HIDE DEF n, seeded
<1>5. IsSeq(seeded) /\ Len(seeded) = n
  BY <1>3, <1>4, SeqMade
<1>6. \A k \in 1..Len(seeded) : seeded[k].index \in 0..Len(seeded) - 1
  BY <1>2, <1>4, <1>5 DEF TaggedWell, n
<1>7. PICK at : Places(at, seeded, ordered)
  BY <1>5, <1>6, ByIndexPlaces
<1> HIDE DEF ordered
<1>8. DOMAIN ordered = 1..N
  BY <1>7, SeqIs DEF Places
<1>9. ASSUME NEW j \in ToSet(runs) PROVE RunShape(c, builds, j)
  <2>1. PICK k \in 1..N : j = Job(ordered[k])
    <3> HIDE DEF runs
    <3>1. PICK k \in DOMAIN runs : j = runs[k]
      BY <1>9 DEF ToSet
    <3>2. DOMAIN runs = 1..N /\ runs[k] = Job(ordered[k])
      BY <1>8, <3>1 DEF runs
    <3>3. QED BY <3>1, <3>2
  <2> DEFINE t == ordered[k].test
             idx == ordered[k].index
             seed == ordered[k].seed
  <2>2. at[k] \in 1..n /\ ordered[k] = seeded[at[k]]
    BY <1>5, <1>7 DEF Places, N
  <2>3. t.mode \in Names(builds)
    <3>1. t = tagged[at[k]].test
      BY <1>4, <2>2
    <3>2. PICK e \in ToSet(c.runList) : tagged[at[k]].test = TestOf(c, e)
      BY <1>2, <2>2 DEF TaggedWell, n
    <3> HIDE DEF t
    <3>3. QED BY <3>1, <3>2
  <2>4. j = RunTest(c, args, idx, t, builds[Find(t.mode, builds)], seed)
    BY <2>1
  <2> HIDE DEF t, idx, seed
  <2>5. QED BY <2>3, <2>4, RunOfIs
<1>10. QED BY <1>1, <1>9 DEF tagged

LEMMA BuildsAreShaped ==
  ASSUME NEW c, IsSeq(c.buildList), OnceEach(c.buildList), IsSeq(c.builds),
         ToSet(c.buildList) \subseteq Names(c.builds)
  PROVE  LET bs == Builds(c).builds
         IN /\ Fits(bs, {}) /\ Unlike(bs)
            /\ \A j \in ToSet(bs) : BuildShape(c, j) /\ j.name \in ToSet(c.buildList)
<1> DEFINE list == c.buildList
           seq == CompilesOf(c)
           n == Len(list)
           bs == Builds(c).builds
           m == Len(bs)
<1>1. n \in Nat /\ DOMAIN list = 1..n /\ ToSet(list) = {list[i] : i \in 1..n}
  BY SeqIs
<1>2. ASSUME NEW i \in 1..n PROVE BuildShape(c, seq[i]) /\ seq[i].name = list[i] /\ seq[i].name \in ToSet(list)
  <2> DEFINE mode == c.builds[Find(list[i], c.builds)]
  <2>1. mode.name = list[i]
    BY <1>1, FindIs
  <2>2. seq[i] = CompileSim(c, args, mode)
    BY <1>1 DEF CompilesOf
  <2> HIDE DEF mode, seq, list
  <2>3. QED BY <1>1, <2>1, <2>2, BuildIs
<1>3. BuildsKept(seq, n, Builds(c)) /\ Len(seq) = n
  BY BuildsAreKept
<1> HIDE DEF seq, bs
<1>4. IsSeq(bs) /\ \E at : Picks(at, seq, bs)
  BY <1>3 DEF BuildsKept, bs
<1>5. PICK at : Picks(at, seq, bs)
  BY <1>4
<1>6. m \in Nat /\ ToSet(bs) = {bs[k] : k \in 1..m}
  BY <1>4, SeqIs
<1> HIDE DEF n, m
<1>7. ASSUME NEW k \in 1..m
      PROVE  /\ at[k] \in 1..n /\ BuildShape(c, bs[k]) /\ bs[k].name = list[at[k]]
             /\ bs[k].name \in ToSet(list)
  <2>1. at[k] \in 1..n /\ bs[k] = seq[at[k]]
    BY <1>3, <1>5 DEF Picks, m
  <2>2. QED BY <1>2, <2>1
<1>8. ASSUME NEW k \in 1..m, NEW l \in 1..m, bs[k].id = bs[l].id \/ bs[k].dir = bs[l].dir PROVE k = l
  <2>1. BuildShape(c, bs[k]) /\ BuildShape(c, bs[l])
    BY <1>7
  <2>2. bs[k].dir = bs[l].dir => bs[k].name = bs[l].name
    BY <2>1 DEF BuildShape
  <2>3. bs[k].id = bs[l].id => bs[k].name = bs[l].name
    BY <2>1 DEF BuildShape
  <2>4. at[k] = at[l]
    BY <1>1, <1>7, <1>8, <2>2, <2>3 DEF OnceEach
  <2>5. \A x, y \in 1..m : x < y => at[x] < at[y]
    BY <1>5 DEF Picks, m
  <2>6. at[k] \in Nat /\ (k < l \/ l < k \/ k = l)
    BY <1>6, <1>7
  <2>7. QED BY <2>4, <2>5, <2>6
<1>9. \A k \in 1..m : ToSet(bs[k].deps) = {}
  BY <1>7 DEF BuildShape, ToSet
<1>10. Fits(bs, {}) /\ Unlike(bs)
  BY <1>4, <1>8, <1>9 DEF Fits, Unlike, m
<1>11. QED BY <1>6, <1>7, <1>10 DEF bs

LEMMA NoneFits ==
  ASSUME NEW before
  PROVE  Fits(<<>>, before) /\ Unlike(<<>>) /\ IdsIn(<<>>) = {} /\ ToSet(<<>>) = {}
<1>1. IsSeq(<<>>) /\ Len(<<>>) = 0 /\ 1..0 = {} /\ ToSet(<<>>) = {}
  BY DEF IsSeq, ToSet
<1>2. QED BY <1>1 DEF Fits, Unlike, IdsIn

LEMMA JoinedToOne ==
  ASSUME NEW x, NEW y, NEW z
  PROVE  /\ IsSeq(<<x>> \o <<y>>) /\ ToSet(<<x>> \o <<y>>) \subseteq {x, y} /\ Len(<<x>> \o <<y>>) = 2
         /\ (<<x>> \o <<y>>)[1] = x /\ (<<x>> \o <<y>>)[2] = y
         /\ IsSeq(<<x>> \o <<y, z>>) /\ ToSet(<<x>> \o <<y, z>>) \subseteq {x, y, z} /\ Len(<<x>> \o <<y, z>>) = 3
         /\ (<<x>> \o <<y, z>>)[1] = x /\ (<<x>> \o <<y, z>>)[2] = y /\ (<<x>> \o <<y, z>>)[3] = z
<1> DEFINE S == {x, y, z}
           a == <<x>>
           t == <<y, z>>
           b == <<y>>
           u == a \o b
           v == a \o t
<1>1. IsSeq(a) /\ Len(a) = 1 /\ a[1] = x /\ ToSet(a) = {x} /\ IsSeq(b) /\ Len(b) = 1 /\ b[1] = y /\ ToSet(b) = {y}
  BY SeqOfOne
<1>2. IsSeq(t) /\ Len(t) = 2 /\ t[1] = y /\ t[2] = z /\ ToSet(t) \subseteq {y, z}
  <2>1. t \in Seq({y, z}) /\ Len(t) = 2 /\ t[1] = y /\ t[2] = z
    OBVIOUS
  <2> HIDE DEF t
  <2>2. QED BY <2>1, SeqElements
<1> HIDE DEF a, b, t
<1>3. IsSeq(u) /\ ToSet(u) = {x, y} /\ Len(u) = 2 /\ \A i \in 1..2 : u[i] = IF i <= 1 THEN a[i] ELSE b[i - 1]
  <2>1. /\ IsSeq(u) /\ ToSet(u) = ToSet(a) \cup ToSet(b) /\ Len(u) = Len(a) + Len(b)
        /\ \A i \in 1..Len(a) + Len(b) : u[i] = IF i <= Len(a) THEN a[i] ELSE b[i - Len(a)]
    BY <1>1, SeqJoined
  <2> HIDE DEF u
  <2>2. 1 + 1 = 2
    OBVIOUS
  <2>3. QED BY <1>1, <2>1, <2>2
<1>4. /\ IsSeq(v) /\ ToSet(v) \subseteq S /\ Len(v) = 3 /\ \A i \in 1..3 : v[i] = IF i <= 1 THEN a[i] ELSE t[i - 1]
  <2>1. /\ IsSeq(v) /\ ToSet(v) = ToSet(a) \cup ToSet(t) /\ Len(v) = Len(a) + Len(t)
        /\ \A i \in 1..Len(a) + Len(t) : v[i] = IF i <= Len(a) THEN a[i] ELSE t[i - Len(a)]
    BY <1>1, <1>2, SeqJoined
  <2> HIDE DEF v
  <2>2. 1 + 2 = 3
    OBVIOUS
  <2>3. QED BY <1>1, <1>2, <2>1, <2>2
<1> HIDE DEF u, v
<1>5. u[1] = x /\ u[2] = y
  BY <1>1, <1>3
<1>6. v[1] = x /\ v[2] = y /\ v[3] = z
  BY <1>1, <1>2, <1>4
<1>7. QED BY <1>3, <1>4, <1>5, <1>6 DEF u, v, a, b, t, S

Covers == {"cov_merge", "cov_report", "cov_vplan"}
LEMMA CoverageFits ==
  ASSUME NEW c, NEW runs, IsSeq(runs), NEW before, IdsIn(runs) \subseteq before
  PROVE  LET post == CoverageJobs(c, runs)
         IN /\ Fits(post, before) /\ Unlike(post)
            /\ \A j \in ToSet(post) : \E t \in Covers : CoverShape(c, t, j)
<1> DEFINE merge == CovMerge(c, args, runs)
           report == CovReport(c, args, merge)
           plan == CovVPlan(c, args, report)
           post == CoverageJobs(c, runs)
<1>1. post \in {<<>>, <<merge>> \o <<report>>, <<merge>> \o <<report, plan>>}
  BY DEF CoverageJobs
<1>2. /\ CoverShape(c, "cov_merge", merge) /\ merge.deps = [i \in DOMAIN runs |-> runs[i].id]
      /\ merge.covdb = CovDbDirs(c, runs)
      /\ CoverShape(c, "cov_report", report) /\ report.deps = <<merge.id>>
      /\ CoverShape(c, "cov_vplan", plan) /\ plan.deps = <<report.id>>
  BY CoverJobs
<1> HIDE DEF merge, report, plan, post
<1>4. /\ ToSet(merge.deps) \subseteq before /\ ToSet(report.deps) = {merge.id} /\ ToSet(plan.deps) = {report.id}
  <2>1. DOMAIN runs = 1..Len(runs)
    BY SeqIs
  <2>2. ToSet(merge.deps) = IdsIn(runs)
    BY <1>2, <2>1 DEF ToSet, IdsIn
  <2>3. QED BY <1>2, <2>2, SeqOfOne
<1>5. /\ merge.id # report.id /\ merge.id # plan.id /\ report.id # plan.id
      /\ merge.dir # report.dir /\ merge.dir # plan.dir /\ report.dir # plan.dir
  BY <1>2 DEF CoverShape
<1>6. CASE post = <<>>
  BY <1>6, NoneFits DEF post
<1>7. CASE post = <<merge>> \o <<report>>
  <2>1. Len(post) = 2 /\ post[1] = merge /\ post[2] = report
    BY <1>7, JoinedToOne
  <2>2. IsSeq(post) /\ ToSet(post) \subseteq {merge, report}
    BY <1>7, JoinedToOne
  <2>3. Fits(post, before)
    BY <1>4, <2>1, <2>2 DEF Fits
  <2>4. Unlike(post)
    BY <1>5, <2>1 DEF Unlike
  <2>5. QED BY <1>2, <2>2, <2>3, <2>4 DEF Covers, post
<1>8. CASE post = <<merge>> \o <<report, plan>>
  <2>1. Len(post) = 3 /\ post[1] = merge /\ post[2] = report /\ post[3] = plan
    BY <1>8, JoinedToOne
  <2>2. IsSeq(post) /\ ToSet(post) \subseteq {merge, report, plan}
    BY <1>8, JoinedToOne
  <2>3. Fits(post, before)
    BY <1>4, <2>1, <2>2 DEF Fits
  <2>4. Unlike(post)
    BY <1>5, <2>1 DEF Unlike
  <2>5. QED BY <1>2, <2>2, <2>3, <2>4 DEF Covers, post
<1>9. QED BY <1>1, <1>6, <1>7, <1>8

LEMMA FirstOf ==
  ASSUME NEW runs, IsSeq(runs)
  PROVE  LET s == SubSeq(runs, 1, Min({1, Len(runs)}))
         IN IsSeq(s) /\ ToSet(s) \subseteq ToSet(runs) /\ \A k, l \in 1..Len(s) : k = l
<1> DEFINE S == ToSet(runs)
           n == Min({1, Len(runs)})
           s == SubSeq(runs, 1, n)
<1>1. runs \in Seq(S) /\ Len(runs) \in Nat
  BY SeqIs DEF IsSeq
<1>2. n \in {0, 1} /\ n <= Len(runs)
  <2>1. CASE Len(runs) = 0
    <3>1. {1, Len(runs)} = {0, 1}
      BY <2>1
    <3>2. Min({0, 1}) = 0
      BY DEF Min
    <3>3. n = 0
      BY <3>1, <3>2
    <3>4. QED BY <2>1, <3>3
  <2>2. CASE Len(runs) # 0
    <3>1. {1, Len(runs)} # {} /\ \A x \in {1, Len(runs)} : 1 <= x
      BY <1>1, <2>2
    <3>2. n = 1
      BY <3>1 DEF Min
    <3>3. QED BY <1>1, <2>2, <3>2
  <2>3. QED BY <2>1, <2>2
<1> HIDE DEF n
<1>3. s \in Seq(S) /\ Len(s) = n
  BY <1>1, <1>2
<1> HIDE DEF s
<1>4. IsSeq(s) /\ ToSet(s) \subseteq S
  BY <1>3, SeqElements
<1>5. \A k, l \in 1..Len(s) : k = l
  BY <1>2, <1>3
<1>6. QED BY <1>4, <1>5 DEF s, n

(* No build mode has the name of a coverage job.                           *)
BuildsFree(c) == ToSet(c.buildList) \cap Covers = {}

(* The runs differ in test or index, and are after their builds.           *)
LEMMA RunsFit ==
  ASSUME NEW c, NEW builds, IsSeq(builds), NEW runs, IsSeq(runs),
         \A j \in ToSet(runs) : RunShape(c, builds, j),
         \A k, l \in 1..Len(runs) : runs[k].name = runs[l].name /\ runs[k].id[2] = runs[l].id[2] => k = l,
         NEW before, ~args.runOnly => IdsIn(builds) \subseteq before
  PROVE  Fits(runs, before) /\ Unlike(runs)
<1> DEFINE m == Len(runs)
<1>1. m \in Nat /\ \A k \in 1..m : RunShape(c, builds, runs[k])
  BY SeqIs
<1> HIDE DEF m
<1>2. ASSUME NEW k \in 1..m, NEW d \in ToSet(runs[k].deps) PROVE d \in before
  <2>1. CASE args.runOnly
    <3>1. ToSet(<<>>) = {}
      BY NoneFits
    <3>2. runs[k].deps = <<>>
      BY <1>1, <2>1 DEF RunShape
    <3>3. QED BY <1>2, <3>1, <3>2
  <2>2. CASE ~args.runOnly
    <3>1. PICK b \in ToSet(builds) : runs[k].deps = <<b.id>>
      BY <1>1, <2>2 DEF RunShape
    <3>2. d = b.id
      BY <1>2, <3>1, SeqOfOne
    <3>3. b.id \in IdsIn(builds)
      BY SeqIs DEF IdsIn
    <3>4. QED BY <2>2, <3>2, <3>3
  <2>3. QED BY <2>1, <2>2
<1>3. ASSUME NEW k \in 1..m, NEW l \in 1..m, runs[k].id = runs[l].id \/ runs[k].dir = runs[l].dir PROVE k = l
  <2>1. RunShape(c, builds, runs[k]) /\ RunShape(c, builds, runs[l])
    BY <1>1
  <2>2. runs[k].dir = runs[l].dir => runs[k].name = runs[l].name /\ runs[k].id[2] = runs[l].id[2]
    BY <2>1 DEF RunShape
  <2>3. runs[k].id = runs[l].id => runs[k].name = runs[l].name /\ runs[k].id[2] = runs[l].id[2]
    BY <2>1 DEF RunShape
  <2>4. QED BY <1>3, <2>2, <2>3 DEF m
<1>4. QED BY <1>2, <1>3 DEF Fits, Unlike, m

(* Builds, runs and coverage jobs, one after the other.                     *)
LEMMA PartsFit ==
  ASSUME NEW c, NEW builds, NEW pre, Fits(pre, {}), Unlike(pre),
         \A j \in ToSet(pre) : BuildShape(c, j) /\ j.name \notin Covers,
         NEW runs, Fits(runs, IdsIn(pre)), Unlike(runs), \A j \in ToSet(runs) : RunShape(c, builds, j),
         NEW post, Fits(post, IdsIn(pre) \cup IdsIn(runs)), Unlike(post),
         \A j \in ToSet(post) : \E t \in Covers : CoverShape(c, t, j)
  PROVE  Fits(pre \o runs \o post, {}) /\ Unlike(pre \o runs \o post)
<1> DEFINE two == pre \o runs
<1>1. IsSeq(pre) /\ IsSeq(runs) /\ IsSeq(post)
  BY DEF Fits
<1>2. /\ Len(pre) \in Nat /\ Len(runs) \in Nat
      /\ \A k \in 1..Len(pre) : pre[k] \in ToSet(pre)
      /\ \A k \in 1..Len(runs) : runs[k] \in ToSet(runs)
      /\ \A k \in 1..Len(post) : post[k] \in ToSet(post)
  BY <1>1, SeqIs
<1>3. ASSUME NEW b, BuildShape(c, b), NEW r, RunShape(c, builds, r) PROVE b.id # r.id /\ b.dir # r.dir
  <2>1. b.id # r.id
    BY <1>3 DEF BuildShape, RunShape
  <2>2. b.dir # r.dir
    BY <1>3 DEF BuildShape, RunShape
  <2>3. QED BY <2>1, <2>2
<1>4. ASSUME NEW b, BuildShape(c, b), b.name \notin Covers, NEW t \in Covers, NEW j, CoverShape(c, t, j)
      PROVE  b.id # j.id /\ b.dir # j.dir
  <2>1. b.id # j.id
    BY <1>4 DEF BuildShape, CoverShape
  <2>2. b.dir # j.dir
    BY <1>4 DEF BuildShape, CoverShape
  <2>3. QED BY <2>1, <2>2
<1>5. ASSUME NEW r, RunShape(c, builds, r), NEW t \in Covers, NEW j, CoverShape(c, t, j)
      PROVE  r.id # j.id /\ r.dir # j.dir
  <2>1. r.id # j.id
    BY <1>5 DEF RunShape, CoverShape
  <2>2. r.dir # j.dir
    BY <1>5 DEF RunShape, CoverShape
  <2>3. QED BY <2>1, <2>2
<1>6. NoneShared(pre, runs)
  BY <1>2, <1>3 DEF NoneShared
<1>7. Fits(two, {}) /\ Unlike(two)
  <2>1. Fits(runs, {} \cup IdsIn(pre))
    <3>1. {} \cup IdsIn(pre) = IdsIn(pre)
      OBVIOUS
    <3>2. QED BY <3>1
  <2>2. QED BY <1>6, <2>1, FitsJoined
<1>8. IsSeq(two) /\ Len(two) = Len(pre) + Len(runs)
      /\ \A i \in 1..Len(pre) + Len(runs) : two[i] = IF i <= Len(pre) THEN pre[i] ELSE runs[i - Len(pre)]
  BY <1>1, SeqJoined
<1>9. ToSet(two) = ToSet(pre) \cup ToSet(runs)
  BY <1>1, SeqJoined
<1> HIDE DEF two
<1>10. \A k \in 1..Len(two) : two[k] \in ToSet(pre) \cup ToSet(runs)
  BY <1>8, <1>9, SeqIs
<1>11. NoneShared(two, post)
  <2>1. ASSUME NEW k \in 1..Len(two), NEW l \in 1..Len(post) PROVE two[k].id # post[l].id /\ two[k].dir # post[l].dir
    <3> DEFINE x == two[k]
               y == post[l]
    <3>1. PICK t \in Covers : CoverShape(c, t, y)
      BY <1>2
    <3>2. x \in ToSet(pre) \cup ToSet(runs)
      BY <1>10
    <3> HIDE DEF x, y
    <3>3. x.id # y.id /\ x.dir # y.dir
      BY <1>4, <1>5, <3>1, <3>2
    <3>4. QED BY <3>3 DEF x, y
  <2>2. QED BY <2>1 DEF NoneShared
<1>12. IdsIn(two) = IdsIn(pre) \cup IdsIn(runs)
  <2>1. IdsIn(two) = {j.id : j \in ToSet(two)}
    BY <1>8, SeqIs DEF IdsIn
  <2>2. IdsIn(pre) = {j.id : j \in ToSet(pre)} /\ IdsIn(runs) = {j.id : j \in ToSet(runs)}
    BY <1>1, SeqIs DEF IdsIn
  <2>3. QED BY <1>9, <2>1, <2>2
<1>13. Fits(post, {} \cup IdsIn(two))
  <2>1. {} \cup IdsIn(two) = IdsIn(pre) \cup IdsIn(runs)
    BY <1>12
  <2>2. QED BY <2>1
<1>14. QED BY <1>7, <1>11, <1>13, FitsJoined DEF two

(* What is said of the coverage of a configuration's runs: a build clears   *)
(* the database that the runs of its mode write to, and the databases of    *)
(* all of them are merged, that of the primary mode first.                  *)
RunsIn(c) == {j \in ToSet(c.jobs) : j.target = "run"}
CoverGood(c) ==
  /\ \A j \in ToSet(c.jobs) : j.target \in {"build", "run"} => j.covdb = <<c.scratch, j.mode>> /\ j.mode \notin Covers
  /\ \A b \in ToSet(c.jobs) : b.target = "build" =>
       b.all /\ b.deps = <<>> /\ b.dir = <<c.scratch, "build", b.mode>> /\ ~args.runOnly
  /\ \A m \in ToSet(c.jobs) : m.target = "cov_merge" =>
       /\ args.cov /\ m.id[2] = m.target
       /\ ToSet(m.covdb) = {r.mode : r \in RunsIn(c)} /\ {r.id : r \in RunsIn(c)} \subseteq ToSet(m.deps)
       /\ ~args.gui => Head(m.covdb) = c.primary

(* No name is unknown to what puts the databases in order.                  *)
InOrder(c) == ToSet(c.buildList) \subseteq ToSet(NameOrder)

LEMMA DirsOf ==
  ASSUME NEW c, NEW runs, IsSeq(runs), runs # <<>>, \A r \in ToSet(runs) : r.mode \in ToSet(NameOrder)
  PROVE  LET dirs == CovDbDirs(c, runs)
             met == {r.mode : r \in ToSet(runs)}
         IN ToSet(dirs) = met /\ (c.primary \in met => Head(dirs) = c.primary)
<1> DEFINE dirs == CovDbDirs(c, runs)
           met == {r.mode : r \in ToSet(runs)}
           first == FirstDb(met, runs, c.primary)
           others == Only(NameOrder, met \ {first})
           one == <<first>>
<1>1. Head(runs) \in ToSet(runs)
  <2>1. Len(runs) \in Nat /\ Len(runs) # 0 /\ ToSet(runs) = {runs[i] : i \in 1..Len(runs)} /\ Head(runs) = runs[1]
    BY SeqIs DEF IsSeq
  <2>2. QED BY <2>1
<1>2. first \in met /\ (c.primary \in met => first = c.primary)
  BY <1>1 DEF FirstDb
<1>3. IsSeq(NameOrder)
  BY NamesAssumption, SeqElements
<1>4. dirs = one \o others
  BY DEF CovDbDirs
<1>5. met \subseteq ToSet(NameOrder)
  OBVIOUS
<1> HIDE DEF met, first
<1>6. IsSeq(others) /\ ToSet(others) = met \ {first}
  BY <1>3, <1>5, OnlyIs
<1>7. IsSeq(one) /\ ToSet(one) = {first} /\ Len(one) = 1 /\ one[1] = first
  BY SeqOfOne
<1> HIDE DEF dirs, others, one
<1>8. /\ IsSeq(dirs) /\ ToSet(dirs) = met /\ Len(dirs) = 1 + Len(others) /\ Len(others) \in Nat
      /\ \A i \in 1..1 + Len(others) : dirs[i] = IF i <= 1 THEN one[i] ELSE others[i - 1]
  <2>1. /\ IsSeq(dirs) /\ ToSet(dirs) = ToSet(one) \cup ToSet(others) /\ Len(dirs) = Len(one) + Len(others)
        /\ \A i \in 1..Len(one) + Len(others) : dirs[i] = IF i <= Len(one) THEN one[i] ELSE others[i - Len(one)]
    BY <1>4, <1>6, <1>7, SeqJoined
  <2>2. ToSet(dirs) = met /\ Len(others) \in Nat
    BY <1>2, <1>6, <1>7, <2>1, SeqIs
  <2>3. QED BY <1>7, <2>1, <2>2
<1>9. Head(dirs) = first
  <2>1. dirs[1] = first
    BY <1>7, <1>8
  <2>2. QED BY <1>8, <2>1 DEF IsSeq
<1>10. QED BY <1>2, <1>8, <1>9 DEF dirs, met

(* The merge is there only with coverage, and for the runs.                 *)
LEMMA MergeIs ==
  ASSUME NEW c, NEW runs, NEW m \in ToSet(CoverageJobs(c, runs)), m.target = "cov_merge"
  PROVE  /\ args.cov /\ runs # <<>> /\ m.id[2] = m.target
         /\ m.covdb = CovDbDirs(c, runs) /\ m.deps = [i \in DOMAIN runs |-> runs[i].id]
<1> DEFINE merge == CovMerge(c, args, runs)
           report == CovReport(c, args, merge)
           plan == CovVPlan(c, args, report)
           post == CoverageJobs(c, runs)
<1>1. /\ post \in {<<>>, <<merge>> \o <<report>>, <<merge>> \o <<report, plan>>}
      /\ post # <<>> => args.cov /\ runs # <<>>
  BY DEF CoverageJobs
<1>2. /\ CoverShape(c, "cov_merge", merge) /\ merge.deps = [i \in DOMAIN runs |-> runs[i].id]
      /\ merge.covdb = CovDbDirs(c, runs)
      /\ CoverShape(c, "cov_report", report) /\ CoverShape(c, "cov_vplan", plan)
  BY CoverJobs
<1> HIDE DEF merge, report, plan
<1>3. post # <<>> /\ ToSet(post) \subseteq {merge, report, plan}
  <2>1. post # <<>>
    BY NoneFits
  <2> HIDE DEF post
  <2>2. CASE post = <<merge>> \o <<report>>
    <3>1. ToSet(post) \subseteq {merge, report}
      BY <2>2, JoinedToOne
    <3>2. QED BY <2>1, <3>1
  <2>3. CASE post = <<merge>> \o <<report, plan>>
    BY <2>1, <2>3, JoinedToOne
  <2>4. QED BY <1>1, <2>1, <2>2, <2>3
<1>4. m = merge
  BY <1>2, <1>3 DEF CoverShape
<1>5. QED BY <1>1, <1>2, <1>3, <1>4 DEF CoverShape

LEMMA PartsCover ==
  ASSUME NEW c, NEW new, new.scratch = c.scratch, new.primary = c.primary, NEW builds, NEW pre, NEW runs, IsSeq(runs),
         ToSet(new.jobs) = ToSet(pre) \cup ToSet(runs) \cup ToSet(CoverageJobs(c, runs)),
         \A j \in ToSet(pre) : BuildShape(c, j) /\ j.name \notin Covers, args.runOnly => pre = <<>>,
         \A j \in ToSet(runs) : RunShape(c, builds, j) /\ j.mode \in ToSet(NameOrder) \ Covers,
         ~args.gui /\ runs # <<>> => \E j \in ToSet(runs) : j.mode = c.primary
  PROVE  CoverGood(new)
<1> DEFINE post == CoverageJobs(c, runs)
<1>1. \A j \in ToSet(post) : j.target \in Covers
  BY CoverageTargets DEF Covers
<1>2. \A j \in ToSet(pre) : j.target = "build" /\ j.mode = j.name
  BY DEF BuildShape
<1>3. \A j \in ToSet(runs) : j.target = "run"
  BY DEF RunShape
<1>4. ASSUME NEW j \in ToSet(new.jobs), j.target \in {"build", "run"}
      PROVE  j.covdb = <<new.scratch, j.mode>> /\ j.mode \notin Covers
  <2>1. j \in ToSet(pre) \cup ToSet(runs)
    BY <1>1, <1>4 DEF Covers
  <2>2. QED BY <1>2, <2>1 DEF BuildShape, RunShape
<1>5. ASSUME NEW b \in ToSet(new.jobs), b.target = "build"
      PROVE  b.all /\ b.deps = <<>> /\ b.dir = <<new.scratch, "build", b.mode>> /\ ~args.runOnly
  <2>1. b \in ToSet(pre)
    BY <1>1, <1>3, <1>5 DEF Covers
  <2>2. pre # <<>>
    BY <2>1, NoneFits
  <2>3. QED BY <1>2, <2>1, <2>2 DEF BuildShape
<1>6. RunsIn(new) = ToSet(runs)
  BY <1>1, <1>2, <1>3 DEF RunsIn, Covers
<1>7. ASSUME NEW m \in ToSet(new.jobs), m.target = "cov_merge"
      PROVE  /\ args.cov /\ m.id[2] = m.target
             /\ ToSet(m.covdb) = {r.mode : r \in RunsIn(new)} /\ {r.id : r \in RunsIn(new)} \subseteq ToSet(m.deps)
             /\ ~args.gui => Head(m.covdb) = new.primary
  <2>1. m \in ToSet(post)
    BY <1>2, <1>3, <1>7
  <2>2. /\ args.cov /\ runs # <<>> /\ m.id[2] = m.target
        /\ m.covdb = CovDbDirs(c, runs) /\ m.deps = [i \in DOMAIN runs |-> runs[i].id]
    BY <1>7, <2>1, MergeIs
  <2>3. ToSet(m.covdb) = {r.mode : r \in ToSet(runs)} /\ (~args.gui => Head(m.covdb) = c.primary)
    BY <2>2, DirsOf
  <2>4. ToSet(m.deps) = {r.id : r \in ToSet(runs)}
    <3>1. ToSet(runs) = {runs[i] : i \in DOMAIN runs}
      BY DEF ToSet
    <3>2. QED BY <2>2, <3>1 DEF ToSet
  <2>5. QED BY <1>6, <2>2, <2>3, <2>4
<1>8. QED BY <1>4, <1>5, <1>7 DEF CoverGood

(* CreateDeploy makes jobs that fit, if no test is asked for twice.        *)
LEMMA DeployedGood ==
  ASSUME CfgsKnown, NEW c0, CfgKnown(c0), c0.stage = "listed", Requested(c0),
         Deployed(c0, Builds(c0)) # Exit, Apart(Deployed(c0, Builds(c0))), BuildsFree(Deployed(c0, Builds(c0)))
  PROVE  JobsGood(Deployed(c0, Builds(c0))) /\ (InOrder(Deployed(c0, Builds(c0))) => CoverGood(Deployed(c0, Builds(c0))))
<1> DEFINE all == Builds(c0)
           c == Resolved(c0, all)
           bs == all.builds
           ran == RunJobs(c, bs, Tagged(c))
           runs == RunsFor(c, bs)
           pre == BuildsFor(all)
           post == CoverageJobs(c, runs)
           new == Deployed(c0, all)
<1>1. Fields \subseteq DOMAIN c0 /\ TestsKnown(c0.tests) /\ ListsKnown(c0) /\ IsSeq(c0.builds)
  BY DEF CfgKnown, AtStageKnown, Named
<1>2. new = [c EXCEPT !.stage = "deployed", !.jobs = pre \o runs \o post] /\ all.primary \in Names(bs)
  BY DeployedIs
<1>3. /\ DOMAIN c = DOMAIN c0 /\ \A k \in DOMAIN c0 \ {"primary", "tests"} : c[k] = c0[k]
      /\ TestsLike(c0.tests, c.tests) /\ ("primary" \in DOMAIN c0 => c.primary = all.primary)
      /\ \A e \in ToSet(c0.runList) : /\ TestOf(c, e).name = e /\ TestOf(c, e).reseed \in Nat \ {0}
                                      /\ TestOf(c, e).mode = all.use[TestOf(c0, e).mode]
  BY ResolvedIs
<1>4. /\ Fits(bs, {}) /\ Unlike(bs)
      /\ \A j \in ToSet(bs) : BuildShape(c0, j) /\ j.name \in ToSet(c0.buildList)
  BY <1>1, BuildsAreShaped DEF ListsKnown
<1>5. /\ \A e \in ToSet(c0.buildList) : all.use[e] \in Names(bs)
      /\ \A b \in Names(bs) : all.use[b] = b /\ b \in ToSet(c0.buildList)
  <2> DEFINE seq == CompilesOf(c0)
             n == Len(c0.buildList)
  <2>1. BuildsKept(seq, n, all) /\ DOMAIN c0.buildList = 1..n /\ ToSet(c0.buildList) = {c0.buildList[i] : i \in 1..n}
    BY <1>1, BuildsAreKept, SeqIs DEF ListsKnown
  <2>2. \A i \in 1..n : seq[i].name = c0.buildList[i]
    <3>1. ASSUME NEW i \in 1..n PROVE seq[i].name = c0.buildList[i]
      <4> DEFINE mode == c0.builds[Find(c0.buildList[i], c0.builds)]
      <4>1. mode.name = c0.buildList[i]
        BY <1>1, <2>1, FindIs DEF ListsKnown
      <4>2. seq[i] = CompileSim(c0, args, mode)
        BY <2>1 DEF CompilesOf
      <4> HIDE DEF mode, seq
      <4>3. QED BY <4>1, <4>2, BuildIs
    <3>2. QED BY <3>1
  <2> HIDE DEF seq, n, all
  <2>3. \A i \in 1..n : all.use[seq[i].name] \in Names(all.builds)
    BY <2>1 DEF BuildsKept
  <2>4. OncePerName(seq)
    <3>1. IsSeq(seq) /\ Len(seq) = n
      BY <1>1, BuildsAreKept DEF ListsKnown, seq, n
    <3>2. DOMAIN seq = 1..n
      BY <3>1, SeqIs
    <3>3. OnceEach(c0.buildList)
      BY <1>1 DEF ListsKnown
    <3>4. QED BY <2>1, <2>2, <3>2, <3>3 DEF OncePerName, OnceEach
  <2>5. ASSUME NEW b \in Names(all.builds) PROVE all.use[b] = b /\ b \in ToSet(c0.buildList)
    <3>1. IsSeq(all.builds)
      BY <2>1 DEF BuildsKept
    <3>2. PICK x \in 1..Len(all.builds) : b = all.builds[x].name
      BY <2>5, <3>1, SeqIs DEF Names
    <3>3. all.use[b] = b
      BY <2>1, <2>4, <3>2 DEF BuildsKept
    <3>4. all.builds[x] \in ToSet(all.builds)
      BY <3>1, SeqIs
    <3>5. QED BY <1>4, <3>2, <3>3, <3>4 DEF all
  <2>6. QED BY <2>1, <2>2, <2>3, <2>5
<1>6. runs = IF args.buildOnly THEN <<>> ELSE IF args.gui THEN SubSeq(ran, 1, Min({1, Len(ran)})) ELSE ran
  BY DEF RunsFor
<1>7. pre = IF args.runOnly THEN <<>> ELSE bs
  BY DEF BuildsFor
<1> HIDE DEF all, c, bs, ran, runs, pre, post, new
<1>8. /\ c.name = c0.name /\ c.variant = c0.variant /\ c.scratch = c0.scratch
      /\ c.runList = c0.runList /\ c.buildList = c0.buildList
      /\ new.name = c.name /\ new.variant = c.variant /\ new.scratch = c.scratch
      /\ new.runList = c.runList /\ new.buildList = c.buildList /\ new.tests = c.tests
      /\ new.primary = c.primary /\ c.primary = all.primary
      /\ new.jobs = pre \o runs \o post
  BY <1>1, <1>2, <1>3 DEF Fields
<1>9. Tag(c) = Tag(c0) /\ Tag(new) = Tag(c0)
  BY <1>8 DEF Tag
<1>10. OnceEach(c.runList)
  <2>1. Names(new.tests) = Names(c0.tests)
    BY <1>1, <1>3, <1>8, LikeKnown
  <2>2. Apart(c0)
    BY <2>1 DEF Apart, new, all
  <2>3. QED BY <1>8, <2>2 DEF Requested
<1>11. \A e \in ToSet(c.runList) : /\ TestOf(c, e).reseed \in Nat /\ TestOf(c, e).name = e
                                   /\ TestOf(c, e).mode \in Names(bs)
  BY <1>1, <1>3, <1>5, <1>8 DEF ListsKnown
<1>12. IsSeq(bs) /\ IsSeq(c.runList)
  BY <1>1, <1>4, <1>8 DEF Fits, ListsKnown
<1>13. \A j \in ToSet(ran) : RunShape(c, bs, j)
  BY <1>11, <1>12, RunsAreShaped DEF ran
<1>14. RunsMade(c, ran)
  BY <1>11, <1>12, RunsAreMade DEF ran
<1>15. /\ IsSeq(runs) /\ ToSet(runs) \subseteq ToSet(ran)
       /\ \A k, l \in 1..Len(runs) : runs[k].name = runs[l].name /\ runs[k].id[2] = runs[l].id[2] => k = l
  <2>1. IsSeq(ran)
    BY <1>14 DEF RunsMade
  <2>2. CASE runs = <<>>
    <3>1. IsSeq(<<>>) /\ ToSet(<<>>) = {} /\ 1..Len(<<>>) = {}
      BY NoneFits DEF Fits
    <3>2. QED BY <2>2, <3>1
  <2>3. CASE runs = SubSeq(ran, 1, Min({1, Len(ran)}))
    BY <2>1, <2>3, FirstOf
  <2>4. CASE runs = ran
    BY <1>10, <1>14, <2>4 DEF RunsMade
  <2>5. QED BY <1>6, <2>2, <2>3, <2>4
<1>16. \A j \in ToSet(runs) : RunShape(c, bs, j)
  BY <1>13, <1>15
<1>17. /\ Fits(pre, {}) /\ Unlike(pre) /\ ToSet(pre) \subseteq ToSet(bs)
       /\ ~args.runOnly => pre = bs
  BY <1>4, <1>7, NoneFits
<1>18. \A j \in ToSet(bs) : BuildShape(c, j) /\ j.name \notin Covers
  <2>1. ToSet(c0.buildList) \cap Covers = {}
    BY <1>8 DEF BuildsFree, new, all
  <2>2. QED BY <1>4, <1>8, <1>9, <2>1 DEF BuildShape
<1>19. Fits(runs, IdsIn(pre)) /\ Unlike(runs)
  <2>1. ~args.runOnly => IdsIn(bs) \subseteq IdsIn(pre)
    BY <1>17
  <2>2. QED BY <1>12, <1>15, <1>16, <2>1, RunsFit
<1>20. /\ Fits(post, IdsIn(pre) \cup IdsIn(runs)) /\ Unlike(post)
       /\ \A j \in ToSet(post) : \E t \in Covers : CoverShape(c, t, j)
  <2>1. IdsIn(runs) \subseteq IdsIn(pre) \cup IdsIn(runs)
    OBVIOUS
  <2>2. QED BY <1>15, <2>1, CoverageFits DEF post
<1>21. Fits(new.jobs, {}) /\ Unlike(new.jobs)
  BY <1>8, <1>16, <1>17, <1>18, <1>19, <1>20, PartsFit
<1>22. ToSet(new.jobs) = ToSet(pre) \cup ToSet(runs) \cup ToSet(post)
  <2>1. IsSeq(pre) /\ IsSeq(runs) /\ IsSeq(post)
    BY <1>17, <1>19, <1>20 DEF Fits
  <2> DEFINE two == pre \o runs
  <2>2. IsSeq(two) /\ ToSet(two) = ToSet(pre) \cup ToSet(runs)
    BY <2>1, SeqJoined
  <2>3. new.jobs = two \o post
    BY <1>8
  <2> HIDE DEF two
  <2>4. ToSet(two \o post) = ToSet(two) \cup ToSet(post)
    BY <2>1, <2>2, SeqJoined
  <2>5. QED BY <2>2, <2>3, <2>4
<1>23. ASSUME NEW j \in ToSet(new.jobs) PROVE j.id[1] = Tag(new) /\ j.dir[1] = new.scratch
  <2>1. CASE j \in ToSet(pre)
    <3>1. BuildShape(c, j)
      BY <1>17, <1>18, <2>1
    <3>2. QED BY <1>8, <1>9, <3>1 DEF BuildShape
  <2>2. CASE j \in ToSet(runs)
    <3>1. RunShape(c, bs, j)
      BY <1>16, <2>2
    <3>2. QED BY <1>8, <1>9, <3>1 DEF RunShape
  <2>3. CASE j \in ToSet(post)
    <3>1. PICK t \in Covers : CoverShape(c, t, j)
      BY <1>20, <2>3
    <3>2. QED BY <1>8, <1>9, <3>1 DEF CoverShape
  <2>4. QED BY <1>22, <1>23, <2>1, <2>2, <2>3
<1>24. ASSUME NEW j \in ToSet(new.jobs), j.target = "run", ~args.runOnly
       PROVE  \E b \in ToSet(new.jobs) :
                b.target = "build" /\ b.mode = j.mode /\ b.block = j.block /\ j.deps = <<b.id>>
  <2>1. j \in ToSet(runs)
    <3>1. \A b : BuildShape(c, b) => b.target = "build"
      BY DEF BuildShape
    <3>2. \A t \in Covers : \A b : CoverShape(c, t, b) => b.target # "run"
      BY DEF CoverShape, Covers
    <3>3. QED BY <1>17, <1>18, <1>20, <1>22, <1>24, <3>1, <3>2
  <2>2. RunShape(c, bs, j)
    BY <1>16, <2>1
  <2>3. PICK b \in ToSet(bs) : b.name = j.mode /\ j.deps = <<b.id>>
    BY <1>24, <2>2 DEF RunShape
  <2>4. b.target = "build" /\ b.mode = j.mode /\ b.block = j.block
    <3>1. BuildShape(c, b)
      BY <1>18, <2>3
    <3>2. QED BY <2>2, <2>3, <3>1 DEF BuildShape, RunShape
  <2>5. b \in ToSet(new.jobs)
    BY <1>17, <1>22, <1>24
  <2>6. QED BY <2>3, <2>4, <2>5
<1>25. JobsGood(new)
  <2> DEFINE js == new.jobs
  <2>1. Fits(js, {}) /\ Unlike(js)
    BY <1>21
  <2>2. \A j \in ToSet(js) : j.id[1] = Tag(new) /\ j.dir[1] = new.scratch
    BY <1>23
  <2>3. \A j \in ToSet(js) : j.target = "run" /\ ~args.runOnly =>
          \E b \in ToSet(js) : b.target = "build" /\ b.mode = j.mode /\ b.block = j.block /\ j.deps = <<b.id>>
    BY <1>24
  <2>4. QED BY <2>1, <2>2, <2>3 DEF JobsGood
<1>26. ASSUME InOrder(new) PROVE CoverGood(new)
  <2>1. Names(bs) \subseteq ToSet(NameOrder) \ Covers
    <3>1. ToSet(c0.buildList) \cap Covers = {} /\ ToSet(c0.buildList) \subseteq ToSet(NameOrder)
      BY <1>8, <1>26 DEF BuildsFree, InOrder, new, all
    <3>2. QED BY <1>5, <3>1
  <2>2. \A j \in ToSet(ran) : j.mode \in Names(bs)
    <3>1. \A k \in 1..Len(ran) : ran[k].name \in ToSet(c.runList) /\ ran[k].mode = TestOf(c, ran[k].name).mode
      BY <1>14 DEF RunsMade
    <3>2. IsSeq(ran)
      BY <1>14 DEF RunsMade
    <3>3. QED BY <1>11, <3>1, <3>2, SeqIs
  <2>3. \A j \in ToSet(runs) : RunShape(c, bs, j) /\ j.mode \in ToSet(NameOrder) \ Covers
    BY <1>15, <1>16, <2>1, <2>2
  <2>4. ASSUME ~args.gui, runs # <<>> PROVE \E j \in ToSet(runs) : j.mode = c.primary
    <3>1. all.primary \in ToSet(c0.buildList) /\ all.use[all.primary] = all.primary
      BY <1>2, <1>5
    <3>2. PICK e \in ToSet(c0.runList) : TestOf(c0, e).mode = all.primary
      BY <1>1, <3>1 DEF ListsKnown
    <3>3. TestOf(c, e).mode = c.primary /\ 0 \in 0..TestOf(c, e).reseed - 1 /\ e \in ToSet(c.runList)
      BY <1>3, <1>8, <3>1, <3>2
    <3>4. PICK k \in 1..Len(ran) : ran[k].name = e
      BY <1>14, <3>3 DEF RunsMade
    <3>5. ran[k].mode = c.primary /\ ran[k] \in ToSet(ran)
      BY <1>14, <3>3, <3>4, SeqIs DEF RunsMade
    <3>6. runs = ran
      BY <1>6, <2>4
    <3>7. QED BY <3>5, <3>6
  <2>5. args.runOnly => pre = <<>>
    BY <1>7
  <2>6. \A j \in ToSet(pre) : BuildShape(c, j) /\ j.name \notin Covers
    BY <1>17, <1>18
  <2>7. QED BY <1>8, <1>15, <1>22, <2>3, <2>4, <2>5, <2>6, PartsCover DEF post
<1>27. QED BY <1>25, <1>26 DEF new, all

(* cov_unr() and cov_analyze() make one job.                               *)
LEMMA CoveringIs ==
  ASSUME NEW c, NEW j, j = CovUnr(c, args) \/ j = CovAnalyze(c, args)
  PROVE  j.id[1] = Tag(c) /\ j.dir[1] = c.scratch /\ j.target # "run" /\ j.deps = <<>>
<1> DEFINE s1 == JobSpec(c, args, "cov_unr", <<"cov_unr">>)
           s2 == JobSpec(c, args, "cov_analyze", <<"cov_analyze">>)
<1>1. /\ JobKeys \subseteq DOMAIN s1 /\ s1.deps = <<>> /\ s1.target = "cov_unr"
      /\ JobKeys \subseteq DOMAIN s2 /\ s2.deps = <<>> /\ s2.target = "cov_analyze"
  <2>1. \A t : /\ JobKeys \subseteq DOMAIN JobSpec(c, args, t, <<t>>)
               /\ JobSpec(c, args, t, <<t>>).deps = <<>> /\ JobSpec(c, args, t, <<t>>).target = t
    BY DEF JobSpec, JobKeys
  <2>2. QED BY <2>1
<1>2. j = [s1 EXCEPT !.fail = ToSet(c.buildFail)] \/ j = s2
  BY DEF CovUnr, CovAnalyze
<1>3. CoverShape(c, "cov_unr", s1) /\ CoverShape(c, "cov_analyze", s2)
  BY CoverIs
<1> HIDE DEF s1, s2
<1>4. \/ j.id = s1.id /\ j.target = s1.target /\ j.dir = s1.dir /\ j.deps = s1.deps
      \/ j = s2
  BY <1>1, <1>2 DEF JobKeys
<1>5. QED BY <1>1, <1>3, <1>4 DEF CoverShape

LEMMA CoveringGood ==
  ASSUME NEW c, Fields \subseteq DOMAIN c, NEW j, j = CovUnr(c, args) \/ j = CovAnalyze(c, args)
  PROVE  JobsGood([c EXCEPT !.stage = "deployed", !.jobs = <<j>>])
<1> DEFINE x == [c EXCEPT !.stage = "deployed", !.jobs = <<j>>]
           one == <<j>>
<1>1. j.id[1] = Tag(c) /\ j.dir[1] = c.scratch /\ j.target # "run" /\ j.deps = <<>>
  BY CoveringIs
<1>2. x.jobs = one /\ x.name = c.name /\ x.variant = c.variant /\ x.scratch = c.scratch
  BY DEF Fields
<1>3. IsSeq(one) /\ Len(one) = 1 /\ one[1] = j /\ ToSet(one) = {j} /\ ToSet(<<>>) = {}
  BY SeqOfOne, NoneFits
<1> HIDE DEF x, one
<1>4. Tag(x) = Tag(c)
  BY <1>2 DEF Tag
<1>5. \A k \in 1..Len(one) : one[k] = j
  BY <1>3
<1>6. Fits(one, {})
  BY <1>1, <1>3, <1>5 DEF Fits
<1>7. Unlike(one)
  BY <1>3 DEF Unlike
<1>8. QED BY <1>1, <1>2, <1>3, <1>4, <1>6, <1>7 DEF JobsGood, x

(* resolve_max_parallel() never answers zero.                              *)
LEMMA RoomForJobs ==
  ASSUME input \in Inputs
  PROVE  ResolveMaxParallel(input.args.maxParallel, input.env, input.cores) > 0
<1> DEFINE arg == input.args.maxParallel
           env == input.env
           cores == input.cores
<1>1. arg \in {None} \cup (Nat \ {0}) /\ env \in {None} \cup Int /\ cores \in {None} \cup Int
  BY ArgsAssumption
<1> HIDE DEF arg, env, cores
<1>2. ASSUME cores \in Int PROVE Max({cores - 1, 16}) > 0
  <2>1. \E m \in {cores - 1, 16} : \A k \in {cores - 1, 16} : k <= m
    BY <1>2
  <2>2. PICK m \in {cores - 1, 16} : \A k \in {cores - 1, 16} : k <= m
    BY <2>1
  <2>3. Max({cores - 1, 16}) = m
    BY <1>2, <2>2, MaxIs
  <2>4. QED BY <1>2, <2>2, <2>3
<1>3. ResolveMaxParallel(arg, env, cores) > 0
  <2>1. CASE arg # None
    BY <1>1, <2>1 DEF ResolveMaxParallel
  <2>2. CASE arg = None /\ env # None /\ env > 0
    BY <2>2 DEF ResolveMaxParallel
  <2>3. CASE arg = None /\ ~(env # None /\ env > 0)
    BY <1>1, <1>2, <2>3 DEF ResolveMaxParallel
  <2>4. QED BY <2>1, <2>2, <2>3
<1>4. QED BY <1>3 DEF arg, env, cores

(* What is known of the jobs once they are made: those of a coverage        *)
(* invocation always fit, the others under the conditions of the theorem.  *)
Covering == args.covUnr \/ args.covAnalyze
Good(c) == c.stage = "deployed" /\ (Covering \/ (Apart(c) /\ BuildsFree(c))) =>
             JobsGood(c) /\ (~Covering /\ InOrder(c) => CoverGood(c))
JobsMade ==
  /\ pc # "args" => args.maxParallel > 0
  /\ pc = "lists" /\ Covering => \A c \in ToSet(cfgs) : c.stage = "deployed"
  /\ \A c \in ToSet(cfgs) : Good(c)
  /\ pc = "run" => jobs = Kept(Specs)

LEMMA GoodStill ==
  ASSUME UNCHANGED args, NEW c, Good(c)
  PROVE  Good(c)'
<1>1. Apart(c)' <=> Apart(c)
  BY DEF Apart
<1>2. Covering' <=> Covering
  BY DEF Covering
<1>3. JobsGood(c)' <=> JobsGood(c)
  BY DEF JobsGood
<1>4. CoverGood(c)' <=> CoverGood(c)
  BY DEF CoverGood
<1>5. QED BY <1>1, <1>2, <1>3, <1>4 DEF Good

LEMMA JobsSet ==
  ASSUME CfgsKnown, RequestsKnown, JobsMade, NEW i \in DOMAIN cfgs, NEW c, c # Exit => Good(c), Advance(i, c),
         UNCHANGED args, pc = "objects" \/ (pc = "lists" /\ ~Covering)
  PROVE  JobsMade'
<1>1. pc' \in {pc, "done"} /\ (UNCHANGED cfgs \/ (c # Exit /\ cfgs' = [cfgs EXCEPT ![i] = c]))
  BY DEF Advance, SetAt, Fail
<1>2. ToSet(cfgs') \subseteq ToSet(cfgs) \/ (c # Exit /\ ToSet(cfgs') \subseteq ToSet(cfgs) \cup {c})
  BY <1>1 DEF ToSet
<1>3. \A x \in ToSet(cfgs') : Good(x)
  BY <1>2 DEF JobsMade
<1>4. \A x \in ToSet(cfgs') : Good(x)'
  BY <1>3, GoodStill
<1>5. Covering' <=> Covering
  BY DEF Covering
<1>6. args'.maxParallel > 0
  BY DEF JobsMade
<1>7. QED BY <1>1, <1>4, <1>5, <1>6 DEF JobsMade

LEMMA JobsMadeStep ==
  ASSUME CfgsKnown, RequestsKnown, JobsMade, [Next]_vars
  PROVE  JobsMade'
<1>1. CASE ParseArgs
  <2>1. cfgs' = <<>> /\ pc' = "make"
    BY <1>1 DEF ParseArgs, RequestsKnown
  <2>2. ToSet(<<>>) = {}
    BY DEF ToSet
  <2>3. args'.maxParallel = ResolveMaxParallel(input.args.maxParallel, input.env, input.cores)
    BY <1>1, ArgsAssumption DEF ParseArgs, CfgsKnown
  <2>4. args'.maxParallel > 0
    BY <2>3, RoomForJobs DEF CfgsKnown
  <2>5. QED BY <2>1, <2>2, <2>4 DEF JobsMade
<1>2. CASE MakeCfg
  <2>1. \A x \in ToSet(cfgs') : Good(x)
    BY <1>2, CfgsNew DEF JobsMade, Good
  <2>2. \A x \in ToSet(cfgs') : Good(x)'
    BY <1>2, <2>1, CfgsNew, GoodStill
  <2>3. QED BY <1>2, <2>2, CfgsNew DEF JobsMade
<1>3. CASE CreateCoverage
  <2> DEFINE job(i) == IF args.covUnr THEN CovUnr(cfgs[i], args) ELSE CovAnalyze(cfgs[i], args)
             new(i) == [cfgs[i] EXCEPT !.stage = "deployed", !.jobs = <<job(i)>>]
  <2>1. /\ UNCHANGED args /\ pc = "coverage"
        /\ \/ pc' = "done" /\ UNCHANGED cfgs
           \/ pc' = "lists" /\ cfgs' = [i \in DOMAIN cfgs |-> new(i)]
    BY <1>3 DEF CreateCoverage, Fail
  <2>2. \A i \in DOMAIN cfgs : new(i).stage = "deployed"
    BY DEF CfgsKnown, CfgKnown, Fields
  <2>3. ASSUME NEW i \in DOMAIN cfgs PROVE JobsGood(new(i))
    <3> DEFINE c == cfgs[i]
               j == job(i)
    <3>1. Fields \subseteq DOMAIN c /\ (j = CovUnr(c, args) \/ j = CovAnalyze(c, args))
      BY DEF CfgsKnown, CfgKnown
    <3>2. new(i) = [c EXCEPT !.stage = "deployed", !.jobs = <<j>>]
      OBVIOUS
    <3> HIDE DEF c, j, new
    <3>3. JobsGood([c EXCEPT !.stage = "deployed", !.jobs = <<j>>])
      BY <3>1, CoveringGood
    <3>4. QED BY <3>2, <3>3
  <2> HIDE DEF new
  <2>4. \A i \in DOMAIN cfgs : Good(new(i))
    <3>1. Covering
      BY <2>1 DEF RequestsKnown, Covering
    <3>2. QED BY <2>3, <3>1 DEF Good
  <2>5. CASE pc' = "done" /\ UNCHANGED cfgs
    <3>1. \A x \in ToSet(cfgs) : Good(x)'
      BY <2>1, GoodStill DEF JobsMade
    <3>2. QED BY <2>1, <2>5, <3>1 DEF JobsMade
  <2>6. CASE pc' = "lists" /\ cfgs' = [i \in DOMAIN cfgs |-> new(i)]
    <3>1. \A x \in ToSet(cfgs') : \E i \in DOMAIN cfgs : x = new(i)
      BY <2>6 DEF ToSet
    <3>2. \A x \in ToSet(cfgs') : x.stage = "deployed" /\ Good(x)
      BY <2>2, <2>4, <3>1
    <3>3. \A x \in ToSet(cfgs') : Good(x)'
      BY <2>1, <3>2, GoodStill
    <3>4. QED BY <2>1, <2>6, <3>2, <3>3 DEF JobsMade
  <2>7. QED BY <2>1, <2>5, <2>6
<1>4. ASSUME NEW i \in DOMAIN cfgs, CreateObjects(i) PROVE JobsMade'
  <2>1. PICK known : Advance(i, IF Selected(cfgs[i]) THEN Objects(cfgs[i], known)
                                ELSE [cfgs[i] EXCEPT !.stage = "skipped"])
    BY <1>4 DEF CreateObjects
  <2>2. cfgs[i].stage = "new" /\ CfgKnown(cfgs[i]) /\ UNCHANGED args /\ pc = "objects"
    BY <1>4 DEF CreateObjects, NextAt, AtStage, CfgsKnown
  <2>3. [cfgs[i] EXCEPT !.stage = "skipped"].stage = "skipped"
    BY <2>2 DEF CfgKnown, Fields
  <2>4. Objects(cfgs[i], known) # Exit => Objects(cfgs[i], known).stage = "created"
    BY <2>2, ObjectsKnown
  <2>5. \A x : x.stage \in {"skipped", "created"} => Good(x)
    BY DEF Good
  <2> DEFINE c == IF Selected(cfgs[i]) THEN Objects(cfgs[i], known) ELSE [cfgs[i] EXCEPT !.stage = "skipped"]
  <2>6. c # Exit => c.stage \in {"skipped", "created"}
    BY <2>3, <2>4
  <2>7. Advance(i, c)
    BY <2>1
  <2> HIDE DEF c
  <2>8. QED BY <2>2, <2>5, <2>6, <2>7, JobsSet
<1>5. ASSUME NEW i \in DOMAIN cfgs, CreateLists(i) PROVE JobsMade'
  <2>1. /\ Advance(i, Listed(cfgs[i])) /\ UNCHANGED args /\ cfgs[i].stage = "created"
        /\ CfgKnown(cfgs[i]) /\ ArgsRead(args) /\ pc = "lists"
    BY <1>5 DEF CreateLists, NextAt, AtStage, CfgsKnown
  <2>2. Listed(cfgs[i]) # Exit => Listed(cfgs[i]).stage = "listed"
    BY <2>1, ListedIs
  <2>3. Listed(cfgs[i]) # Exit => Good(Listed(cfgs[i]))
    BY <2>2 DEF Good
  <2>4. ~Covering
    BY <2>1 DEF JobsMade, ToSet
  <2>5. QED BY <2>1, <2>3, <2>4, JobsSet
<1>6. ASSUME NEW i \in DOMAIN cfgs, CreateDeploy(i) PROVE JobsMade'
  <2> DEFINE c == cfgs[i]
             new == Deployed(c, Builds(c))
  <2>1. /\ Advance(i, new) /\ UNCHANGED args /\ c.stage = "listed" /\ CfgKnown(c) /\ pc = "lists"
    BY <1>6 DEF CreateDeploy, AtStage, CfgsKnown
  <2>2. Requested(c)
    BY <2>1 DEF RequestsKnown, Fulfils, ToSet
  <2>3. ~Covering
    BY <2>1 DEF JobsMade, ToSet
  <2>4. new # Exit /\ Apart(new) /\ BuildsFree(new) => JobsGood(new) /\ (InOrder(new) => CoverGood(new))
    BY <2>1, <2>2, DeployedGood
  <2> HIDE DEF new
  <2>5. new # Exit => Good(new)
    BY <2>3, <2>4 DEF Good
  <2>6. QED BY <2>1, <2>3, <2>5, JobsSet
<1>7. CASE DeployObjects
  <2>1. /\ UNCHANGED <<args, cfgs>> /\ pc = "lists"
        /\ pc' = "done" \/ (pc' = "run" /\ jobs' = Kept(Specs))
    BY <1>7 DEF DeployObjects, Fail
  <2>2. Specs' = Specs
    BY <2>1 DEF Specs
  <2>3. Kept(Specs)' = Kept(Specs)
    BY <2>2 DEF Kept
  <2>4. \A x \in ToSet(cfgs) : Good(x)'
    BY <2>1, GoodStill DEF JobsMade
  <2>5. QED BY <2>1, <2>3, <2>4 DEF JobsMade
<1>8. CASE \/ Choose \/ GenResults \/ UNCHANGED vars
           \/ \E j \in ToSet(jobs), log \in input.logs : RunJob(j, log) \/ LoseJob(j, log)
  <2>1. /\ UNCHANGED <<cfgs, args, jobs>>
        /\ \/ pc' \in {"done", "coverage"} /\ pc # "args"
           \/ UNCHANGED pc
           \/ pc' = "lists" /\ ~Covering /\ pc # "args"
    <3>1. CASE Choose
      BY <3>1 DEF Choose, Fail, Covering
    <3>2. CASE GenResults
      BY <3>2 DEF GenResults
    <3>3. CASE UNCHANGED vars
      BY <3>3 DEF vars
    <3>4. CASE \E j \in ToSet(jobs), log \in input.logs : RunJob(j, log) \/ LoseJob(j, log)
      BY <3>4 DEF RunJob, LoseJob, Waits, Fail
    <3>5. QED BY <1>8, <3>1, <3>2, <3>3, <3>4
  <2>2. Specs' = Specs
    BY <2>1 DEF Specs
  <2>3. Kept(Specs)' = Kept(Specs)
    BY <2>2 DEF Kept
  <2>4. \A x \in ToSet(cfgs) : Good(x)'
    BY <2>1, GoodStill DEF JobsMade
  <2>5. Covering' <=> Covering
    BY <2>1 DEF Covering
  <2>6. QED BY <2>1, <2>3, <2>4, <2>5 DEF JobsMade
<1>9. QED BY <1>1, <1>2, <1>3, <1>4, <1>5, <1>6, <1>7, <1>8 DEF Next

-----------------------------------------------------------------------------
(* The conditions of the theorem besides ItemsApart: no build mode that is  *)
(* used has the name of a coverage job, whose id its build would have       *)
(* (deploy.py:258-262, 924, 970, 1043), and no two configurations that have *)
(* jobs share a full name or a directory, which are theirs to choose.       *)
BuildModesFree == \A c \in Deployments : BuildsFree(c)
ConfigsApart ==
  \A i, k \in DOMAIN cfgs :
    i # k /\ cfgs[i].stage = "deployed" /\ cfgs[k].stage = "deployed" =>
      Tag(cfgs[i]) # Tag(cfgs[k]) /\ cfgs[i].scratch # cfgs[k].scratch

(* The jobs of all configurations, in one list.                            *)
LEMMA JobsFlat ==
  ASSUME CfgsKnown, ConfigsApart, \A c \in ToSet(cfgs) : c.stage = "deployed" => JobsGood(c),
         NEW specs, specs = Specs
  PROVE  /\ Fits(specs, {}) /\ Unlike(specs)
         /\ \A j \in ToSet(specs) : \E i \in DOMAIN cfgs : JobsGood(cfgs[i]) /\ j \in ToSet(cfgs[i].jobs)
         /\ \A i \in DOMAIN cfgs : ToSet(cfgs[i].jobs) \subseteq ToSet(specs)
<1> DEFINE lists == [i \in DOMAIN cfgs |-> cfgs[i].jobs]
           n == Len(cfgs)
<1>1. n \in Nat /\ DOMAIN cfgs = 1..n
  BY SeqIs DEF CfgsKnown
<1>2. DOMAIN lists = 1..n /\ \A i \in 1..n : lists[i] = cfgs[i].jobs
  BY <1>1
<1>3. specs = FlattenSeq(lists)
  BY DEF Specs
<1> HIDE DEF n
<1>4. IsSeq(lists)
  <2>1. lists = [i \in 1..n |-> lists[i]]
    BY <1>1
  <2> HIDE DEF lists
  <2>2. QED BY <1>1, <2>1, SeqMade
<1> HIDE DEF lists
<1>5. ASSUME NEW i \in 1..n
      PROVE  (cfgs[i].stage = "deployed" /\ JobsGood(cfgs[i])) \/ lists[i] = <<>>
  <2>1. CfgKnown(cfgs[i]) /\ cfgs[i] \in ToSet(cfgs)
    BY <1>1 DEF CfgsKnown, ToSet
  <2>2. cfgs[i].stage = "deployed" \/ cfgs[i].jobs = <<>>
    BY <2>1 DEF CfgKnown, AtStageKnown
  <2>3. QED BY <1>2, <2>1, <2>2
<1>6. \A i \in 1..n : Fits(lists[i], {}) /\ Unlike(lists[i])
  BY <1>2, <1>5, NoneFits DEF JobsGood
<1>7. \A i \in 1..n : IsSeq(lists[i])
  BY <1>6 DEF Fits
<1>8. ASSUME NEW i \in 1..n, NEW k \in 1..n, i # k PROVE NoneShared(lists[i], lists[k])
  <2>1. CASE lists[i] = <<>> \/ lists[k] = <<>>
    <3>1. 1..Len(<<>>) = {}
      OBVIOUS
    <3>2. QED BY <2>1, <3>1 DEF NoneShared
  <2>2. CASE /\ cfgs[i].stage = "deployed" /\ JobsGood(cfgs[i])
             /\ cfgs[k].stage = "deployed" /\ JobsGood(cfgs[k])
    <3>1. Tag(cfgs[i]) # Tag(cfgs[k]) /\ cfgs[i].scratch # cfgs[k].scratch
      BY <1>1, <1>8, <2>2 DEF ConfigsApart
    <3>2. /\ \A j \in ToSet(lists[i]) : j.id[1] = Tag(cfgs[i]) /\ j.dir[1] = cfgs[i].scratch
          /\ \A j \in ToSet(lists[k]) : j.id[1] = Tag(cfgs[k]) /\ j.dir[1] = cfgs[k].scratch
      BY <1>2, <2>2 DEF JobsGood
    <3>3. /\ \A x \in 1..Len(lists[i]) : lists[i][x] \in ToSet(lists[i])
          /\ \A x \in 1..Len(lists[k]) : lists[k][x] \in ToSet(lists[k])
      BY <1>7, SeqIs DEF ToSet
    <3>4. QED BY <3>1, <3>2, <3>3 DEF NoneShared
  <2>3. QED BY <1>5, <2>1, <2>2
<1>9. Fits(specs, {}) /\ Unlike(specs)
  BY <1>2, <1>3, <1>4, <1>6, <1>8, FlattenFits
<1>10. \A j : j \in ToSet(specs) <=> \E i \in 1..n : j \in ToSet(lists[i])
  BY <1>2, <1>3, <1>4, <1>7, FlattenHas DEF InSome
<1>11. ASSUME NEW j \in ToSet(specs)
       PROVE  \E i \in DOMAIN cfgs : JobsGood(cfgs[i]) /\ j \in ToSet(cfgs[i].jobs)
  <2>1. PICK i \in 1..n : j \in ToSet(lists[i])
    BY <1>10
  <2>2. lists[i] # <<>>
    BY <2>1, NoneFits
  <2>3. QED BY <1>1, <1>2, <1>5, <2>1, <2>2
<1>12. \A i \in DOMAIN cfgs : ToSet(cfgs[i].jobs) \subseteq ToSet(specs)
  BY <1>1, <1>2, <1>10
<1>13. QED BY <1>9, <1>11, <1>12

(* What the scheduler gets.                                                *)
LEMMA HandedFits ==
  ASSUME CfgsKnown, JobsMade, Handed, ItemsApart, BuildModesFree, ConfigsApart
  PROVE  /\ jobs = Specs
         /\ args.maxParallel > 0
         /\ \A k \in DOMAIN jobs :
              /\ ToSet(jobs[k].deps) \subseteq {jobs[l].id : l \in 1..k - 1}
              /\ \A l \in DOMAIN jobs : jobs[l].dir = jobs[k].dir => l = k
              /\ jobs[k].target = "run" /\ ~args.runOnly =>
                   \E l \in 1..k - 1 : /\ jobs[l].target = "build" /\ jobs[l].mode = jobs[k].mode
                                       /\ jobs[l].block = jobs[k].block /\ jobs[k].deps = <<jobs[l].id>>
<1>1. args.maxParallel > 0 /\ jobs = Kept(Specs)
  BY DEF JobsMade, Handed
<1>2. \A c \in ToSet(cfgs) : c.stage = "deployed" => JobsGood(c)
  BY DEF JobsMade, Good, ItemsApart, BuildModesFree, Deployments, Covering
<1> DEFINE specs == Specs
<1>3. /\ Fits(specs, {}) /\ Unlike(specs)
      /\ \A j \in ToSet(specs) : \E i \in DOMAIN cfgs : JobsGood(cfgs[i]) /\ j \in ToSet(cfgs[i].jobs)
      /\ \A i \in DOMAIN cfgs : ToSet(cfgs[i].jobs) \subseteq ToSet(specs)
  <2>1. \A s : s = Specs => /\ Fits(s, {}) /\ Unlike(s)
                            /\ \A j \in ToSet(s) : \E i \in DOMAIN cfgs : JobsGood(cfgs[i]) /\ j \in ToSet(cfgs[i].jobs)
                            /\ \A i \in DOMAIN cfgs : ToSet(cfgs[i].jobs) \subseteq ToSet(s)
    BY <1>2, JobsFlat
  <2>2. specs = Specs
    OBVIOUS
  <2> HIDE DEF specs
  <2>3. QED BY <2>1, <2>2
<1> HIDE DEF specs
<1>4. jobs = specs
  <2>1. Kept(specs) = specs
    BY <1>3, KeptAll DEF Fits
  <2>2. QED BY <1>1, <2>1 DEF specs
<1>5. DOMAIN jobs = 1..Len(jobs) /\ Len(jobs) \in Nat
  BY <1>3, <1>4, SeqIs DEF Fits
<1>6. /\ \A k \in 1..Len(jobs) : \A d \in ToSet(jobs[k].deps) : \E l \in 1..k - 1 : jobs[l].id = d
      /\ \A k, l \in 1..Len(jobs) : jobs[k].id = jobs[l].id \/ jobs[k].dir = jobs[l].dir => k = l
  BY <1>3, <1>4 DEF Fits, Unlike
<1>7. ASSUME NEW k \in DOMAIN jobs, jobs[k].target = "run", ~args.runOnly
      PROVE  \E l \in 1..k - 1 : /\ jobs[l].target = "build" /\ jobs[l].mode = jobs[k].mode
                                 /\ jobs[l].block = jobs[k].block /\ jobs[k].deps = <<jobs[l].id>>
  <2> DEFINE j == jobs[k]
  <2>1. j \in ToSet(specs)
    BY <1>4 DEF ToSet
  <2>2. PICK i \in DOMAIN cfgs : JobsGood(cfgs[i]) /\ j \in ToSet(cfgs[i].jobs)
    BY <1>3, <2>1
  <2>3. PICK b \in ToSet(cfgs[i].jobs) :
           b.target = "build" /\ b.mode = j.mode /\ b.block = j.block /\ j.deps = <<b.id>>
    BY <1>7, <2>2 DEF JobsGood
  <2>4. b \in ToSet(jobs) /\ ToSet(j.deps) = {b.id}
    BY <1>3, <1>4, <2>3, SeqOfOne
  <2>5. PICK m \in DOMAIN jobs : jobs[m] = b
    BY <2>4 DEF ToSet
  <2>6. PICK l \in 1..k - 1 : jobs[l].id = b.id
    BY <1>5, <1>6, <2>4
  <2>7. l \in 1..Len(jobs)
    BY <1>5, <1>7
  <2>8. l = m
    BY <1>5, <1>6, <2>5, <2>6, <2>7
  <2>9. jobs[l] = b
    BY <2>5, <2>8
  <2>10. QED BY <2>3, <2>9
<1>8. ASSUME NEW k \in DOMAIN jobs PROVE ToSet(jobs[k].deps) \subseteq {jobs[l].id : l \in 1..k - 1}
  <2>1. k \in 1..Len(jobs)
    BY <1>5
  <2>2. \A d \in ToSet(jobs[k].deps) : \E l \in 1..k - 1 : jobs[l].id = d
    BY <1>6, <2>1
  <2> DEFINE deps == ToSet(jobs[k].deps)
  <2>3. \A d \in deps : \E l \in 1..k - 1 : jobs[l].id = d
    BY <2>2
  <2> HIDE DEF deps
  <2>4. deps \subseteq {jobs[l].id : l \in 1..k - 1}
    BY <2>3
  <2>5. QED BY <2>4 DEF deps
<1>9. \A k, l \in DOMAIN jobs : jobs[l].dir = jobs[k].dir => l = k
  BY <1>5, <1>6
<1>10. QED BY <1>1, <1>4, <1>7, <1>8, <1>9 DEF specs

(* What the flow hands to the scheduler is what the scheduler assumes: no   *)
(* job is dropped for the id of another, each comes after what it depends   *)
(* on, each run after the build of its mode, no two write to the same       *)
(* directory, and at least one job may run (sim/flow.py:432-568,            *)
(* deploy.py:245-290, flow/base.py:440-480, cli/run.py:97-160).             *)
THEOREM JobsFit == Spec => [](ItemsApart /\ BuildModesFree /\ ConfigsApart => JobsWellFormed)
<1>1. Init => RequestsKnown /\ JobsMade
  <2>1. ToSet(<<>>) = {}
    BY DEF ToSet
  <2>2. QED BY <2>1 DEF Init, RequestsKnown, JobsMade
<1>2. CfgsKnown /\ JobsMade => (ItemsApart /\ BuildModesFree /\ ConfigsApart => JobsWellFormed)
  BY JobsKnownAreTheirs, HandedFits DEF JobsWellFormed
<1>3. Spec => []CfgsKnown
  BY CfgsInitially, CfgsStep, PTL DEF Spec
<1>4. QED BY <1>1, <1>2, <1>3, RequestsStep, JobsMadeStep, PTL DEF Spec

-----------------------------------------------------------------------------
(* The invariant.  Until the jobs go to the scheduler there are none; from  *)
(* then on there is one of each id, of a configuration that is reported,    *)
(* and what is known of a job that ended is what its log makes of it.       *)
HasConfig(j) ==
  \E i \in DOMAIN cfgs : cfgs[i].stage = "deployed" /\ j.block = <<cfgs[i].name, cfgs[i].variant>>
JobsKnown ==
  /\ jobs \in Seq(ToSet(jobs)) /\ jobs # <<>> /\ Distinct(jobs)
  /\ \A j \in ToSet(jobs) : HasConfig(j) /\ j.pass \in Seq(ToSet(j.pass))
Ended(id) ==
  /\ status[id] = outcome[id].status
  /\ \/ outcome[id] = Cancelled
     \/ \E log \in input.logs :
          /\ outcome[id] = Outcome(args.backend, JobOf(id), log)
          /\ ~PostFinishRaises(JobOf(id), outcome[id].status, log)
EndsKnown ==
  /\ DOMAIN status \subseteq Ids(jobs) /\ DOMAIN outcome = DOMAIN status
  /\ \A id \in DOMAIN status : Ended(id)
FlowInv ==
  /\ input \in Inputs
  /\ pc \in {"args", "make", "objects", "coverage", "lists", "run", "done"}
  /\ pc \notin {"run", "done"} => jobs = <<>> /\ DOMAIN status = {} /\ DOMAIN outcome = {}
  /\ pc = "run" => JobsKnown /\ EndsKnown
  /\ SuccessMeansAllPassed

(* What deploy_objects() gives to the scheduler.                           *)
LEMMA DeployedJobs ==
  ASSUME JobsOfConfigs, NEW specs, specs = Specs, specs # <<>>
  PROVE  LET graph == Kept(specs)
         IN /\ graph \in Seq(ToSet(graph)) /\ graph # <<>> /\ Distinct(graph)
            /\ \A j \in ToSet(graph) : HasConfig(j) /\ j.pass \in Seq(ToSet(j.pass))
<1> DEFINE graph == Kept(specs)
           lists == [i \in DOMAIN cfgs |-> cfgs[i].jobs]
           n == Len(cfgs)
<1>1. n \in Nat /\ DOMAIN cfgs = 1..n
  BY DEF JobsOfConfigs
<1>2. lists \in Seq(Seq(Jobs))
  <2>1. \A i \in 1..n : cfgs[i].jobs \in Seq(Jobs)
    BY <1>1 DEF JobsOfConfigs
  <2>2. lists = [i \in 1..n |-> cfgs[i].jobs]
    BY <1>1
  <2> DEFINE SeqsOfJobs == Seq(Jobs)
  <2>3. \A i \in 1..n : cfgs[i].jobs \in SeqsOfJobs
    BY <2>1
  <2> HIDE DEF SeqsOfJobs, n, lists
  <2>4. lists \in Seq(SeqsOfJobs)
    BY <1>1, <2>2, <2>3
  <2>5. QED BY <2>4 DEF SeqsOfJobs
<1>3. specs \in Seq(Jobs)
  <2> HIDE DEF lists
  <2>1. FlattenSeq(lists) \in Seq(Jobs)
    BY <1>2, Flattened
  <2>2. specs = FlattenSeq(lists)
    BY DEF lists, Specs
  <2>3. QED BY <2>1, <2>2
<1>4. graph \in Seq(Jobs) /\ Distinct(graph) /\ Ids(graph) = Ids(specs)
  <2>1. Kept(specs) \in Seq(Jobs) /\ OneOfEach(Kept(specs), specs)
    BY <1>3, KeptAreFirst
  <2>2. QED BY <2>1 DEF OneOfEach
<1> HIDE DEF graph
<1>5. graph # <<>>
  <2>1. specs[1].id \in Ids(specs)
    <3>1. 1 \in DOMAIN specs
      BY <1>3
    <3>2. QED BY <3>1 DEF Ids
  <2>2. Ids(<<>>) = {}
    BY DEF Ids
  <2>3. QED BY <1>4, <2>1, <2>2
<1>6. graph \in Seq(ToSet(graph))
  BY <1>4 DEF ToSet
<1>7. ASSUME NEW j \in ToSet(graph) PROVE HasConfig(j) /\ j.pass \in Seq(ToSet(j.pass))
  <2>1. j \in Jobs
    BY <1>4, <1>7, Values
  <2>2. PICK i \in DOMAIN cfgs : j \in ToSet(cfgs[i].jobs)
    BY <2>1 DEF Jobs
  <2>3. cfgs[i].jobs # <<>>
    BY <2>2 DEF ToSet
  <2>4. cfgs[i].stage = "deployed"
    BY <2>2, <2>3 DEF JobsOfConfigs
  <2>5. j.block = <<cfgs[i].name, cfgs[i].variant>> /\ j.pass \in Seq(ToSet(j.pass))
    BY <2>2 DEF JobsOfConfigs
  <2>6. QED BY <2>2, <2>4, <2>5 DEF HasConfig
<1>8. QED BY <1>4, <1>5, <1>6, <1>7 DEF graph

(* There is one job of an id.                                              *)
LEMMA JobOfId ==
  ASSUME JobsKnown
  PROVE  /\ \A j \in ToSet(jobs) : JobOf(j.id) = j
         /\ \A id \in Ids(jobs) : JobOf(id) \in ToSet(jobs) /\ JobOf(id).id = id
<1>1. DOMAIN jobs = 1..Len(jobs) /\ ToSet(jobs) = {jobs[k] : k \in 1..Len(jobs)}
  <2>1. DOMAIN jobs = 1..Len(jobs)
    BY DEF JobsKnown
  <2>2. QED BY <2>1 DEF ToSet
<1>2. \A j, l \in ToSet(jobs) : j.id = l.id => j = l
  BY <1>1 DEF JobsKnown, Distinct
<1>3. \A id \in Ids(jobs) : \E j \in ToSet(jobs) : j.id = id
  BY <1>1 DEF Ids
<1>4. ASSUME NEW j \in ToSet(jobs) PROVE JobOf(j.id) = j
  BY <1>2 DEF JobOf
<1>5. ASSUME NEW id \in Ids(jobs) PROVE JobOf(id) \in ToSet(jobs) /\ JobOf(id).id = id
  BY <1>3 DEF JobOf
<1>6. QED BY <1>4, <1>5

(* Of a job that ended, the message says whether it passed, and so does its *)
(* log.                                                                    *)
LEMMA EndTells ==
  ASSUME input \in Inputs, JobsKnown, EndsKnown, NEW id \in DOMAIN status
  PROVE  /\ status[id] \in Ends
         /\ status[id] # "PASSED" => outcome[id].message # None
         /\ status[id] = "PASSED" => outcome[id].log # None /\ Clean(JobOf(id), outcome[id].log)
         /\ /\ outcome[id].log # None /\ Clean(JobOf(id), outcome[id].log)
            /\ args.backend = "local" \/ OnOwnLines(JobOf(id), outcome[id].log)
            => status[id] = "PASSED"
<1> DEFINE j == JobOf(id)
<1>1. j \in ToSet(jobs) /\ j.pass \in Seq(ToSet(j.pass))
  BY JobOfId DEF JobsKnown, EndsKnown
<1>2. status[id] = outcome[id].status /\ Ended(id)
  BY DEF EndsKnown, Ended
<1>3. CASE outcome[id] = Cancelled
  <2>1. outcome[id].status = "KILLED" /\ outcome[id].message = "dependency" /\ outcome[id].log = None
    BY <1>3 DEF Cancelled, EndOf, Result
  <2>2. QED BY <1>2, <2>1, NoneAssumption DEF Ends, Messages
<1>4. CASE outcome[id] # Cancelled
  <2>1. PICK log \in input.logs : /\ outcome[id] = Outcome(args.backend, j, log)
                                 /\ ~PostFinishRaises(j, outcome[id].status, log)
    BY <1>2, <1>4 DEF Ended
  <2>2. log # None /\ log.lines \in Seq(ToSet(log.lines))
    BY <2>1, LogsAssumption
  <2> HIDE DEF j
  <2> DEFINE end == Outcome(args.backend, j, log)
  <2>3. /\ end.status \in Ends /\ end.log = log
        /\ end.status # "PASSED" => end.message \in Messages
        /\ end.status = "PASSED" /\ ~PostFinishRaises(j, end.status, log) => Clean(j, log)
        /\ Clean(j, log) /\ (args.backend = "local" \/ OnOwnLines(j, log)) => end.status = "PASSED"
    BY <1>1, <2>2, OutcomePasses
  <2>4. outcome[id] = end /\ ~PostFinishRaises(j, end.status, log)
    BY <2>1
  <2> HIDE DEF end
  <2>5. QED BY <1>2, <2>2, <2>3, <2>4, NoneAssumption DEF j
<1>5. QED BY <1>3, <1>4

(* The exit code that gen_results() settles on is 0 if and only if every    *)
(* job of the scheduler passed.                                            *)
LEMMA FailedBuckets ==
  ASSUME NEW c
  PROVE  DOMAIN Report(c).failed # {} <=>
           \E j \in JobsOf(c) : status[j.id] \in {"FAILED", "KILLED"} /\ outcome[j.id].message # None
<1> DEFINE results == {ResultOf(j) : j \in JobsOf(c)}
           failed == {r \in results : r.status \in {"FAILED", "KILLED"} /\ r.message # None}
<1>1. Report(c).failed = Buckets(results)
  BY DEF Report
<1>2. DOMAIN Buckets(results) = {r.message : r \in failed}
  BY DEF Buckets
<1>3. \A j \in JobsOf(c) : ResultOf(j).status = status[j.id] /\ ResultOf(j).message = outcome[j.id].message
  BY DEF ResultOf
<1>4. failed # {} <=> \E j \in JobsOf(c) : status[j.id] \in {"FAILED", "KILLED"} /\ outcome[j.id].message # None
  BY <1>3
<1>5. QED
  <2> HIDE DEF failed, results
  <2>1. {r.message : r \in failed} # {} <=> failed # {}
    OBVIOUS
  <2>2. QED BY <1>1, <1>2, <1>4, <2>1

Concluded == {i \in DOMAIN cfgs : cfgs[i].stage = "deployed"}
LEMMA FailureReported ==
  ASSUME input \in Inputs, JobsKnown, EndsKnown, DOMAIN status = Ids(jobs)
  PROVE  (\E i \in Concluded : DOMAIN Report(cfgs[i]).failed # {})
           <=> \E id \in DOMAIN status : status[id] # "PASSED"
<1>1. ASSUME NEW i \in Concluded, DOMAIN Report(cfgs[i]).failed # {}
      PROVE  \E id \in DOMAIN status : status[id] # "PASSED"
  <2>1. PICK j \in JobsOf(cfgs[i]) : status[j.id] \in {"FAILED", "KILLED"}
    BY <1>1, FailedBuckets
  <2>2. j \in ToSet(jobs)
    BY DEF JobsOf
  <2>3. j.id \in Ids(jobs)
    BY <2>2 DEF Ids, ToSet
  <2>4. QED BY <2>1, <2>3
<1>2. ASSUME NEW id \in DOMAIN status, status[id] # "PASSED"
      PROVE  \E i \in Concluded : DOMAIN Report(cfgs[i]).failed # {}
  <2> DEFINE j == JobOf(id)
  <2>1. j \in ToSet(jobs) /\ j.id = id
    BY JobOfId
  <2>2. PICK i \in Concluded : j.block = <<cfgs[i].name, cfgs[i].variant>>
    BY <2>1 DEF JobsKnown, HasConfig, Concluded
  <2>3. j \in JobsOf(cfgs[i])
    BY <2>1, <2>2 DEF JobsOf
  <2>4. status[id] \in {"FAILED", "KILLED"} /\ outcome[id].message # None
    BY <1>2, EndTells DEF Ends
  <2> HIDE DEF j
  <2>5. \E l \in JobsOf(cfgs[i]) : status[l.id] \in {"FAILED", "KILLED"} /\ outcome[l.id].message # None
    BY <2>1, <2>3, <2>4
  <2>6. DOMAIN Report(cfgs[i]).failed # {}
    BY <2>5, FailedBuckets
  <2>7. QED BY <2>6
<1>3. QED BY <1>1, <1>2

-----------------------------------------------------------------------------
(* Before the jobs go to the scheduler a program that ends has failed, or   *)
(* was asked only for a list; otherwise there still are no jobs.           *)
Early == pc \notin {"run", "done"}
LEMMA EndsEarly ==
  ASSUME FlowInv, Early, UNCHANGED <<input, jobs, status, outcome>>,
         \/ pc' \in {"args", "make", "objects", "coverage", "lists"}
         \/ pc' = "done" /\ (exit' = 1 \/ args'.list)
  PROVE  FlowInv'
<1>1. jobs' = <<>> /\ DOMAIN status' = {} /\ DOMAIN outcome' = {}
  BY DEF FlowInv, Early
<1>2. SuccessMeansAllPassed'
  BY <1>1 DEF SuccessMeansAllPassed
<1>3. QED BY <1>1, <1>2 DEF FlowInv

LEMMA FlowInitially == Init => FlowInv
<1>1. ASSUME Init PROVE FlowInv
  <2>1. pc = "args" /\ jobs = <<>> /\ DOMAIN status = {} /\ DOMAIN outcome = {} /\ input \in Inputs
    BY <1>1 DEF Init
  <2>2. SuccessMeansAllPassed
    BY <2>1 DEF SuccessMeansAllPassed
  <2>3. QED BY <2>1, <2>2 DEF FlowInv
<1>2. QED BY <1>1

LEMMA FlowPrepares ==
  ASSUME FlowInv,
         \/ ParseArgs \/ MakeCfg \/ Choose \/ CreateCoverage
         \/ \E i \in DOMAIN cfgs : CreateObjects(i) \/ CreateLists(i) \/ CreateDeploy(i)
  PROVE  FlowInv'
<1>1. CASE ParseArgs
  BY <1>1, EndsEarly DEF ParseArgs, Early
<1>2. CASE MakeCfg
  <2>1. pc = "make" /\ UNCHANGED <<input, args, jobs, status, outcome>>
        /\ (pc' = "objects" \/ (pc' = "done" /\ exit' = 1))
    BY <1>2 DEF MakeCfg, Fail
  <2>2. QED BY <2>1, EndsEarly DEF Early
<1>3. CASE Choose
  <2>1. pc = "objects" /\ UNCHANGED <<input, args, jobs, status, outcome>>
        /\ (pc' \in {"coverage", "lists"} \/ (pc' = "done" /\ (exit' = 1 \/ args'.list)))
    BY <1>3 DEF Choose, Fail
  <2>2. QED BY <2>1, EndsEarly DEF Early
<1>4. CASE CreateCoverage
  <2>1. pc = "coverage" /\ UNCHANGED <<input, args, jobs, status, outcome>>
        /\ (pc' = "lists" \/ (pc' = "done" /\ exit' = 1))
    BY <1>4 DEF CreateCoverage, Fail
  <2>2. QED BY <2>1, EndsEarly DEF Early
<1>5. ASSUME NEW i \in DOMAIN cfgs, CreateObjects(i) \/ CreateLists(i) \/ CreateDeploy(i)
      PROVE  FlowInv'
  <2>1. ASSUME NEW c, Advance(i, c) PROVE UNCHANGED pc \/ (pc' = "done" /\ exit' = 1)
    BY <2>1 DEF Advance, Fail
  <2>2. /\ pc \in {"objects", "lists"} /\ UNCHANGED <<input, args, jobs, status, outcome>>
        /\ \E c : Advance(i, c)
    BY <1>5 DEF CreateObjects, CreateLists, CreateDeploy
  <2>3. QED BY <2>1, <2>2, EndsEarly DEF Early
<1>6. QED BY <1>1, <1>2, <1>3, <1>4, <1>5

LEMMA FlowDeploys ==
  ASSUME FlowInv, JobsOfConfigs, DeployObjects
  PROVE  FlowInv'
<1> DEFINE specs == Specs
           graph == Kept(specs)
<1>1. /\ pc = "lists" /\ UNCHANGED <<input, args, cfgs, status, outcome>>
      /\ \/ pc' = "done" /\ exit' = 1 /\ UNCHANGED jobs
         \/ specs # <<>> /\ jobs' = graph /\ pc' = "run" /\ UNCHANGED exit
  BY DEF DeployObjects, Fail
<1>2. CASE pc' = "done" /\ exit' = 1 /\ UNCHANGED jobs
  BY <1>1, <1>2, EndsEarly DEF Early
<1>3. CASE specs # <<>> /\ jobs' = graph /\ pc' = "run"
  <2>2. /\ graph \in Seq(ToSet(graph)) /\ graph # <<>> /\ Distinct(graph)
        /\ \A j \in ToSet(graph) : HasConfig(j) /\ j.pass \in Seq(ToSet(j.pass))
    <3> HIDE DEF specs
    <3>1. specs = Specs
      BY DEF specs
    <3>2. QED BY <1>3, <3>1, DeployedJobs
  <2> HIDE DEF graph
  <2>3. JobsKnown'
    BY <1>1, <1>3, <2>2 DEF JobsKnown, HasConfig, Distinct
  <2>4. DOMAIN status' = {} /\ DOMAIN outcome' = {}
    BY <1>1 DEF FlowInv
  <2>5. EndsKnown'
    BY <2>4 DEF EndsKnown
  <2>6. SuccessMeansAllPassed'
    BY <1>3 DEF SuccessMeansAllPassed
  <2>7. QED BY <1>1, <1>3, <2>3, <2>5, <2>6 DEF FlowInv
<1>4. QED BY <1>1, <1>2, <1>3

LEMMA FlowRuns ==
  ASSUME FlowInv, NEW j \in ToSet(jobs), NEW log \in input.logs, RunJob(j, log)
  PROVE  FlowInv'
<1>1. /\ pc = "run" /\ pc' = "run" /\ j.id \notin DOMAIN status
      /\ UNCHANGED <<input, args, cfgs, jobs, exit>>
  BY DEF RunJob, Waits
<1>2. JobsKnown /\ EndsKnown
  BY <1>1 DEF FlowInv
<1>3. JobsKnown'
  BY <1>1, <1>2 DEF JobsKnown, HasConfig, Distinct
<1>4. PICK end \in {IF MayRun(j) THEN Outcome(args.backend, j, log) ELSE Cancelled} :
        status' = Put(status, j.id, end.status) /\ outcome' = Put(outcome, j.id, end)
  BY DEF RunJob
<1>5. \/ end = Cancelled
      \/ /\ end = Outcome(args.backend, JobOf(j.id), log)
         /\ ~PostFinishRaises(JobOf(j.id), end.status, log)
  <2>1. JobOf(j.id) = j
    BY <1>2, JobOfId
  <2>2. MayRun(j) => ~PostFinishRaises(j, Outcome(args.backend, j, log).status, log)
    BY DEF RunJob, Completes
  <2>3. QED BY <1>4, <2>1, <2>2
<1>6. /\ DOMAIN status' = DOMAIN status \cup {j.id} /\ DOMAIN outcome' = DOMAIN outcome \cup {j.id}
      /\ status'[j.id] = end.status /\ outcome'[j.id] = end
      /\ \A id \in DOMAIN status : id # j.id => status'[id] = status[id]
      /\ \A id \in DOMAIN outcome : id # j.id => outcome'[id] = outcome[id]
  <2>1. /\ DOMAIN status' = DOMAIN status \cup {j.id} /\ status'[j.id] = end.status
        /\ \A id \in DOMAIN status : id # j.id => status'[id] = status[id]
    BY <1>4 DEF Put
  <2>2. /\ DOMAIN outcome' = DOMAIN outcome \cup {j.id} /\ outcome'[j.id] = end
        /\ \A id \in DOMAIN outcome : id # j.id => outcome'[id] = outcome[id]
    BY <1>4 DEF Put
  <2>3. QED BY <2>1, <2>2
<1>7. j.id \in Ids(jobs)
  BY DEF Ids, ToSet
<1>8. ASSUME NEW id \in DOMAIN status' PROVE Ended(id)'
  <2>1. JobOf(id)' = JobOf(id)
    BY <1>1 DEF JobOf
  <2>2. CASE id = j.id
    <3>1. status'[id] = outcome'[id].status
      BY <1>6, <2>2
    <3>2. \/ outcome'[id] = Cancelled
          \/ /\ outcome'[id] = Outcome(args'.backend, JobOf(id)', log)
             /\ ~PostFinishRaises(JobOf(id)', outcome'[id].status, log)
      BY <1>1, <1>5, <1>6, <2>1, <2>2
    <3>3. log \in input'.logs
      BY <1>1
    <3>4. QED BY <3>1, <3>2, <3>3 DEF Ended
  <2>3. CASE id # j.id
    <3>1. id \in DOMAIN status /\ id \in DOMAIN outcome
      BY <1>2, <1>6, <2>3 DEF EndsKnown
    <3>2. status'[id] = status[id] /\ outcome'[id] = outcome[id]
      BY <1>6, <2>3, <3>1
    <3>3. Ended(id)
      BY <1>2, <3>1 DEF EndsKnown
    <3>4. QED BY <1>1, <2>1, <3>2, <3>3 DEF Ended
  <2>4. QED BY <2>2, <2>3
<1>9. EndsKnown'
  <2>1. Ids(jobs)' = Ids(jobs)
    BY <1>1
  <2>2. QED BY <1>2, <1>6, <1>7, <1>8, <2>1 DEF EndsKnown
<1>10. SuccessMeansAllPassed'
  BY <1>1 DEF SuccessMeansAllPassed
<1>11. QED BY <1>1, <1>3, <1>9, <1>10 DEF FlowInv

(* An end that is lost leaves the other jobs as they are; the fake backend  *)
(* ends the program with a job that did not end.                           *)
LEMMA FlowLoses ==
  ASSUME FlowInv, NEW j \in ToSet(jobs), NEW log, LoseJob(j, log)
  PROVE  FlowInv'
<1>1. /\ pc = "run" /\ j.id \notin DOMAIN status
      /\ UNCHANGED <<input, args, cfgs, jobs, status, outcome>>
      /\ UNCHANGED pc \/ pc' = "done"
  BY DEF LoseJob, Waits, Fail
<1>2. JobsKnown /\ EndsKnown
  BY <1>1 DEF FlowInv
<1>3. JobsKnown' /\ EndsKnown'
  BY <1>1, <1>2 DEF JobsKnown, HasConfig, Distinct, EndsKnown, Ended, JobOf
<1>4. j.id \in Ids(jobs)
  BY DEF Ids, ToSet
<1>5. SuccessMeansAllPassed'
  <2>1. CASE UNCHANGED pc
    BY <1>1, <2>1 DEF SuccessMeansAllPassed
  <2>2. CASE pc' = "done"
    <3>1. exit' = 1
      BY <1>1, <2>2 DEF LoseJob, Fail
    <3>2. DOMAIN status' # Ids(jobs')
      BY <1>1, <1>4
    <3>3. QED BY <3>1, <3>2 DEF SuccessMeansAllPassed
  <2>3. QED BY <1>1, <2>1, <2>2
<1>6. QED BY <1>1, <1>3, <1>5 DEF FlowInv

LEMMA FlowConcludes ==
  ASSUME FlowInv, GenResults
  PROVE  FlowInv'
<1>1. /\ pc = "run" /\ pc' = "done" /\ DOMAIN status = Ids(jobs)
      /\ UNCHANGED <<input, args, cfgs, jobs, status, outcome>>
  BY DEF GenResults
<1>2. JobsKnown /\ EndsKnown /\ input \in Inputs
  BY <1>1 DEF FlowInv
<1>3. CASE args.covUnr \/ args.covAnalyze
  <2>1. SuccessMeansAllPassed'
    BY <1>1, <1>3 DEF SuccessMeansAllPassed
  <2>2. QED BY <1>1, <1>2, <2>1 DEF FlowInv
<1> DEFINE supported == \A i \in DOMAIN cfgs : cfgs[i].stage = "deployed" => cfgs[i].tool \in Tools
<1>4. CASE ~(args.covUnr \/ args.covAnalyze) /\ ~supported
  <2>1. exit' = 1
    BY <1>4 DEF GenResults
  <2>2. ~supported'
    BY <1>1, <1>4
  <2>3. SuccessMeansAllPassed'
    BY <2>1, <2>2 DEF SuccessMeansAllPassed
  <2>4. QED BY <1>1, <1>2, <2>3 DEF FlowInv
<1>5. CASE ~(args.covUnr \/ args.covAnalyze) /\ supported
  <2>1. exit' = IF \E i \in Concluded : DOMAIN Report(cfgs[i]).failed # {} THEN 1 ELSE 0
    BY <1>5 DEF GenResults, Concluded
  <2>2. exit' = IF \E id \in DOMAIN status : status[id] # "PASSED" THEN 1 ELSE 0
    BY <1>1, <1>2, <2>1, FailureReported
  <2> DEFINE CleanId(id) == outcome[id].log # None /\ Clean(JobOf(id), outcome[id].log)
             Own(id) == OnOwnLines(JobOf(id), outcome[id].log)
  <2>3. \A id \in DOMAIN status :
          /\ status[id] = "PASSED" => CleanId(id)
          /\ CleanId(id) /\ (args.backend = "local" \/ Own(id)) => status[id] = "PASSED"
    BY <1>2, EndTells
  <2>4. \A id \in DOMAIN status : CleanId(id)' = CleanId(id) /\ Own(id)' = Own(id)
    BY <1>1 DEF Clean, OnOwnLines, JobOf
  <2>5. jobs' # <<>> /\ DOMAIN status' = Ids(jobs)' /\ args' = args /\ status' = status
    BY <1>1, <1>2 DEF JobsKnown
  <2>6. exit' = 0 => \A id \in DOMAIN status : CleanId(id)
    <3> HIDE DEF CleanId, Own
    <3>1. QED BY <2>2, <2>3
  <2>7. /\ \A id \in DOMAIN status : CleanId(id)
        /\ args.backend = "local" \/ \A id \in DOMAIN status : Own(id)
        => exit' = 0
    <3> HIDE DEF CleanId, Own
    <3>1. QED BY <2>2, <2>3
  <2>8. supported'
    BY <1>1, <1>5
  <2>9. SuccessMeansAllPassed'
    BY <2>4, <2>5, <2>6, <2>7, <2>8 DEF SuccessMeansAllPassed
  <2>10. QED BY <1>1, <1>2, <2>9 DEF FlowInv
<1>6. QED BY <1>3, <1>4, <1>5

(* A step changes nothing that the invariant reads, or is one of the above. *)
LEMMA FlowStep ==
  ASSUME FlowInv, JobsOfConfigs, [Next]_vars
  PROVE  FlowInv'
<1>1. CASE ParseArgs \/ MakeCfg \/ Choose \/ CreateCoverage
           \/ \E i \in DOMAIN cfgs : CreateObjects(i) \/ CreateLists(i) \/ CreateDeploy(i)
  BY <1>1, FlowPrepares
<1>2. CASE DeployObjects
  BY <1>2, FlowDeploys
<1>3. ASSUME NEW j \in ToSet(jobs), NEW log \in input.logs, RunJob(j, log) \/ LoseJob(j, log)
      PROVE  FlowInv'
  BY <1>3, FlowRuns, FlowLoses
<1>4. CASE GenResults
  BY <1>4, FlowConcludes
<1>5. CASE UNCHANGED vars
  <2>1. UNCHANGED <<input, args, pc, cfgs, jobs, status, outcome, exit>>
    BY <1>5 DEF vars
  <2>2. (JobsKnown <=> JobsKnown') /\ (EndsKnown <=> EndsKnown')
    BY <2>1 DEF JobsKnown, HasConfig, Distinct, EndsKnown, Ended, JobOf
  <2>3. SuccessMeansAllPassed <=> SuccessMeansAllPassed'
    BY <2>1 DEF SuccessMeansAllPassed, Clean, OnOwnLines, JobOf
  <2>4. QED BY <2>1, <2>2, <2>3 DEF FlowInv
<1>6. QED BY <1>1, <1>2, <1>3, <1>4, <1>5 DEF Next

(* The exit code is true (flow.py:845, cli/run.py's main()): an invocation  *)
(* that reports success has run every job, each ended with the exit code 0  *)
(* and a log without a failing line and with every pass pattern, left a     *)
(* coverage report that could be read if it was to leave one, and has a     *)
(* plugin for each tool; and one that ends with all of that reports         *)
(* success.  An exception in post_finish() (deploy.py:983) or for a tool    *)
(* without plugin (flow.py:828) becomes a failure, or keeps the program     *)
(* from its end, but never a success.  This is for any files, arguments and *)
(* logs, whatever the messages of the failures are.                        *)
THEOREM SuccessIsTrue == Spec => []SuccessMeansAllPassed
<1>1. FlowInv => SuccessMeansAllPassed
  BY DEF FlowInv
<1>2. QED BY <1>1, FlowInitially, FlowStep, JobsAreTheirs, PTL DEF Spec

-----------------------------------------------------------------------------
(* What the flow gives to the scheduler is what module Scheduler assumes of *)
(* it (JobsAssumption, AcyclicAssumption): one job of an id, dependencies   *)
(* among the jobs, and no jobs that wait for each other.                   *)
SchedulerGraph ==
  /\ Distinct(jobs)
  /\ \A j \in ToSet(jobs) : ToSet(j.deps) \subseteq Ids(jobs)
  /\ \A U \in SUBSET Ids(jobs) : U # {} => \E j \in ToSet(jobs) : j.id \in U /\ ToSet(j.deps) \cap U = {}

LEMMA GraphDeployed ==
  ASSUME SchedulerGraph, JobsOfConfigs, DeployObjects
  PROVE  SchedulerGraph'
<1> DEFINE specs == Specs
           graph == Kept(specs)
<1>1. /\ pc = "lists"
      /\ \/ UNCHANGED jobs
         \/ /\ specs # <<>> /\ jobs' = graph /\ Acyclic(graph)
            /\ \A k \in DOMAIN graph : ToSet(graph[k].deps) \subseteq Ids(graph)
  BY DEF DeployObjects, Fail
<1>2. CASE UNCHANGED jobs
  BY <1>2 DEF SchedulerGraph, Distinct
<1>3. CASE /\ specs # <<>> /\ jobs' = graph /\ Acyclic(graph)
           /\ \A k \in DOMAIN graph : ToSet(graph[k].deps) \subseteq Ids(graph)
  <2>1. graph \in Seq(ToSet(graph)) /\ Distinct(graph)
    <3> HIDE DEF specs
    <3>1. specs = Specs
      BY DEF specs
    <3>2. QED BY <1>3, <3>1, DeployedJobs
  <2> HIDE DEF graph
  <2>2. ToSet(graph) = {graph[k] : k \in DOMAIN graph}
    BY DEF ToSet
  <2>3. \A j \in ToSet(graph) : ToSet(j.deps) \subseteq Ids(graph)
    BY <1>3, <2>2
  <2>4. ASSUME NEW U \in SUBSET Ids(graph), U # {}
        PROVE  \E j \in ToSet(graph) : j.id \in U /\ ToSet(j.deps) \cap U = {}
    <3>1. PICK k \in DOMAIN graph : graph[k].id \in U /\ ToSet(graph[k].deps) \cap U = {}
      BY <1>3, <2>1, <2>4, SomeWaitForNone
    <3>2. QED BY <2>2, <3>1
  <2>5. QED BY <1>3, <2>1, <2>3, <2>4 DEF SchedulerGraph, Distinct
<1>4. QED BY <1>1, <1>2, <1>3

LEMMA GraphStep ==
  ASSUME SchedulerGraph, JobsOfConfigs, [Next]_vars
  PROVE  SchedulerGraph'
<1>1. CASE DeployObjects
  BY <1>1, GraphDeployed
<1>2. CASE ~DeployObjects
  <2>1. UNCHANGED jobs
    BY <1>2 DEF Next, vars, ParseArgs, MakeCfg, Choose, CreateCoverage, GenResults,
                CreateObjects, CreateLists, CreateDeploy, RunJob, LoseJob
  <2>2. QED BY <2>1 DEF SchedulerGraph, Distinct
<1>3. QED BY <1>1, <1>2

(* validate_acyclic() and build_graph() (core.py:195-241) let through only  *)
(* graphs as module Scheduler assumes them.                                *)
THEOREM GraphIsFit == Spec => []SchedulerGraph
<1>1. Init => SchedulerGraph
  <2>1. ASSUME jobs = <<>> PROVE SchedulerGraph
    <3>1. ToSet(<<>>) = {} /\ Ids(<<>>) = {} /\ Distinct(<<>>)
      BY DEF ToSet, Ids, Distinct
    <3>2. QED BY <2>1, <3>1 DEF SchedulerGraph
  <2>2. QED BY <2>1 DEF Init
<1>2. QED BY <1>1, GraphStep, JobsAreTheirs, PTL DEF Spec

(* Until every job has ended there is one that may end next, unless the end *)
(* of one was lost: the run of the jobs never gets stuck behind a           *)
(* dependency.                                                             *)
SomeJobIsNext ==
  pc = "run" /\ lost = {} /\ DOMAIN status # Ids(jobs) => \E j \in ToSet(jobs) : Waits(j)

THEOREM RunNeverStuck == Spec => []SomeJobIsNext
<1>1. FlowInv /\ SchedulerGraph => SomeJobIsNext
  <2>1. SUFFICES ASSUME FlowInv, SchedulerGraph, pc = "run", lost = {}, DOMAIN status # Ids(jobs)
                 PROVE  \E j \in ToSet(jobs) : j.id \notin DOMAIN status /\ ToSet(j.deps) \subseteq DOMAIN status
    BY DEF SomeJobIsNext, Waits
  <2>2. DOMAIN status \subseteq Ids(jobs)
    BY <2>1 DEF FlowInv, EndsKnown
  <2> DEFINE U == Ids(jobs) \ DOMAIN status
  <2>3. U # {} /\ U \in SUBSET Ids(jobs)
    BY <2>1, <2>2
  <2>4. PICK j \in ToSet(jobs) : j.id \in U /\ ToSet(j.deps) \cap U = {}
    BY <2>1, <2>3 DEF SchedulerGraph
  <2>5. ToSet(j.deps) \subseteq Ids(jobs)
    BY <2>1 DEF SchedulerGraph
  <2>6. QED BY <2>4, <2>5
<1>2. Spec => []FlowInv
  BY FlowInitially, FlowStep, JobsAreTheirs, PTL DEF Spec
<1>3. QED BY <1>1, <1>2, GraphIsFit, PTL

-----------------------------------------------------------------------------
(* Coverage.  The runs that passed and write to a database, the one that a  *)
(* build clears.                                                           *)
Passed(id) == id \in DOMAIN status /\ status[id] = "PASSED"
Writers(d) == {j \in ToSet(jobs) : j.target = "run" /\ j.covdb = d}
PassedOn(d) == {j.id : j \in {x \in Writers(d) : Passed(x.id)}}
Old == {<<"old">>}

(* How jobs use the databases: each is cleared by one build, which is       *)
(* before the runs that write to it, and these before the merge of it.      *)
DatabasesFit ==
  /\ \A j, l \in ToSet(jobs) : j.id = l.id => j = l
  /\ \A b \in ToSet(jobs) : b.target = "build" =>
       /\ b.all /\ ToSet(b.deps) = {}
       /\ \A l \in ToSet(jobs) : l.target = "build" /\ l.covdb = b.covdb => l = b
       /\ \A r \in Writers(b.covdb) : b.id \in ToSet(r.deps)
  /\ \A r \in ToSet(jobs) : r.target = "run" /\ ~args.runOnly =>
       \E b \in ToSet(jobs) : b.target = "build" /\ b.covdb = r.covdb /\ b.id \in ToSet(r.deps)
  /\ \A m \in ToSet(jobs) : m.target = "cov_merge" =>
       /\ \A j \in ToSet(jobs) : j.target \in {"build", "run"} => j.covdb # m.id
       /\ \A d \in Databases(m) : Writers(d) # {} /\ \A r \in Writers(d) : r.id \in ToSet(m.deps)

(* What is in the databases while the jobs run.                             *)
MergedRuns(m) == UNION {PassedOn(d) : d \in Databases(m)}
DatabasesHeld ==
  /\ \A r \in ToSet(jobs) : r.target = "run" =>
       /\ Passed(r.id) => r.covdb \in DOMAIN cov /\ r.id \in cov[r.covdb]
       /\ r.covdb \in DOMAIN cov => cov[r.covdb] \subseteq PassedOn(r.covdb) \cup Old
  /\ \A b \in ToSet(jobs) : b.target = "build" /\ b.id \in DOMAIN status =>
       b.covdb \in DOMAIN cov /\ cov[b.covdb] \subseteq PassedOn(b.covdb)
  /\ \A m \in ToSet(jobs) : m.target = "cov_merge" /\ m.id \in DOMAIN status /\ status[m.id] # "KILLED" =>
       m.id \in DOMAIN cov /\ Between(MergedRuns(m), cov[m.id], IF args.runOnly THEN Old ELSE {})
EndedInOrder == \A j \in ToSet(jobs) : j.id \in DOMAIN status => ToSet(j.deps) \subseteq DOMAIN status
CoverageKnown == args.cov /\ DatabasesFit => EndedInOrder /\ DatabasesHeld

(* A job that ends.                                                        *)
LEMMA PassedAfter ==
  ASSUME NEW j \in ToSet(jobs), NEW log, RunJob(j, log)
  PROVE  /\ UNCHANGED <<args, jobs>> /\ j.id \notin DOMAIN status /\ ToSet(j.deps) \subseteq DOMAIN status
         /\ DOMAIN status' = DOMAIN status \cup {j.id}
         /\ \A id : id # j.id => (Passed(id)' <=> Passed(id))
         /\ \A id \in DOMAIN status : status'[id] = status[id]
         /\ ~Passed(j.id)
         /\ IF MayRun(j) THEN args.cov => cov' = CovAfter(j, status'[j.id])
            ELSE status'[j.id] = "KILLED" /\ UNCHANGED cov
<1>1. PICK end \in {IF MayRun(j) THEN Outcome(args.backend, j, log) ELSE Cancelled} :
        /\ status' = Put(status, j.id, end.status)
        /\ cov' = IF ~MayRun(j) \/ ~args.cov THEN cov ELSE CovAfter(j, end.status)
  BY DEF RunJob
<1>2. UNCHANGED <<args, jobs>> /\ j.id \notin DOMAIN status /\ ToSet(j.deps) \subseteq DOMAIN status
  BY DEF RunJob, Waits
<1>3. /\ DOMAIN status' = DOMAIN status \cup {j.id} /\ status'[j.id] = end.status
      /\ \A id \in DOMAIN status \cup {j.id} : id # j.id => status'[id] = status[id]
  BY <1>1 DEF Put
<1>4. \A id : id # j.id => (Passed(id)' <=> Passed(id))
  BY <1>3 DEF Passed
<1>5. ~MayRun(j) => end.status = "KILLED"
  BY <1>1 DEF Cancelled, EndOf, Result
<1>6. ~Passed(j.id)
  BY <1>2 DEF Passed
<1>7. QED BY <1>1, <1>2, <1>3, <1>4, <1>5, <1>6

LEMMA DatabasesStillFit ==
  ASSUME UNCHANGED <<args, jobs>>
  PROVE  (DatabasesFit' <=> DatabasesFit) /\ \A d : Writers(d)' = Writers(d)
<1>1. \A d : Writers(d)' = Writers(d)
  BY DEF Writers
<1>2. \A m : Databases(m)' = Databases(m)
  BY DEF Databases
<1>3. QED BY <1>1, <1>2 DEF DatabasesFit

LEMMA PassedOnAfter ==
  ASSUME NEW j \in ToSet(jobs), NEW log, RunJob(j, log), \A l \in ToSet(jobs) : l.id = j.id => l = j
  PROVE  /\ \A d : PassedOn(d) \subseteq PassedOn(d)'
         /\ \A d : PassedOn(d)' = PassedOn(d) \/ (j.target = "run" /\ j.covdb = d /\ Passed(j.id)'
                                                  /\ PassedOn(d)' = PassedOn(d) \cup {j.id})
<1>1. /\ \A id : id # j.id => (Passed(id)' <=> Passed(id))
      /\ ~Passed(j.id) /\ UNCHANGED <<args, jobs>>
  BY PassedAfter
<1>2. \A d : Writers(d)' = Writers(d)
  BY <1>1, DatabasesStillFit
<1>3. ASSUME NEW d PROVE PassedOn(d) \subseteq PassedOn(d)'
  BY <1>1, <1>2 DEF PassedOn
<1>4. ASSUME NEW d, ~(j.target = "run" /\ j.covdb = d /\ Passed(j.id)') PROVE PassedOn(d)' = PassedOn(d)
  <2>1. ASSUME NEW r \in Writers(d) PROVE Passed(r.id)' <=> Passed(r.id)
    <3>1. CASE r.id = j.id
      <4>1. r = j
        BY <2>1, <3>1 DEF Writers
      <4>2. QED BY <1>1, <1>4, <2>1, <4>1 DEF Writers
    <3>2. QED BY <1>1, <3>1
  <2>2. QED BY <1>2, <2>1 DEF PassedOn
<1>5. ASSUME NEW d, j.target = "run", j.covdb = d, Passed(j.id)' PROVE PassedOn(d)' = PassedOn(d) \cup {j.id}
  <2>1. j \in Writers(d)
    BY <1>5 DEF Writers
  <2>2. \A r \in Writers(d) : r.id # j.id => (Passed(r.id)' <=> Passed(r.id))
    BY <1>1
  <2>3. PassedOn(d)' = {r.id : r \in {x \in Writers(d) : Passed(x.id)'}}
    BY <1>2 DEF PassedOn
  <2>4. \A r \in Writers(d) : Passed(r.id)' <=> Passed(r.id) \/ r.id = j.id
    BY <1>5, <2>2
  <2>5. QED BY <2>1, <2>3, <2>4 DEF PassedOn
<1>6. QED BY <1>3, <1>4, <1>5

(* What a step leaves alone: the databases of the other jobs.               *)
LEMMA BuildCleared ==
  ASSUME EndedInOrder, DatabasesFit, DatabasesHeld, args.cov,
         NEW j \in ToSet(jobs), NEW log, RunJob(j, log), j.target = "build"
  PROVE  DatabasesHeld'
<1> DEFINE d == j.covdb
<1>1. MayRun(j)
  BY DEF MayRun, DatabasesFit
<1>2. cov' = Put(cov, d, {})
  BY <1>1, PassedAfter DEF CovAfter
<1>3. /\ DOMAIN cov' = DOMAIN cov \cup {d} /\ cov'[d] = {}
      /\ \A e \in DOMAIN cov : e # d => cov'[e] = cov[e]
  BY <1>2 DEF Put
<1>4. /\ UNCHANGED <<args, jobs>> /\ j.id \notin DOMAIN status
      /\ DOMAIN status' = DOMAIN status \cup {j.id} /\ \A id \in DOMAIN status : status'[id] = status[id]
  BY PassedAfter
<1>5. \A e : PassedOn(e)' = PassedOn(e)
  BY PassedOnAfter DEF DatabasesFit
<1>6. \A r \in ToSet(jobs) : r.target = "run" => (Passed(r.id)' <=> Passed(r.id))
  BY PassedAfter DEF DatabasesFit
<1>7. ASSUME NEW r \in ToSet(jobs), r.target = "run"
      PROVE  /\ Passed(r.id)' => r.covdb \in DOMAIN cov' /\ r.id \in cov'[r.covdb]
             /\ r.covdb \in DOMAIN cov' => cov'[r.covdb] \subseteq PassedOn(r.covdb)' \cup Old
  <2>1. CASE r.covdb = d
    <3>1. j.id \in ToSet(r.deps)
      BY <1>7, <2>1 DEF DatabasesFit, Writers
    <3>2. ~Passed(r.id)
      BY <1>4, <3>1 DEF EndedInOrder, Passed
    <3>3. QED BY <1>3, <1>6, <1>7, <2>1, <3>2
  <2>2. CASE r.covdb # d
    BY <1>3, <1>5, <1>6, <1>7, <2>2 DEF DatabasesHeld
  <2>3. QED BY <2>1, <2>2
<1>8. ASSUME NEW b \in ToSet(jobs), b.target = "build", b.id \in DOMAIN status'
      PROVE  b.covdb \in DOMAIN cov' /\ cov'[b.covdb] \subseteq PassedOn(b.covdb)'
  <2>1. CASE b.covdb = d
    BY <1>3, <2>1
  <2>2. CASE b.covdb # d
    <3>1. b.id # j.id
      BY <1>8, <2>2 DEF DatabasesFit
    <3>2. QED BY <1>3, <1>4, <1>5, <1>8, <2>2, <3>1 DEF DatabasesHeld
  <2>3. QED BY <2>1, <2>2
<1>9. ASSUME NEW m \in ToSet(jobs), m.target = "cov_merge", m.id \in DOMAIN status', status'[m.id] # "KILLED"
      PROVE  m.id \in DOMAIN cov' /\ Between(MergedRuns(m)', cov'[m.id], IF args'.runOnly THEN Old ELSE {})
  <2>1. m.id # j.id /\ m.id # d
    BY <1>9 DEF DatabasesFit
  <2>2. m.id \in DOMAIN cov /\ Between(MergedRuns(m), cov[m.id], IF args.runOnly THEN Old ELSE {})
    BY <1>4, <1>9, <2>1 DEF DatabasesHeld
  <2>3. MergedRuns(m)' = MergedRuns(m)
    BY <1>4, <1>5 DEF MergedRuns, Databases
  <2>4. QED BY <1>3, <1>4, <2>1, <2>2, <2>3
<1>10. QED BY <1>4, <1>7, <1>8, <1>9 DEF DatabasesHeld

LEMMA RunCovered ==
  ASSUME EndedInOrder, DatabasesFit, DatabasesHeld, args.cov,
         NEW j \in ToSet(jobs), NEW log, RunJob(j, log), j.target = "run", Passed(j.id)'
  PROVE  DatabasesHeld'
<1> DEFINE d == j.covdb
           was == IF d \in DOMAIN cov THEN cov[d] ELSE {}
<1>1. MayRun(j) /\ status'[j.id] = "PASSED"
  BY PassedAfter DEF Passed
<1>2. cov' = Put(cov, d, was \cup {j.id})
  BY <1>1, PassedAfter DEF CovAfter
<1>3. /\ DOMAIN cov' = DOMAIN cov \cup {d} /\ cov'[d] = was \cup {j.id}
      /\ \A e \in DOMAIN cov : e # d => cov'[e] = cov[e]
  BY <1>2 DEF Put
<1>4. /\ UNCHANGED <<args, jobs>> /\ j.id \notin DOMAIN status
      /\ DOMAIN status' = DOMAIN status \cup {j.id} /\ \A id \in DOMAIN status : status'[id] = status[id]
      /\ \A id : id # j.id => (Passed(id)' <=> Passed(id))
  BY PassedAfter
<1>5. /\ PassedOn(d)' = PassedOn(d) \cup {j.id}
      /\ \A e : e # d => PassedOn(e)' = PassedOn(e)
  <2>1. j \in Writers(d)' /\ j.id \in PassedOn(d)'
    BY <1>4 DEF Writers, PassedOn
  <2>2. \A l \in ToSet(jobs) : l.id = j.id => l = j
    BY DEF DatabasesFit
  <2>3. QED BY <2>1, <2>2, PassedOnAfter
<1> HIDE DEF d, was
<1>6. was \subseteq PassedOn(d) \cup Old
  BY DEF DatabasesHeld, was, d
<1>7. ASSUME NEW r \in ToSet(jobs), r.target = "run"
      PROVE  /\ Passed(r.id)' => r.covdb \in DOMAIN cov' /\ r.id \in cov'[r.covdb]
             /\ r.covdb \in DOMAIN cov' => cov'[r.covdb] \subseteq PassedOn(r.covdb)' \cup Old
  <2>1. CASE r.covdb = d
    <3>1. Passed(r.id)' => r.id = j.id \/ Passed(r.id)
      BY <1>4
    <3>2. Passed(r.id) => r.id \in was
      BY <1>7, <2>1 DEF DatabasesHeld, was
    <3>3. QED BY <1>3, <1>5, <1>6, <2>1, <3>1, <3>2
  <2>2. CASE r.covdb # d
    <3>1. r.id # j.id
      BY <1>7, <2>2 DEF DatabasesFit, d
    <3>2. QED BY <1>3, <1>4, <1>5, <1>7, <2>2, <3>1 DEF DatabasesHeld
  <2>3. QED BY <2>1, <2>2
<1>8. ASSUME NEW b \in ToSet(jobs), b.target = "build", b.id \in DOMAIN status'
      PROVE  b.covdb \in DOMAIN cov' /\ cov'[b.covdb] \subseteq PassedOn(b.covdb)'
  <2>1. b.id # j.id
    BY <1>8 DEF DatabasesFit
  <2>2. b.covdb \in DOMAIN cov /\ cov[b.covdb] \subseteq PassedOn(b.covdb)
    BY <1>4, <1>8, <2>1 DEF DatabasesHeld
  <2>3. CASE b.covdb = d
    <3>1. was \subseteq PassedOn(d)
      BY <2>2, <2>3 DEF was
    <3>2. QED BY <1>3, <1>5, <2>3, <3>1
  <2>4. CASE b.covdb # d
    BY <1>3, <1>5, <2>2, <2>4
  <2>5. QED BY <2>3, <2>4
<1>9. ASSUME NEW m \in ToSet(jobs), m.target = "cov_merge", m.id \in DOMAIN status', status'[m.id] # "KILLED"
      PROVE  m.id \in DOMAIN cov' /\ Between(MergedRuns(m)', cov'[m.id], IF args'.runOnly THEN Old ELSE {})
  <2>1. m.id # j.id /\ m.id # d
    BY <1>9 DEF DatabasesFit, d
  <2>2. m.id \in DOMAIN status
    BY <1>4, <1>9, <2>1
  <2>3. m.id \in DOMAIN cov /\ Between(MergedRuns(m), cov[m.id], IF args.runOnly THEN Old ELSE {})
    BY <1>4, <1>9, <2>2 DEF DatabasesHeld
  <2>4. d \notin Databases(m)
    <3>1. j.id \notin ToSet(m.deps)
      BY <1>4, <2>2 DEF EndedInOrder
    <3>2. j \in Writers(d)
      BY DEF Writers, d
    <3>3. QED BY <1>9, <3>1, <3>2 DEF DatabasesFit
  <2>5. MergedRuns(m)' = MergedRuns(m)
    BY <1>4, <1>5, <2>4 DEF MergedRuns, Databases
  <2>6. QED BY <1>3, <1>4, <2>1, <2>3, <2>5
<1>10. QED BY <1>4, <1>7, <1>8, <1>9 DEF DatabasesHeld

LEMMA CoverageMerged ==
  ASSUME EndedInOrder, DatabasesFit, DatabasesHeld, args.cov,
         NEW j \in ToSet(jobs), NEW log, RunJob(j, log), j.target = "cov_merge", MayRun(j)
  PROVE  DatabasesHeld'
<1> DEFINE all == UNION {cov[d] : d \in Databases(j) \cap DOMAIN cov}
<1>1. cov' = Put(cov, j.id, all)
  BY PassedAfter DEF CovAfter
<1>2. /\ DOMAIN cov' = DOMAIN cov \cup {j.id} /\ cov'[j.id] = all
      /\ \A e \in DOMAIN cov : e # j.id => cov'[e] = cov[e]
  BY <1>1 DEF Put
<1>3. /\ UNCHANGED <<args, jobs>> /\ j.id \notin DOMAIN status /\ ToSet(j.deps) \subseteq DOMAIN status
      /\ DOMAIN status' = DOMAIN status \cup {j.id} /\ \A id \in DOMAIN status : status'[id] = status[id]
      /\ \A id : id # j.id => (Passed(id)' <=> Passed(id))
  BY PassedAfter
<1>4. \A e : PassedOn(e)' = PassedOn(e)
  BY PassedOnAfter DEF DatabasesFit
<1>5. \A l \in ToSet(jobs) : l.target \in {"build", "run"} => l.id # j.id /\ l.covdb # j.id
  BY DEF DatabasesFit
<1>6. ASSUME NEW d \in Databases(j) \cap DOMAIN cov
      PROVE  cov[d] \subseteq PassedOn(d) \cup (IF args.runOnly THEN Old ELSE {})
  <2>1. PICK r \in Writers(d) : r.id \in ToSet(j.deps)
    BY <1>6 DEF DatabasesFit
  <2>2. r \in ToSet(jobs) /\ r.target = "run" /\ r.covdb = d /\ r.id \in DOMAIN status
    BY <1>3, <2>1 DEF Writers
  <2>3. CASE args.runOnly
    BY <1>6, <2>2, <2>3 DEF DatabasesHeld
  <2>4. CASE ~args.runOnly
    <3>1. PICK b \in ToSet(jobs) : b.target = "build" /\ b.covdb = d /\ b.id \in ToSet(r.deps)
      BY <2>2, <2>4 DEF DatabasesFit
    <3>2. b.id \in DOMAIN status
      BY <2>2, <3>1 DEF EndedInOrder
    <3>3. QED BY <3>1, <3>2 DEF DatabasesHeld
  <2>5. QED BY <2>3, <2>4
<1>7. ASSUME NEW d \in Databases(j) PROVE PassedOn(d) \subseteq all
  <2>1. ASSUME NEW r \in Writers(d), Passed(r.id) PROVE r.id \in all
    <3>1. d \in DOMAIN cov /\ r.id \in cov[d]
      BY <2>1 DEF DatabasesHeld, Writers
    <3>2. QED BY <3>1
  <2> HIDE DEF all
  <2>2. QED BY <2>1 DEF PassedOn
<1>8. Between(MergedRuns(j), all, IF args.runOnly THEN Old ELSE {})
  <2>1. MergedRuns(j) \subseteq all
    <3> HIDE DEF all
    <3>1. QED BY <1>7 DEF MergedRuns
  <2>2. all \subseteq MergedRuns(j) \cup (IF args.runOnly THEN Old ELSE {})
    BY <1>6 DEF MergedRuns
  <2>3. QED BY <2>1, <2>2 DEF Between
<1> HIDE DEF all
<1>9. \A m \in ToSet(jobs) : MergedRuns(m)' = MergedRuns(m)
  BY <1>3, <1>4 DEF MergedRuns, Databases
<1>10. ASSUME NEW m \in ToSet(jobs), m.target = "cov_merge", m.id \in DOMAIN status', status'[m.id] # "KILLED"
       PROVE  m.id \in DOMAIN cov' /\ Between(MergedRuns(m)', cov'[m.id], IF args'.runOnly THEN Old ELSE {})
  <2>1. CASE m.id = j.id
    <3>1. m = j
      BY <2>1 DEF DatabasesFit
    <3>2. QED BY <1>2, <1>3, <1>8, <1>9, <3>1
  <2>2. CASE m.id # j.id
    <3>1. m.id \in DOMAIN cov /\ Between(MergedRuns(m), cov[m.id], IF args.runOnly THEN Old ELSE {})
      BY <1>3, <1>10, <2>2 DEF DatabasesHeld
    <3>2. QED BY <1>2, <1>3, <1>9, <2>2, <3>1
  <2>3. QED BY <2>1, <2>2
<1>11. ASSUME NEW r \in ToSet(jobs), r.target = "run"
       PROVE  /\ Passed(r.id)' => r.covdb \in DOMAIN cov' /\ r.id \in cov'[r.covdb]
              /\ r.covdb \in DOMAIN cov' => cov'[r.covdb] \subseteq PassedOn(r.covdb)' \cup Old
  BY <1>2, <1>3, <1>4, <1>5, <1>11 DEF DatabasesHeld
<1>12. ASSUME NEW b \in ToSet(jobs), b.target = "build", b.id \in DOMAIN status'
       PROVE  b.covdb \in DOMAIN cov' /\ cov'[b.covdb] \subseteq PassedOn(b.covdb)'
  BY <1>2, <1>3, <1>4, <1>5, <1>12 DEF DatabasesHeld
<1>13. QED BY <1>3, <1>10, <1>11, <1>12 DEF DatabasesHeld

(* The others, and those that do not pass, change no database.              *)
LEMMA DatabasesLeft ==
  ASSUME EndedInOrder, DatabasesFit, DatabasesHeld,
         NEW j \in ToSet(jobs), NEW log, RunJob(j, log), UNCHANGED cov, j.target # "build",
         ~(j.target = "run" /\ Passed(j.id)'), j.target = "cov_merge" => status'[j.id] = "KILLED"
  PROVE  DatabasesHeld'
<1>1. /\ UNCHANGED <<args, jobs>> /\ j.id \notin DOMAIN status
      /\ DOMAIN status' = DOMAIN status \cup {j.id} /\ \A id \in DOMAIN status : status'[id] = status[id]
      /\ \A id : id # j.id => (Passed(id)' <=> Passed(id))
  BY PassedAfter
<1>2. \A l \in ToSet(jobs) : l.id = j.id => l = j
  BY DEF DatabasesFit
<1>3. \A e : PassedOn(e)' = PassedOn(e)
  BY <1>2, PassedOnAfter
<1>4. ASSUME NEW r \in ToSet(jobs), r.target = "run"
      PROVE  /\ Passed(r.id)' => r.covdb \in DOMAIN cov' /\ r.id \in cov'[r.covdb]
             /\ r.covdb \in DOMAIN cov' => cov'[r.covdb] \subseteq PassedOn(r.covdb)' \cup Old
  BY <1>1, <1>2, <1>3, <1>4 DEF DatabasesHeld
<1>5. ASSUME NEW b \in ToSet(jobs), b.target = "build", b.id \in DOMAIN status'
      PROVE  b.covdb \in DOMAIN cov' /\ cov'[b.covdb] \subseteq PassedOn(b.covdb)'
  BY <1>1, <1>2, <1>3, <1>5 DEF DatabasesHeld
<1>6. \A m \in ToSet(jobs) : MergedRuns(m)' = MergedRuns(m)
  BY <1>1, <1>3 DEF MergedRuns, Databases
<1>7. ASSUME NEW m \in ToSet(jobs), m.target = "cov_merge", m.id \in DOMAIN status', status'[m.id] # "KILLED"
      PROVE  m.id \in DOMAIN cov' /\ Between(MergedRuns(m)', cov'[m.id], IF args'.runOnly THEN Old ELSE {})
  <2>1. m.id # j.id
    BY <1>2, <1>7
  <2>2. m.id \in DOMAIN cov /\ Between(MergedRuns(m), cov[m.id], IF args.runOnly THEN Old ELSE {})
    BY <1>1, <1>7, <2>1 DEF DatabasesHeld
  <2>3. QED BY <1>1, <1>6, <2>2
<1>8. QED BY <1>1, <1>4, <1>5, <1>7 DEF DatabasesHeld

LEMMA CoverageRuns ==
  ASSUME CoverageKnown, NEW j \in ToSet(jobs), NEW log, RunJob(j, log)
  PROVE  CoverageKnown'
<1>1. /\ UNCHANGED <<args, jobs>> /\ ToSet(j.deps) \subseteq DOMAIN status
      /\ DOMAIN status' = DOMAIN status \cup {j.id}
      /\ IF MayRun(j) THEN args.cov => cov' = CovAfter(j, status'[j.id])
         ELSE status'[j.id] = "KILLED" /\ UNCHANGED cov
  BY PassedAfter
<1>2. SUFFICES ASSUME args'.cov, DatabasesFit' PROVE EndedInOrder' /\ DatabasesHeld'
  BY DEF CoverageKnown
<1>3. args.cov /\ DatabasesFit /\ DatabasesHeld /\ EndedInOrder
  BY <1>1, <1>2, DatabasesStillFit DEF CoverageKnown
<1>4. EndedInOrder'
  <2>1. ASSUME NEW l \in ToSet(jobs), l.id \in DOMAIN status' PROVE ToSet(l.deps) \subseteq DOMAIN status'
    <3>1. CASE l.id \in DOMAIN status
      BY <1>1, <1>3, <3>1 DEF EndedInOrder
    <3>2. CASE l.id = j.id
      BY <1>1, <1>3, <3>2 DEF DatabasesFit
    <3>3. QED BY <1>1, <2>1, <3>1, <3>2
  <2>2. QED BY <1>1, <2>1 DEF EndedInOrder
<1>5. SUFFICES DatabasesHeld'
  BY <1>4
<1>6. CASE j.target = "build"
  BY <1>3, <1>6, BuildCleared
<1>7. CASE j.target = "run" /\ Passed(j.id)'
  BY <1>3, <1>7, RunCovered
<1>8. CASE j.target = "cov_merge" /\ MayRun(j)
  BY <1>3, <1>8, CoverageMerged
<1>9. CASE /\ j.target # "build" /\ ~(j.target = "run" /\ Passed(j.id)')
           /\ ~(j.target = "cov_merge" /\ MayRun(j))
  <2>1. status'[j.id] = "PASSED" <=> Passed(j.id)'
    BY <1>1 DEF Passed
  <2>2. UNCHANGED cov
    BY <1>1, <1>3, <1>9, <2>1 DEF CovAfter
  <2>3. QED BY <1>1, <1>3, <1>9, <2>2, DatabasesLeft
<1>10. QED BY <1>6, <1>7, <1>8, <1>9

(* Jobs with the same directory or database are of the same configuration.  *)
LEMMA JobsPlaced ==
  ASSUME CfgsKnown, ConfigsApart, \A c \in ToSet(cfgs) : c.stage = "deployed" => JobsGood(c) /\ CoverGood(c),
         jobs = Kept(Specs)
  PROVE  /\ \A j, l \in ToSet(jobs) : j.id = l.id \/ j.dir = l.dir => j = l
         /\ \A j \in ToSet(jobs) : \E c \in ToSet(cfgs) : c.stage = "deployed" /\ j \in ToSet(c.jobs)
         /\ \A c \in ToSet(cfgs) : c.stage = "deployed" => ToSet(c.jobs) \subseteq ToSet(jobs)
         /\ \A c, e \in ToSet(cfgs) : c.stage = "deployed" /\ e.stage = "deployed" /\ c.scratch = e.scratch => c = e
<1> DEFINE specs == Specs
<1>1. /\ Fits(specs, {}) /\ Unlike(specs)
      /\ \A j \in ToSet(specs) : \E i \in DOMAIN cfgs : JobsGood(cfgs[i]) /\ j \in ToSet(cfgs[i].jobs)
      /\ \A i \in DOMAIN cfgs : ToSet(cfgs[i].jobs) \subseteq ToSet(specs)
  <2>1. \A s : s = Specs => /\ Fits(s, {}) /\ Unlike(s)
                            /\ \A j \in ToSet(s) : \E i \in DOMAIN cfgs : JobsGood(cfgs[i]) /\ j \in ToSet(cfgs[i].jobs)
                            /\ \A i \in DOMAIN cfgs : ToSet(cfgs[i].jobs) \subseteq ToSet(s)
    BY JobsFlat
  <2>2. specs = Specs
    OBVIOUS
  <2> HIDE DEF specs
  <2>3. QED BY <2>1, <2>2
<1> HIDE DEF specs
<1>2. jobs = specs
  BY <1>1, KeptAll DEF Fits, specs
<1>3. ToSet(jobs) = {jobs[k] : k \in 1..Len(jobs)}
  BY <1>1, <1>2, SeqIs DEF Fits
<1>4. \A j, l \in ToSet(jobs) : j.id = l.id \/ j.dir = l.dir => j = l
  BY <1>1, <1>2, <1>3 DEF Unlike
<1>5. \A c : c \in ToSet(cfgs) <=> \E i \in DOMAIN cfgs : c = cfgs[i]
  BY DEF ToSet
<1>6. ASSUME NEW j \in ToSet(jobs)
      PROVE  \E c \in ToSet(cfgs) : c.stage = "deployed" /\ j \in ToSet(c.jobs)
  <2>1. PICK i \in DOMAIN cfgs : j \in ToSet(cfgs[i].jobs)
    BY <1>1, <1>2
  <2>2. cfgs[i].jobs # <<>>
    BY <2>1, NoneFits
  <2>3. cfgs[i].stage = "deployed"
    BY <2>2 DEF CfgsKnown, CfgKnown, AtStageKnown
  <2>4. QED BY <1>5, <2>1, <2>3
<1>7. \A c \in ToSet(cfgs) : ToSet(c.jobs) \subseteq ToSet(jobs)
  BY <1>1, <1>2, <1>5
<1>8. \A c, e \in ToSet(cfgs) : c.stage = "deployed" /\ e.stage = "deployed" /\ c.scratch = e.scratch => c = e
  BY <1>5 DEF ConfigsApart
<1>9. QED BY <1>4, <1>6, <1>7, <1>8

LEMMA DatabasesOf ==
  ASSUME NEW c, JobsGood(c), CoverGood(c), NEW m \in ToSet(c.jobs), m.target = "cov_merge"
  PROVE  Databases(m) = {r.covdb : r \in RunsIn(c)}
<1>1. m.dir[1] = c.scratch /\ ToSet(m.covdb) = {r.mode : r \in RunsIn(c)}
  BY DEF JobsGood, CoverGood
<1>2. \A r \in RunsIn(c) : r.covdb = <<c.scratch, r.mode>>
  BY DEF CoverGood, RunsIn
<1>3. ToSet(m.covdb) = {m.covdb[k] : k \in DOMAIN m.covdb}
  BY DEF ToSet
<1> DEFINE S == c.scratch
<1>4. Databases(m) = {<<S, x>> : x \in ToSet(m.covdb)}
  BY <1>1, <1>3 DEF Databases
<1>5. {r.covdb : r \in RunsIn(c)} = {<<S, x>> : x \in {r.mode : r \in RunsIn(c)}}
  BY <1>2
<1>6. QED BY <1>1, <1>4, <1>5

(* Who writes to the same database is of the same configuration.            *)
LEMMA DatabasesApart ==
  ASSUME CfgsKnown, ConfigsApart, \A c \in ToSet(cfgs) : c.stage = "deployed" => JobsGood(c) /\ CoverGood(c),
         jobs = Kept(Specs), NEW c \in ToSet(cfgs), c.stage = "deployed", NEW l \in ToSet(c.jobs),
         NEW j \in ToSet(jobs), {j.target, l.target} \subseteq {"build", "run"}, j.covdb = l.covdb
  PROVE  j \in ToSet(c.jobs) /\ j.mode = l.mode
<1>1. PICK e \in ToSet(cfgs) : e.stage = "deployed" /\ j \in ToSet(e.jobs)
  BY JobsPlaced
<1>2. j.covdb = <<e.scratch, j.mode>> /\ l.covdb = <<c.scratch, l.mode>>
  BY <1>1 DEF CoverGood
<1>3. e.scratch = c.scratch /\ j.mode = l.mode
  <2>1. \A s, t, m, n : <<s, m>> = <<t, n>> => s = t /\ m = n
    OBVIOUS
  <2>2. <<e.scratch, j.mode>> = <<c.scratch, l.mode>>
    BY <1>2
  <2>3. QED BY <2>1, <2>2
<1>4. e = c
  BY <1>1, <1>3, JobsPlaced
<1>5. QED BY <1>1, <1>3, <1>4

LEMMA DatabasesAreFit ==
  ASSUME CfgsKnown, ConfigsApart, \A c \in ToSet(cfgs) : c.stage = "deployed" => JobsGood(c) /\ CoverGood(c),
         jobs = Kept(Specs)
  PROVE  DatabasesFit
<1> DEFINE In(j, c) == c \in ToSet(cfgs) /\ c.stage = "deployed" /\ j \in ToSet(c.jobs)
<1>1. /\ \A j, l \in ToSet(jobs) : j.id = l.id \/ j.dir = l.dir => j = l
      /\ \A j \in ToSet(jobs) : \E c : In(j, c)
      /\ \A j, c : In(j, c) => j \in ToSet(jobs) /\ JobsGood(c) /\ CoverGood(c)
      /\ \A c, e \in ToSet(cfgs) : c.stage = "deployed" /\ e.stage = "deployed" /\ c.scratch = e.scratch => c = e
  BY JobsPlaced
<1>2. \A j, l \in ToSet(jobs) : \A c : {j.target, l.target} \subseteq {"build", "run"} /\ j.covdb = l.covdb /\ In(l, c)
                                 => In(j, c) /\ j.mode = l.mode
  BY DatabasesApart
<1>3. ASSUME NEW b \in ToSet(jobs), b.target = "build", NEW c, In(b, c)
      PROVE  b.all /\ b.deps = <<>> /\ b.dir = <<c.scratch, "build", b.mode>> /\ ~args.runOnly
  BY <1>1, <1>3 DEF CoverGood
<1>4. ASSUME NEW b \in ToSet(jobs), b.target = "build", NEW l \in ToSet(jobs), l.target = "build", l.covdb = b.covdb
      PROVE  l = b
  <2>1. PICK c : In(b, c)
    BY <1>1
  <2>2. In(l, c) /\ l.mode = b.mode
    BY <1>2, <1>4, <2>1
  <2>3. l.dir = b.dir
    BY <1>3, <1>4, <2>1, <2>2
  <2>4. QED BY <1>1, <2>3
<1>5. ASSUME NEW r \in ToSet(jobs), r.target = "run", ~args.runOnly
      PROVE  \E b \in ToSet(jobs) : b.target = "build" /\ b.covdb = r.covdb /\ b.id \in ToSet(r.deps)
  <2>1. PICK c : In(r, c)
    BY <1>1
  <2>2. JobsGood(c) /\ CoverGood(c)
    BY <1>1, <2>1
  <2>3. PICK b \in ToSet(c.jobs) : b.target = "build" /\ b.mode = r.mode /\ r.deps = <<b.id>>
    BY <1>5, <2>1, <2>2 DEF JobsGood
  <2>4. b \in ToSet(jobs) /\ b.covdb = r.covdb
    BY <1>1, <1>5, <2>1, <2>2, <2>3 DEF CoverGood
  <2>5. b.id \in ToSet(r.deps)
    BY <2>3, SeqOfOne
  <2>6. QED BY <2>3, <2>4, <2>5
<1>6. ASSUME NEW b \in ToSet(jobs), b.target = "build"
      PROVE  b.all /\ ToSet(b.deps) = {} /\ \A r \in Writers(b.covdb) : b.id \in ToSet(r.deps)
  <2>1. PICK c : In(b, c)
    BY <1>1
  <2>2. b.all /\ b.deps = <<>> /\ ~args.runOnly
    BY <1>3, <1>6, <2>1
  <2>3. ASSUME NEW r \in Writers(b.covdb) PROVE b.id \in ToSet(r.deps)
    <3>1. r \in ToSet(jobs) /\ r.target = "run" /\ r.covdb = b.covdb
      BY DEF Writers
    <3>2. PICK l \in ToSet(jobs) : l.target = "build" /\ l.covdb = r.covdb /\ l.id \in ToSet(r.deps)
      BY <1>5, <2>2, <3>1
    <3>3. l = b
      BY <1>4, <1>6, <3>1, <3>2
    <3>4. QED BY <3>2, <3>3
  <2>4. QED BY <2>2, <2>3, NoneFits
<1>7. ASSUME NEW m \in ToSet(jobs), m.target = "cov_merge"
      PROVE  /\ \A j \in ToSet(jobs) : j.target \in {"build", "run"} => j.covdb # m.id
             /\ \A d \in Databases(m) : Writers(d) # {} /\ \A r \in Writers(d) : r.id \in ToSet(m.deps)
  <2>1. PICK c : In(m, c)
    BY <1>1
  <2>2. JobsGood(c) /\ CoverGood(c)
    BY <1>1, <2>1
  <2>3. m.id[2] = "cov_merge" /\ {r.id : r \in RunsIn(c)} \subseteq ToSet(m.deps)
    BY <1>7, <2>1, <2>2 DEF CoverGood
  <2>4. ASSUME NEW j \in ToSet(jobs), j.target \in {"build", "run"} PROVE j.covdb # m.id
    <3>1. PICK e : In(j, e)
      BY <1>1
    <3>2. j.covdb = <<e.scratch, j.mode>> /\ j.mode \notin Covers
      BY <1>1, <2>4, <3>1 DEF CoverGood
    <3>3. QED BY <2>3, <3>2 DEF Covers
  <2>5. Databases(m) = {r.covdb : r \in RunsIn(c)}
    BY <1>7, <2>1, <2>2, DatabasesOf
  <2>6. ASSUME NEW d \in Databases(m) PROVE Writers(d) # {} /\ \A r \in Writers(d) : r.id \in ToSet(m.deps)
    <3>1. PICK l \in RunsIn(c) : l.covdb = d
      BY <2>5
    <3>2. In(l, c) /\ l.target = "run" /\ l \in ToSet(jobs)
      BY <1>1, <2>1 DEF RunsIn
    <3>3. l \in Writers(d)
      BY <3>1, <3>2 DEF Writers
    <3>4. ASSUME NEW r \in Writers(d) PROVE r.id \in ToSet(m.deps)
      <4>1. r \in ToSet(jobs) /\ r.target = "run" /\ r.covdb = l.covdb
        BY <3>1 DEF Writers
      <4>2. In(r, c)
        BY <1>2, <3>2, <4>1
      <4>3. QED BY <2>3, <4>1, <4>2 DEF RunsIn
    <3>5. QED BY <3>3, <3>4
  <2>7. QED BY <2>4, <2>6
<1>8. QED BY <1>1, <1>4, <1>5, <1>6, <1>7 DEF DatabasesFit

(* While the jobs run the databases are as said; before, they are those of  *)
(* earlier invocations.                                                    *)
Begun == pc = "run" \/ (pc = "done" /\ DOMAIN status # {})
CoverageInv ==
  /\ input \in Inputs
  /\ pc \notin {"run", "done"} => DOMAIN status = {} /\ cov = input.stale
  /\ Begun => CoverageKnown /\ jobs = Kept(Specs)

LEMMA CoverageStill ==
  ASSUME CoverageKnown, UNCHANGED <<args, jobs, status, cov>>
  PROVE  CoverageKnown'
<1>1. (DatabasesFit' <=> DatabasesFit) /\ \A d : Writers(d)' = Writers(d)
  BY DatabasesStillFit
<1>2. \A id : Passed(id)' <=> Passed(id)
  BY DEF Passed
<1>3. \A d : PassedOn(d)' = PassedOn(d)
  BY <1>1, <1>2 DEF PassedOn
<1>4. \A m : MergedRuns(m)' = MergedRuns(m)
  BY <1>3 DEF MergedRuns, Databases
<1>5. DatabasesHeld' <=> DatabasesHeld
  BY <1>2, <1>3, <1>4 DEF DatabasesHeld
<1>6. EndedInOrder' <=> EndedInOrder
  BY DEF EndedInOrder
<1>7. QED BY <1>1, <1>5, <1>6 DEF CoverageKnown

LEMMA CoverageStep ==
  ASSUME CoverageInv, [Next]_vars
  PROVE  CoverageInv'
<1>1. CASE ParseArgs \/ MakeCfg \/ Choose \/ CreateCoverage
           \/ \E i \in DOMAIN cfgs : CreateObjects(i) \/ CreateLists(i) \/ CreateDeploy(i)
  <2>1. pc \notin {"run", "done"} /\ pc' # "run" /\ UNCHANGED <<input, status, cov>>
    <3>1. CASE ParseArgs \/ MakeCfg
      BY <3>1 DEF ParseArgs, MakeCfg, Fail
    <3>2. CASE Choose \/ CreateCoverage
      BY <3>2 DEF Choose, CreateCoverage, Fail
    <3>3. CASE \E i \in DOMAIN cfgs : CreateObjects(i) \/ CreateLists(i) \/ CreateDeploy(i)
      <4>1. PICK i \in DOMAIN cfgs : CreateObjects(i) \/ CreateLists(i) \/ CreateDeploy(i)
        BY <3>3
      <4>2. pc \in {"objects", "lists"} /\ UNCHANGED <<input, status, cov>> /\ \E c : Advance(i, c)
        BY <4>1 DEF CreateObjects, CreateLists, CreateDeploy
      <4>3. QED BY <4>2 DEF Advance, SetAt, Fail
    <3>4. QED BY <1>1, <3>1, <3>2, <3>3
  <2>2. DOMAIN status' = {}
    BY <2>1 DEF CoverageInv
  <2>3. QED BY <2>1, <2>2 DEF CoverageInv, Begun
<1>2. CASE DeployObjects
  <2>1. /\ UNCHANGED <<input, cfgs, status, cov>> /\ pc = "lists" /\ pc' \in {"run", "done"}
        /\ pc' = "run" => jobs' = Kept(Specs)
    BY <1>2 DEF DeployObjects, Fail
  <2>2. input' \in Inputs /\ DOMAIN status' = {} /\ cov' = input'.stale
    BY <2>1 DEF CoverageInv
  <2>3. CoverageKnown'
    <3>1. \A d \in DOMAIN cov' : cov'[d] \subseteq Old
      BY <2>2, StaleAssumption DEF Old
    <3>2. \A id : ~Passed(id)'
      BY <2>2 DEF Passed
    <3>3. DatabasesHeld'
      BY <2>2, <3>1, <3>2 DEF DatabasesHeld
    <3>4. EndedInOrder'
      BY <2>2 DEF EndedInOrder
    <3>5. QED BY <3>3, <3>4 DEF CoverageKnown
  <2>4. Kept(Specs)' = Kept(Specs)
    BY <2>1 DEF Kept, Specs
  <2>5. QED BY <2>1, <2>2, <2>3, <2>4 DEF CoverageInv, Begun
<1>3. ASSUME NEW j \in ToSet(jobs), NEW log \in input.logs, RunJob(j, log) PROVE CoverageInv'
  <2>1. pc = "run" /\ UNCHANGED <<input, pc, cfgs, jobs>>
    BY <1>3 DEF RunJob, Waits
  <2>2. CoverageKnown'
    BY <1>3, <2>1, CoverageRuns DEF CoverageInv, Begun
  <2>3. Kept(Specs)' = Kept(Specs)
    BY <2>1 DEF Kept, Specs
  <2>4. QED BY <2>1, <2>2, <2>3 DEF CoverageInv, Begun
<1>4. CASE \/ GenResults \/ UNCHANGED vars
           \/ \E j \in ToSet(jobs), log \in input.logs : LoseJob(j, log)
  <2>1. /\ UNCHANGED <<input, args, cfgs, jobs, status, cov>>
        /\ UNCHANGED pc \/ (pc = "run" /\ pc' = "done")
    BY <1>4 DEF GenResults, LoseJob, Waits, Fail, vars
  <2>2. Kept(Specs)' = Kept(Specs)
    BY <2>1 DEF Kept, Specs
  <2>3. QED BY <2>1, <2>2, CoverageStill DEF CoverageInv, Begun
<1>5. QED BY <1>1, <1>2, <1>3, <1>4 DEF Next

(* Of the runs and databases of a configuration.                           *)
LEMMA MergedOf ==
  ASSUME CfgsKnown, ConfigsApart, \A c \in ToSet(cfgs) : c.stage = "deployed" => JobsGood(c) /\ CoverGood(c),
         jobs = Kept(Specs), NEW c \in ToSet(cfgs), c.stage = "deployed",
         NEW m \in ToSet(c.jobs), m.target = "cov_merge"
  PROVE  MergedRuns(m) = {r.id : r \in {x \in RunsIn(c) : Passed(x.id)}}
<1>1. Databases(m) = {r.covdb : r \in RunsIn(c)}
  BY DatabasesOf
<1>2. \A r \in RunsIn(c) : r \in ToSet(c.jobs) /\ r \in Writers(r.covdb)
  BY JobsPlaced DEF RunsIn, Writers
<1>3. \A l \in RunsIn(c) : Writers(l.covdb) \subseteq RunsIn(c)
  <2>1. ASSUME NEW l \in RunsIn(c), NEW x \in Writers(l.covdb) PROVE x \in RunsIn(c)
    <3>1. l \in ToSet(c.jobs) /\ x \in ToSet(jobs) /\ {x.target, l.target} \subseteq {"build", "run"} /\ x.covdb = l.covdb
      BY DEF RunsIn, Writers
    <3>2. x \in ToSet(c.jobs)
      BY <3>1, DatabasesApart
    <3>3. QED BY <3>2 DEF RunsIn, Writers
  <2>2. QED BY <2>1
<1>4. QED BY <1>1, <1>2, <1>3 DEF MergedRuns, PassedOn

LEMMA CoverageShown ==
  ASSUME CfgsKnown, ConfigsApart, CoverageInv,
         \A c \in Deployments : JobsGood(c) /\ CoverGood(c)
  PROVE  CoverageOfPassingRuns
<1>1. SUFFICES ASSUME NEW c \in Deployments, NEW m \in ToSet(c.jobs), m.target = "cov_merge"
               PROVE  LET passed == {j.id : j \in {x \in ToSet(RunsOf(c)) : Passed(x.id)}}
                      IN /\ ~args.gui => Head(m.covdb) = c.primary
                         /\ {j.mode : j \in ToSet(RunsOf(c))} = ToSet(m.covdb)
                         /\ m.id \in DOMAIN status /\ status[m.id] # "KILLED" =>
                              Between(passed, cov[m.id], IF args.runOnly THEN Old ELSE {})
  BY DEF CoverageOfPassingRuns, Passed, Old
<1>2. c \in ToSet(cfgs) /\ c.stage = "deployed" /\ JobsGood(c) /\ CoverGood(c)
  BY DEF Deployments
<1>3. ToSet(RunsOf(c)) = RunsIn(c)
  <2>1. IsSeq(c.jobs)
    BY <1>2 DEF JobsGood, Fits
  <2>2. QED BY <2>1, OnlyIs DEF RunsOf, RunsIn
<1>4. ToSet(m.covdb) = {r.mode : r \in RunsIn(c)} /\ (~args.gui => Head(m.covdb) = c.primary) /\ args.cov
  BY <1>1, <1>2 DEF CoverGood
<1>5. ASSUME m.id \in DOMAIN status, status[m.id] # "KILLED"
      PROVE  Between({r.id : r \in {x \in RunsIn(c) : Passed(x.id)}}, cov[m.id], IF args.runOnly THEN Old ELSE {})
  <2>1. CoverageKnown /\ jobs = Kept(Specs)
    BY <1>5 DEF CoverageInv, Begun
  <2>2. \A e \in ToSet(cfgs) : e.stage = "deployed" => JobsGood(e) /\ CoverGood(e)
    BY DEF Deployments
  <2>3. DatabasesFit /\ m \in ToSet(jobs)
    BY <1>2, <2>1, <2>2, DatabasesAreFit, JobsPlaced
  <2>4. DatabasesHeld
    BY <1>4, <2>1, <2>3 DEF CoverageKnown
  <2>5. Between(MergedRuns(m), cov[m.id], IF args.runOnly THEN Old ELSE {})
    BY <1>1, <1>5, <2>3, <2>4 DEF DatabasesHeld
  <2>6. QED BY <1>1, <1>2, <2>1, <2>2, <2>5, MergedOf
<1>6. QED BY <1>3, <1>4, <1>5

(* Coverage is that of the runs that passed, all of them, and of earlier    *)
(* invocations only with --run-only (deploy.py:520-529, 779-788, 881-929):  *)
(* the merge comes after all runs of its configuration, each run after the  *)
(* build that clears what it writes to, and no job of another configuration *)
(* writes there. The database of the primary build mode is first, though    *)
(* the mode may be replaced by an equivalent one.                           *)
NamesOrdered == \A c \in Deployments : InOrder(c)
THEOREM CoverageIsRight ==
  Spec => [](ItemsApart /\ BuildModesFree /\ ConfigsApart /\ NamesOrdered => CoverageOfPassingRuns)
<1>1. Init => RequestsKnown /\ JobsMade /\ CoverageInv
  <2>1. ToSet(<<>>) = {} /\ DOMAIN <<>> = {}
    BY DEF ToSet
  <2>2. QED BY <2>1 DEF Init, RequestsKnown, JobsMade, CoverageInv, Begun
<1>2. ASSUME CfgsKnown, JobsMade, CoverageInv, ItemsApart, BuildModesFree, ConfigsApart, NamesOrdered
      PROVE  CoverageOfPassingRuns
  <2>1. \A c \in Deployments : JobsGood(c) /\ CoverGood(c)
    BY <1>2 DEF JobsMade, Good, ItemsApart, BuildModesFree, NamesOrdered, Deployments, Covering
  <2>2. QED BY <1>2, <2>1, CoverageShown
<1>3. Spec => []CfgsKnown
  BY CfgsInitially, CfgsStep, PTL DEF Spec
<1>4. QED BY <1>1, <1>2, <1>3, RequestsStep, JobsMadeStep, CoverageStep, PTL DEF Spec
=============================================================================
