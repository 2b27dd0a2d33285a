-------------------------- MODULE LegacyAdapterProofs --------------------------
(***************************************************************************)
(* Theorems about LegacyAdapter, for every set of jobs and every limit of  *)
(* polls; each says which of the faults it assumes away.                   *)
(***************************************************************************)
EXTENDS LegacyAdapter, SequenceTheorems, FiniteSetTheorems, WellFoundedInduction, TLAPS

(***************************************************************************)
(* How often a job is in a sequence.                                       *)
(***************************************************************************)
Places(j, s) == {i \in DOMAIN s : s[i] = j}

LEMMA PlacesFinite ==
  ASSUME NEW S, NEW s \in Seq(S), NEW j
  PROVE  /\ Places(j, s) \in SUBSET (1 .. Len(s))
         /\ IsFiniteSet(Places(j, s))
         /\ Times(j, s) = Cardinality(Places(j, s))
         /\ Times(j, s) \in Nat
<1>1. Len(s) \in Nat /\ DOMAIN s = 1 .. Len(s)
  BY LenProperties
<1>2. Places(j, s) \in SUBSET (1 .. Len(s))
  BY <1>1 DEF Places
<1>3. IsFiniteSet(1 .. Len(s))
  BY <1>1, FS_Interval
<1>4. IsFiniteSet(Places(j, s))
  BY <1>2, <1>3, FS_Subset
<1>5. Times(j, s) = Cardinality(Places(j, s))
  BY DEF Times, Places
<1>6. QED BY <1>2, <1>4, <1>5, FS_CardinalityType

(* As many integers as their images under a shift.                         *)
LEMMA ShiftCount ==
  ASSUME NEW A \in SUBSET Int, NEW B \in SUBSET Int, NEW d \in Int, IsFiniteSet(A),
         \A i \in Int : i \in A <=> i + d \in B
  PROVE  IsFiniteSet(B) /\ Cardinality(B) = Cardinality(A)
<1> DEFINE f == [i \in A |-> i + d]
<1>1. f \in [A -> B]
  OBVIOUS
<1>2. \A x, y \in A : f[x] = f[y] => x = y
  OBVIOUS
<1>3. \A y \in B : \E x \in A : f[x] = y
  <2> SUFFICES ASSUME NEW y \in B PROVE \E x \in A : f[x] = y
    OBVIOUS
  <2>1. y \in Int /\ y - d \in Int /\ (y - d) + d = y
    OBVIOUS
  <2>2. y - d \in A
    BY <2>1
  <2>3. f[y - d] = y
    BY <2>1, <2>2
  <2> HIDE DEF f
  <2>4. QED BY <2>2, <2>3
<1>4. f \in Bijection(A, B)
  BY <1>1, <1>2, <1>3 DEF Bijection, Injection, Surjection, IsInjective
<1>5. ExistsBijection(A, B)
  BY <1>4 DEF ExistsBijection
<1>6. QED BY <1>5, FS_Bijection

LEMMA TimesConcat ==
  ASSUME NEW S, NEW s \in Seq(S), NEW t \in Seq(S), NEW j
  PROVE  Times(j, s \o t) = Times(j, s) + Times(j, t)
<1> DEFINE n == Len(s)
           m == Len(t)
           A == Places(j, s)
           B == Places(j, t)
           C == Places(j, s \o t)
           D == {i \in C : i > n}
<1>1. n \in Nat /\ m \in Nat /\ s \o t \in Seq(S) /\ Len(s \o t) = n + m
  BY LenProperties, ConcatProperties
<1>2. /\ \A i : i \in A <=> i \in 1 .. n /\ s[i] = j
      /\ \A i : i \in B <=> i \in 1 .. m /\ t[i] = j
      /\ \A i : i \in C <=> i \in 1 .. (n + m) /\ (s \o t)[i] = j
  BY <1>1, LenProperties DEF Places
<1>3. \A i \in 1 .. (n + m) : (s \o t)[i] = IF i <= n THEN s[i] ELSE t[i - n]
  BY ConcatProperties
<1>4. A \cup D = C /\ A \cap D = {}
  <2> HIDE DEF A, B, C, n, m
  <2>1. ASSUME NEW i \in 1 .. (n + m), i <= n PROVE i \in A <=> i \in C
    <3>1. i \in 1 .. n
      BY <1>1, <2>1
    <3>2. (s \o t)[i] = s[i]
      BY <1>3, <2>1
    <3>3. i \in A <=> s[i] = j
      BY <1>2, <3>1
    <3>4. i \in C <=> (s \o t)[i] = j
      BY <1>2
    <3>5. QED BY <3>2, <3>3, <3>4
  <2>2. ASSUME NEW i PROVE i \in A => i \in 1 .. (n + m) /\ i <= n
    BY <1>1, <1>2
  <2>3. ASSUME NEW i PROVE i \in C => i \in 1 .. (n + m)
    BY <1>2
  <2>4. QED BY <1>1, <2>1, <2>2, <2>3
<1>5. \A i \in Int : i \in B <=> i + n \in D
  <2> HIDE DEF A, B, C, n, m
  <2> SUFFICES ASSUME NEW i \in Int PROVE i \in B <=> i + n \in D
    OBVIOUS
  <2>1. CASE i \in 1 .. m
    <3>1. i + n \in 1 .. (n + m) /\ i + n > n /\ ~(i + n <= n) /\ (i + n) - n = i
      BY <1>1, <2>1
    <3>2. (s \o t)[i + n] = t[i]
      BY <1>3, <3>1
    <3>3. QED BY <1>2, <2>1, <3>1, <3>2
  <2>2. CASE i \notin 1 .. m
    <3>1. ~(i + n \in 1 .. (n + m) /\ i + n > n)
      BY <1>1, <2>2
    <3>2. QED BY <1>2, <2>2, <3>1
  <2>3. QED BY <2>1, <2>2
<1> HIDE DEF A, B, C, n, m
<1>6. B \in SUBSET Int /\ D \in SUBSET Int
  BY <1>2
<1>7. /\ Times(j, s) = Cardinality(A) /\ Times(j, t) = Cardinality(B)
      /\ Times(j, s \o t) = Cardinality(C)
      /\ IsFiniteSet(A) /\ IsFiniteSet(B)
      /\ Cardinality(A) \in Nat /\ Cardinality(B) \in Nat
  BY <1>1, PlacesFinite DEF A, B, C
<1> HIDE DEF D
<1>8. IsFiniteSet(D) /\ Cardinality(D) = Cardinality(B)
  <2>1. n \in Int
    BY <1>1
  <2>2. QED BY <1>5, <1>6, <1>7, <2>1, ShiftCount
<1>9. Cardinality(A \cup D) = Cardinality(A) + Cardinality(D) - Cardinality(A \cap D)
  BY <1>7, <1>8, FS_Union
<1>10. Cardinality(A \cap D) = 0
  BY <1>4, FS_EmptySet
<1>11. Cardinality(C) = Cardinality(A \cup D)
  BY <1>4
<1>12. QED BY <1>7, <1>8, <1>9, <1>10, <1>11

LEMMA TimesSmall ==
  ASSUME NEW j, NEW k
  PROVE  /\ Times(j, <<>>) = 0
         /\ Times(j, <<k>>) = IF j = k THEN 1 ELSE 0
<1>1. Places(j, <<>>) = {} /\ Times(j, <<>>) = Cardinality(Places(j, <<>>))
  BY DEF Places, Times
<1>2. Places(j, <<k>>) = (IF j = k THEN {1} ELSE {}) /\ Times(j, <<k>>) = Cardinality(Places(j, <<k>>))
  <2>1. DOMAIN <<k>> = {1} /\ <<k>>[1] = k
    OBVIOUS
  <2>2. QED BY <2>1 DEF Places, Times
<1>3. Cardinality({}) = 0 /\ Cardinality({1}) = 1
  BY FS_EmptySet, FS_Singleton
<1>4. QED BY <1>1, <1>2, <1>3

LEMMA TimesAppend ==
  ASSUME NEW S, NEW s \in Seq(S), NEW k \in S, NEW j
  PROVE  Times(j, Append(s, k)) = Times(j, s) + (IF j = k THEN 1 ELSE 0)
<1>1. Append(s, k) = s \o <<k>> /\ <<k>> \in Seq(S)
  BY AppendIsConcat
<1>2. Times(j, s \o <<k>>) = Times(j, s) + Times(j, <<k>>)
  BY <1>1, TimesConcat
<1>3. QED BY <1>1, <1>2, TimesSmall

LEMMA TimesTail ==
  ASSUME NEW S, NEW s \in Seq(S), s # <<>>, NEW j
  PROVE  Times(j, Tail(s)) = Times(j, s) - (IF j = Head(s) THEN 1 ELSE 0)
<1>1. Len(s) \in Nat \ {0}
  BY EmptySeq
<1>2. 1 \in 1 .. Len(s) /\ Len(s) \in 1 .. Len(s) /\ Head(s) = s[1]
  BY <1>1
<1>3. SubSeq(s, 1, Len(s)) = <<s[1]>> \o SubSeq(s, 2, Len(s))
  BY <1>2, SubSeqRecursiveFirst
<1>4. s = <<Head(s)>> \o Tail(s)
  BY <1>2, <1>3, SubSeqFull, TailIsSubSeq
<1>5. <<Head(s)>> \in Seq(S) /\ Tail(s) \in Seq(S)
  BY HeadTailProperties
<1>6. Times(j, s) = Times(j, <<Head(s)>>) + Times(j, Tail(s))
  BY <1>4, <1>5, TimesConcat
<1>7. Times(j, Tail(s)) \in Nat
  BY <1>5, PlacesFinite
<1>8. QED BY <1>6, <1>7, TimesSmall

(* A sequence cut in two.                                                  *)
LEMMA TimesSplit ==
  ASSUME NEW S, NEW s \in Seq(S), NEW n \in 0 .. Len(s), NEW j
  PROVE  /\ SubSeq(s, 1, n) \in Seq(S) /\ SubSeq(s, n + 1, Len(s)) \in Seq(S)
         /\ SubSeq(s, 1, n) \o SubSeq(s, n + 1, Len(s)) = s
         /\ Times(j, s) = Times(j, SubSeq(s, 1, n)) + Times(j, SubSeq(s, n + 1, Len(s)))
<1>1. Len(s) \in Nat /\ \A i \in 1 .. Len(s) : s[i] \in S
  BY LenProperties, ElementOfSeq
<1>2. SubSeq(s, 1, n) \in Seq(S)
  <2>1. \A i \in 1 .. n : s[i] \in S
    BY <1>1
  <2>2. 1 \in Int /\ n \in Int
    BY <1>1
  <2>3. QED BY <2>1, <2>2, SubSeqProperties
<1>3. SubSeq(s, n + 1, Len(s)) \in Seq(S)
  <2>1. \A i \in (n + 1) .. Len(s) : s[i] \in S
    BY <1>1
  <2>2. n + 1 \in Int /\ Len(s) \in Int
    BY <1>1
  <2>3. QED BY <2>1, <2>2, SubSeqProperties
<1>4. SubSeq(s, 1, n) \o SubSeq(s, n + 1, Len(s)) = s
  <2>1. 1 \in 1 .. Len(s) + 1 /\ n \in 1 - 1 .. Len(s) /\ Len(s) \in n .. Len(s)
    BY <1>1
  <2>2. SubSeq(s, 1, n) \o SubSeq(s, n + 1, Len(s)) = SubSeq(s, 1, Len(s))
    BY <2>1, ConcatAdjacentSubSeq
  <2>3. QED BY <2>2, SubSeqFull
<1>5. Times(j, s) = Times(j, SubSeq(s, 1, n)) + Times(j, SubSeq(s, n + 1, Len(s)))
  BY <1>2, <1>3, <1>4, TimesConcat
<1>6. QED BY <1>2, <1>3, <1>4, <1>5

(* What is at the place n is what two cuts around it leave out.            *)
LEMMA TimesCutOut ==
  ASSUME NEW S, NEW s \in Seq(S), NEW n \in 1 .. Len(s), NEW j
  PROVE  /\ SubSeq(s, 1, n - 1) \o SubSeq(s, n + 1, Len(s)) \in Seq(S)
         /\ Times(j, SubSeq(s, 1, n - 1) \o SubSeq(s, n + 1, Len(s)))
              = Times(j, s) - (IF j = s[n] THEN 1 ELSE 0)
<1> DEFINE a == SubSeq(s, 1, n - 1)
           b == SubSeq(s, n + 1, Len(s))
           c == SubSeq(s, n, Len(s))
<1>1. Len(s) \in Nat /\ n - 1 \in 0 .. Len(s) /\ (n - 1) + 1 = n /\ n \in 0 .. Len(s)
  BY LenProperties
<1>2. /\ a \in Seq(S) /\ c \in Seq(S)
      /\ Times(j, s) = Times(j, a) + Times(j, c)
  BY <1>1, TimesSplit
<1>3. b \in Seq(S)
  BY <1>1, TimesSplit
<1>4. s[n] \in S /\ <<s[n]>> \in Seq(S)
  BY <1>1, ElementOfSeq
<1>5. c = <<s[n]>> \o b
  <2>1. n \in 1 .. Len(s) /\ Len(s) \in n .. Len(s) /\ Len(s) \in 1 .. Len(s)
    BY <1>1
  <2>2. QED BY <2>1, SubSeqRecursiveFirst
<1>6. Times(j, c) = Times(j, <<s[n]>>) + Times(j, b)
  BY <1>3, <1>4, <1>5, TimesConcat
<1>7. a \o b \in Seq(S) /\ Times(j, a \o b) = Times(j, a) + Times(j, b)
  BY <1>2, <1>3, TimesConcat, ConcatProperties
<1>8. Times(j, a) \in Nat /\ Times(j, b) \in Nat
  BY <1>2, <1>3, PlacesFinite
<1> HIDE DEF a, b, c
<1>9. Times(j, a \o b) = Times(j, s) - (IF j = s[n] THEN 1 ELSE 0)
  BY <1>2, <1>6, <1>7, <1>8, TimesSmall
<1>10. QED BY <1>7, <1>9 DEF a, b

LEMMA LeastPlace ==
  ASSUME NEW I \in SUBSET Nat, I # {}
  PROVE  Min(I) \in I
<1> DEFINE R == OpToRel(<, Nat)
<1>1. \A x, y \in Nat : x < y => <<x, y>> \in R
  BY DEF OpToRel
<1>2. IsWellFoundedOn(R, Nat)
  BY NatLessThanWellFounded
<1> HIDE DEF R
<1>3. PICK i \in I : \A k \in I : ~(<<k, i>> \in R)
  BY <1>2, WFMin
<1>4. ASSUME NEW k \in I PROVE i <= k
  <2>1. k \in Nat /\ i \in Nat
    OBVIOUS
  <2>2. ~(<<k, i>> \in R)
    BY <1>3
  <2>3. ~(k < i)
    BY <1>1, <2>1, <2>2
  <2>4. QED BY <2>1, <2>3
<1>5. QED BY <1>4 DEF Min

(* RemoveFirst() takes one out, if there is one.                           *)
LEMMA TimesRemove ==
  ASSUME NEW S, NEW s \in Seq(S), NEW k, NEW j
  PROVE  /\ RemoveFirst(s, k) \in Seq(S)
         /\ Times(j, RemoveFirst(s, k))
              = Times(j, s) - (IF j = k /\ Times(j, s) > 0 THEN 1 ELSE 0)
<1>1. /\ Len(s) \in Nat /\ DOMAIN s = 1 .. Len(s)
      /\ Times(j, s) \in Nat /\ IsFiniteSet(Places(j, s))
      /\ Times(j, s) = Cardinality(Places(j, s))
  BY LenProperties, PlacesFinite
<1>2. CASE \E i \in 1 .. Len(s) : s[i] = k
  <2> DEFINE I == {i \in 1 .. Len(s) : s[i] = k}
  <2>1. RemoveFirst(s, k) = RemoveAt(s, SelectInSeq(s, LAMBDA v : v = k))
    BY <1>2 DEF RemoveFirst
  <2>2. SelectInSeq(s, LAMBDA v : v = k) = Min(I)
    BY <1>2 DEF SelectInSeq
  <2>3. PICK n \in I : RemoveFirst(s, k) = SubSeq(s, 1, n - 1) \o SubSeq(s, n + 1, Len(s))
    <3>1. Min(I) \in I
      <4>1. I \in SUBSET Nat /\ I # {}
        BY <1>1, <1>2
      <4> HIDE DEF I
      <4>2. QED BY <4>1, LeastPlace
    <3>2. QED BY <2>1, <2>2, <3>1 DEF RemoveAt
  <2>4. n \in 1 .. Len(s) /\ s[n] = k
    BY <2>3
  <2>5. /\ RemoveFirst(s, k) \in Seq(S)
        /\ Times(j, RemoveFirst(s, k)) = Times(j, s) - (IF j = k THEN 1 ELSE 0)
    BY <2>3, <2>4, TimesCutOut
  <2>6. j = k => Times(j, s) > 0
    <3>1. j = k => n \in Places(j, s)
      BY <1>1, <2>4 DEF Places
    <3>2. j = k => Cardinality(Places(j, s)) # 0
      BY <1>1, <3>1, FS_EmptySet
    <3>3. QED BY <1>1, <3>2
  <2>7. QED BY <2>5, <2>6
<1>3. CASE ~ \E i \in 1 .. Len(s) : s[i] = k
  <2>1. RemoveFirst(s, k) = s
    BY <1>3 DEF RemoveFirst
  <2>2. j = k => Places(j, s) = {}
    BY <1>1, <1>3 DEF Places
  <2>3. j = k => Times(j, s) = 0
    BY <1>1, <2>2, FS_EmptySet
  <2>4. QED BY <1>1, <2>1, <2>3
<1>4. QED BY <1>2, <1>3

(***************************************************************************)
(* The inductive invariant.                                                *)
(***************************************************************************)
Results == {"PASSED", "FAILED", "KILLED"}

TypeOK ==
  /\ sched \in [Jobs -> {"ready", "asked", "running", "done"}]
  /\ process \in [Jobs -> {"none", "running", "exited"}]
  /\ pollQueue \in Seq(Jobs) /\ polling \in Seq(Jobs)
  /\ todo \subseteq Jobs /\ answer \subseteq Jobs
  /\ found \in [Jobs -> {"none"} \cup Results]
  /\ turn \in {"loop", "submit", "poll", "kill"}
  /\ reported \in [Jobs -> Seq(Results)]

(* What a call works on is there only while it runs.                       *)
OneAtATime ==
  /\ turn = "loop" => found = NoEvents
  /\ turn # "poll" => polling = <<>>
  /\ turn # "submit" => answer = {}
  /\ turn \in {"loop", "poll"} => todo = {}
  /\ turn = "kill" => Shutdowns

(* The handles of j that the poller has or will take.                      *)
Watches(j) == Times(j, pollQueue) + Times(j, polling)

(* The scheduler has not been given a handle for j.                        *)
Outside(j) == sched[j] = "ready" \/ (sched[j] = "asked" /\ j \notin answer)

JobInv(j) ==
  /\ turn # "submit" => sched[j] # "asked"
  /\ j \in todo => sched[j] = (IF turn = "submit" THEN "asked" ELSE "running") /\ j \notin answer
  /\ j \in answer => sched[j] = "asked"
  /\ Outside(j) => Watches(j) = 0 /\ process[j] = "none" /\ reported[j] = <<>> /\ found[j] = "none"
  /\ Watches(j) <= 1
  /\ Watches(j) = 1 /\ process[j] # "none" => reported[j] = <<>> /\ found[j] = "none" /\ Accepted(j)
  /\ found[j] # "none" => Accepted(j)
  /\ turn = "kill" /\ found[j] # "none" => process[j] = "none"

IInv == TypeOK /\ OneAtATime /\ \A j \in Jobs : JobInv(j)

LEMMA InvariantInit == Init => IInv
<1> SUFFICES ASSUME Init PROVE IInv
  OBVIOUS
<1>1. <<>> \in Seq(Jobs) /\ <<>> \in Seq(Results)
  OBVIOUS
<1>2. TypeOK /\ OneAtATime
  BY <1>1 DEF Init, TypeOK, OneAtATime, NoEvents, Results
<1>3. ASSUME NEW j \in Jobs PROVE JobInv(j)
  <2>1. Watches(j) = 0
    <3>1. pollQueue = <<>> /\ polling = <<>> /\ Times(j, <<>>) = 0
      BY TimesSmall DEF Init
    <3>2. Watches(j) = Times(j, <<>>) + Times(j, <<>>)
      BY <3>1 DEF Watches
    <3>3. QED BY <3>1, <3>2
  <2>2. QED BY <2>1 DEF Init, JobInv, Outside, Accepted, NoEvents
<1>4. QED BY <1>2, <1>3 DEF IInv

LEMMA WatchesNat ==
  ASSUME TypeOK, NEW k
  PROVE  /\ Times(k, pollQueue) \in Nat /\ Times(k, polling) \in Nat /\ Watches(k) \in Nat
BY PlacesFinite DEF TypeOK, Watches

(***************************************************************************)
(* What the steps do to the handles.                                       *)
(***************************************************************************)
LEMMA QueuedMore ==
  ASSUME TypeOK, NEW j \in Jobs, NEW k \in Jobs, pollQueue' = Append(pollQueue, j)
  PROVE  /\ pollQueue' \in Seq(Jobs)
         /\ Times(k, pollQueue') = Times(k, pollQueue) + (IF k = j THEN 1 ELSE 0)
<1>1. pollQueue \in Seq(Jobs)
  BY DEF TypeOK
<1>2. QED BY <1>1, TimesAppend, AppendProperties

LEMMA RoundTakes ==
  ASSUME IInv, StartRound, NEW k \in Jobs
  PROVE  /\ pollQueue' \in Seq(Jobs) /\ polling' \in Seq(Jobs)
         /\ Watches(k)' = Watches(k)
<1>1. pollQueue \in Seq(Jobs) /\ Len(pollQueue) \in Nat /\ polling = <<>>
  BY LenProperties DEF IInv, TypeOK, OneAtATime, StartRound
<1>2. RoundLength \in 0 .. Len(pollQueue)
  BY <1>1, AdapterAssumption DEF RoundLength
<1>3. /\ pollQueue' \in Seq(Jobs) /\ polling' \in Seq(Jobs)
      /\ Times(k, pollQueue) = Times(k, polling') + Times(k, pollQueue')
  BY <1>1, <1>2, TimesSplit DEF StartRound
<1>4. Times(k, polling) = 0
  BY <1>1, TimesSmall
<1>5. Times(k, polling') \in Nat /\ Times(k, pollQueue') \in Nat
  BY <1>3, PlacesFinite
<1>6. QED BY <1>3, <1>4, <1>5 DEF Watches

(* The launcher that is polled is the head of the round.                   *)
LEMMA PolledTakes ==
  ASSUME IInv, NEW j \in Jobs, NEW k \in Jobs, Polled(j),
         UNCHANGED pollQueue \/ pollQueue' = Append(pollQueue, j)
  PROVE  /\ polling' \in Seq(Jobs) /\ pollQueue' \in Seq(Jobs)
         /\ Watches(j) = 1
         /\ Watches(k)' = IF UNCHANGED pollQueue /\ k = j THEN 0 ELSE Watches(k)
<1>1. /\ TypeOK /\ polling \in Seq(Jobs) /\ pollQueue \in Seq(Jobs) /\ polling # <<>> /\ j = Head(polling)
      /\ polling' = Tail(polling)
  BY DEF IInv, TypeOK, Polled
<1>2. polling' \in Seq(Jobs)
  BY <1>1, HeadTailProperties
<1>3. \A i \in Jobs : Times(i, polling') = Times(i, polling) - (IF i = j THEN 1 ELSE 0)
  BY <1>1, TimesTail
<1>4. \A i \in Jobs : /\ Times(i, polling') \in Nat /\ Times(i, polling) \in Nat
                      /\ Times(i, pollQueue) \in Nat
  BY <1>1, <1>2, PlacesFinite
<1>5. Watches(j) \in Nat /\ Watches(j) <= 1 /\ Watches(k) \in Nat
  BY <1>1, WatchesNat DEF IInv, JobInv
<1>6. Watches(j) = 1 /\ Times(j, pollQueue) = 0 /\ Times(j, polling) = 1
  <2>1. Times(j, polling') = Times(j, polling) - 1
    BY <1>3
  <2>2. QED BY <1>4, <1>5, <2>1 DEF Watches
<1>7. /\ pollQueue' \in Seq(Jobs)
      /\ Times(k, pollQueue') = Times(k, pollQueue)
                                + (IF k = j /\ ~UNCHANGED pollQueue THEN 1 ELSE 0)
  <2>1. CASE UNCHANGED pollQueue
    BY <1>1, <1>4, <2>1
  <2>2. CASE pollQueue' = Append(pollQueue, j)
    <3>1. Times(k, pollQueue') = Times(k, pollQueue) + (IF k = j THEN 1 ELSE 0)
      BY <1>1, <2>2, QueuedMore
    <3>2. pollQueue' # pollQueue
      BY <1>1, <2>2, AppendProperties, LenProperties
    <3>3. QED BY <1>1, <2>2, <3>1, <3>2, QueuedMore
  <2>3. QED BY <2>1, <2>2
<1>8. Watches(k)' = Times(k, pollQueue') + Times(k, polling')
  BY DEF Watches
<1>9. Watches(k) = Times(k, pollQueue) + Times(k, polling)
  BY DEF Watches
<1>10. Times(k, polling') = Times(k, polling) - (IF k = j THEN 1 ELSE 0)
  BY <1>3
<1>11. Watches(k)' = IF UNCHANGED pollQueue /\ k = j THEN 0 ELSE Watches(k)
  BY <1>4, <1>6, <1>7, <1>8, <1>9, <1>10
<1>12. QED BY <1>2, <1>6, <1>7, <1>11

LEMMA KillTakes ==
  ASSUME IInv, NEW j \in Jobs, NEW k \in Jobs, Kill(j)
  PROVE  /\ pollQueue' \in Seq(Jobs)
         /\ Watches(k)' = IF k = j THEN 0 ELSE Watches(k)
<1>1. TypeOK /\ pollQueue \in Seq(Jobs) /\ polling = <<>> /\ polling' = polling
  BY DEF IInv, TypeOK, OneAtATime, Kill
<1>2. /\ pollQueue' \in Seq(Jobs)
      /\ Times(k, pollQueue') = Times(k, pollQueue)
                                - (IF k = j /\ Times(k, pollQueue) > 0 THEN 1 ELSE 0)
  BY <1>1, TimesRemove DEF Kill
<1>3. Times(k, polling) = 0 /\ Times(k, polling') = 0
  BY <1>1, TimesSmall
<1>4. Times(k, pollQueue) \in Nat /\ Watches(k) <= 1
  BY <1>1, WatchesNat DEF IInv, JobInv
<1>5. QED BY <1>2, <1>3, <1>4 DEF Watches

(* The poller that dies loses the rest of its round.                       *)
LEMMA DyingTakes ==
  ASSUME TypeOK, NEW k \in Jobs, PollerDies, UNCHANGED pollQueue
  PROVE  Watches(k)' = Times(k, pollQueue) /\ Watches(k)' <= Watches(k)
<1>1. polling' = <<>>
  BY DEF PollerDies
<1>2. Watches(k)' = Times(k, pollQueue) + 0
  BY <1>1, TimesSmall DEF Watches
<1>3. QED BY <1>2, WatchesNat DEF Watches

(***************************************************************************)
(* What a step does to one job.                                            *)
(***************************************************************************)
Undisturbed(k) ==
  /\ sched'[k] = sched[k] /\ process'[k] = process[k]
  /\ found'[k] = found[k] /\ reported'[k] = reported[k]
  /\ k \in todo' <=> k \in todo
  /\ k \in answer' <=> k \in answer
  /\ turn' = turn
  /\ Watches(k)' = Watches(k)

LEMMA UndisturbedKeeps ==
  ASSUME NEW k \in Jobs, JobInv(k), Undisturbed(k)
  PROVE  JobInv(k)'
<1>1. (Outside(k)' <=> Outside(k)) /\ (Accepted(k)' <=> Accepted(k))
  BY DEF Undisturbed, Outside, Accepted
<1>2. QED BY <1>1 DEF Undisturbed, JobInv

(* submit_many().                                                          *)
LEMMA LaunchKeeps ==
  ASSUME IInv, NEW j \in Jobs, NEW k \in Jobs, Launch(j) \/ LaunchFails(j) \/ LaunchBusy(j)
  PROVE  TypeOK' /\ OneAtATime' /\ JobInv(k)'
<1>1. TypeOK /\ OneAtATime /\ JobInv(j) /\ JobInv(k)
  BY DEF IInv
<1>2. /\ turn = "submit" /\ turn' = "submit" /\ j \in todo /\ todo' = todo \ {j}
      /\ UNCHANGED <<sched, polling, reported>>
      /\ \/ answer' = answer /\ pollQueue' = pollQueue /\ process' = process /\ found' = found
         \/ /\ answer' = answer \cup {j} /\ pollQueue' = Append(pollQueue, j)
            /\ \/ process' = [process EXCEPT ![j] = "running"] /\ found' = found
               \/ process' = process /\ found' = [found EXCEPT ![j] = "KILLED"]
  BY DEF Launch, LaunchFails, LaunchBusy, HandOut, Find
<1>3. Outside(j) /\ sched[j] = "asked" /\ j \notin answer
  BY <1>1, <1>2 DEF JobInv, Outside
<1>4. Watches(j) = 0 /\ process[j] = "none" /\ reported[j] = <<>> /\ found[j] = "none"
  BY <1>1, <1>3 DEF JobInv
<1>5. /\ pollQueue' \in Seq(Jobs)
      /\ \A i \in Jobs : Watches(i)' = Watches(i) + (IF i = j /\ j \in answer' THEN 1 ELSE 0)
  <2>1. CASE pollQueue' = pollQueue /\ answer' = answer
    BY <1>1, <1>2, <1>3, <2>1, WatchesNat DEF TypeOK, Watches
  <2>2. CASE pollQueue' = Append(pollQueue, j) /\ answer' = answer \cup {j}
    <3>1. ASSUME NEW i \in Jobs
          PROVE  Watches(i)' = Watches(i) + (IF i = j THEN 1 ELSE 0)
      <4>1. Times(i, pollQueue') = Times(i, pollQueue) + (IF i = j THEN 1 ELSE 0)
        BY <1>1, <2>2, QueuedMore
      <4>2. polling' = polling
        BY <1>2
      <4>3. Watches(i)' = Times(i, pollQueue') + Times(i, polling)
        BY <4>2 DEF Watches
      <4>4. QED BY <1>1, <4>1, <4>3, WatchesNat DEF Watches
    <3>2. QED BY <1>1, <2>2, <3>1, QueuedMore
  <2>3. QED BY <1>2, <2>1, <2>2
<1>6. TypeOK' /\ OneAtATime'
  BY <1>1, <1>2, <1>5 DEF TypeOK, OneAtATime, Results
<1>7. CASE k # j
  <2>1. Watches(k)' = Watches(k)
    BY <1>1, <1>5, <1>7, WatchesNat
  <2>2. Undisturbed(k)
    BY <1>1, <1>2, <1>7, <2>1 DEF Undisturbed, TypeOK
  <2>3. QED BY <1>1, <1>6, <2>2, UndisturbedKeeps
<1>8. CASE k = j
  <2>1. Watches(j)' = IF j \in answer' THEN 1 ELSE 0
    BY <1>4, <1>5
  <2>2. /\ sched'[j] = "asked" /\ reported'[j] = <<>> /\ j \notin todo'
        /\ \/ j \notin answer' /\ process'[j] = "none" /\ found'[j] = "none"
           \/ j \in answer' /\ process'[j] = "running" /\ found'[j] = "none"
           \/ j \in answer' /\ process'[j] = "none" /\ found'[j] = "KILLED"
    BY <1>1, <1>2, <1>3, <1>4 DEF TypeOK
  <2>3. JobInv(j)'
    BY <1>2, <2>1, <2>2 DEF JobInv, Outside, Accepted
  <2>4. QED BY <1>6, <1>8, <2>3
<1>9. QED BY <1>7, <1>8

LEMMA SubmitKeeps ==
  ASSUME IInv, NEW k \in Jobs, StartSubmit
  PROVE  TypeOK' /\ OneAtATime' /\ JobInv(k)'
<1>1. TypeOK /\ OneAtATime /\ JobInv(k)
  BY DEF IInv
<1>2. PICK S \in SUBSET {j \in Jobs : sched[j] = "ready"} :
        /\ todo' = S
        /\ sched' = [j \in Jobs |-> IF j \in S THEN "asked" ELSE sched[j]]
  BY DEF StartSubmit
<1>3. /\ turn = "loop" /\ turn' = "submit" /\ answer = {}
      /\ UNCHANGED <<process, pollQueue, polling, answer, found, reported>>
  BY <1>1 DEF StartSubmit, OneAtATime
<1>4. TypeOK' /\ OneAtATime'
  BY <1>1, <1>2, <1>3 DEF TypeOK, OneAtATime
<1>5. Watches(k)' = Watches(k)
  BY <1>3 DEF Watches
<1>6. /\ k \in S => Outside(k) /\ sched'[k] = "asked"
      /\ k \notin S => sched'[k] = sched[k]
  BY <1>2 DEF Outside
<1>7. CASE k \in S
  <2>1. Watches(k)' = 0 /\ process'[k] = "none" /\ reported'[k] = <<>> /\ found'[k] = "none"
    BY <1>1, <1>3, <1>5, <1>6, <1>7 DEF JobInv
  <2>2. JobInv(k)'
    BY <1>2, <1>3, <1>6, <1>7, <2>1 DEF JobInv
  <2>3. QED BY <1>4, <2>2
<1>8. CASE k \notin S
  <2>1. (Outside(k)' <=> Outside(k)) /\ (Accepted(k)' <=> Accepted(k))
    BY <1>3, <1>6, <1>8 DEF Outside, Accepted
  <2>2. JobInv(k)'
    BY <1>1, <1>2, <1>3, <1>5, <1>6, <1>8, <2>1 DEF JobInv
  <2>3. QED BY <1>4, <2>2
<1>9. QED BY <1>7, <1>8

(* The completions that are emitted.                                       *)
LEMMA EmitKeeps ==
  ASSUME TypeOK, Emit
  PROVE  /\ reported' \in [Jobs -> Seq(Results)] /\ found' = NoEvents
         /\ \A k \in Jobs : found'[k] = "none"
         /\ \A k \in Jobs : found[k] = "none" => reported'[k] = reported[k]
<1>1. ASSUME NEW k \in Jobs PROVE Append(reported[k], found[k]) \in Seq(Results) \/ found[k] = "none"
  <2>1. reported[k] \in Seq(Results) /\ found[k] \in {"none"} \cup Results
    BY DEF TypeOK
  <2>2. QED BY <2>1, AppendProperties
<1>2. \A k \in Jobs : reported[k] \in Seq(Results)
  BY DEF TypeOK
<1>3. QED BY <1>1, <1>2 DEF Emit, NoEvents

LEMMA ReturnKeeps ==
  ASSUME IInv, NEW k \in Jobs, SubmitReturns
  PROVE  TypeOK' /\ OneAtATime' /\ JobInv(k)'
<1>1. TypeOK /\ OneAtATime /\ JobInv(k)
  BY DEF IInv
<1>2. /\ turn = "submit" /\ turn' = "loop" /\ todo = {} /\ todo' = {} /\ answer' = {}
      /\ UNCHANGED <<process, pollQueue, polling>>
      /\ sched' = [j \in Jobs |-> IF sched[j] # "asked" THEN sched[j]
                                  ELSE IF j \in answer THEN "running" ELSE "ready"]
  BY DEF SubmitReturns
<1>3. /\ reported' \in [Jobs -> Seq(Results)] /\ found' = NoEvents /\ found'[k] = "none"
      /\ found[k] = "none" => reported'[k] = reported[k]
  BY <1>1, EmitKeeps DEF SubmitReturns
<1>4. TypeOK' /\ OneAtATime'
  BY <1>1, <1>2, <1>3 DEF TypeOK, OneAtATime, NoEvents
<1>5. /\ Watches(k)' = Watches(k)
      /\ sched'[k] # "asked"
      /\ Outside(k)' <=> Outside(k)
      /\ Accepted(k)' <=> Accepted(k)
  BY <1>1, <1>2 DEF Watches, Outside, Accepted, JobInv, TypeOK
<1>6. JobInv(k)'
  BY <1>1, <1>2, <1>3, <1>5 DEF JobInv
<1>7. QED BY <1>4, <1>6

(* A round of the poller.                                                  *)
LEMMA RoundKeeps ==
  ASSUME IInv, NEW k \in Jobs, StartRound
  PROVE  TypeOK' /\ OneAtATime' /\ JobInv(k)'
<1>1. TypeOK /\ OneAtATime /\ JobInv(k)
  BY DEF IInv
<1>2. pollQueue' \in Seq(Jobs) /\ polling' \in Seq(Jobs) /\ Watches(k)' = Watches(k)
  BY RoundTakes
<1>3. /\ turn = "loop" /\ turn' = "poll"
      /\ UNCHANGED <<sched, process, todo, answer, found, reported>>
  BY DEF StartRound, batchVars
<1>4. TypeOK' /\ OneAtATime'
  BY <1>1, <1>2, <1>3 DEF TypeOK, OneAtATime
<1>5. (Outside(k)' <=> Outside(k)) /\ (Accepted(k)' <=> Accepted(k))
  BY <1>3 DEF Outside, Accepted
<1>6. JobInv(k)'
  BY <1>1, <1>2, <1>3, <1>5 DEF JobInv
<1>7. QED BY <1>4, <1>6

LEMMA PollKeeps ==
  ASSUME IInv, NEW j \in Jobs, NEW k \in Jobs,
         PollRunning(j) \/ PollExited(j) \/ PollTimesOut(j) \/ PollFails(j)
  PROVE  TypeOK' /\ OneAtATime' /\ JobInv(k)'
<1>1. TypeOK /\ OneAtATime /\ JobInv(j) /\ JobInv(k)
  BY DEF IInv
<1>2. /\ Polled(j)
      /\ \/ pollQueue' = Append(pollQueue, j) /\ process' = process /\ found' = found
         \/ /\ UNCHANGED pollQueue
            /\ \E s \in Results : found' = [found EXCEPT ![j] = s]
            /\ process' = [process EXCEPT ![j] = "none"] \/ process' = process
  BY DEF PollRunning, PollExited, PollTimesOut, PollFails, Find, Returned, Recorded, Results
<1>3. /\ turn = "poll" /\ turn' = "poll" /\ process[j] # "none"
      /\ UNCHANGED <<sched, todo, answer, reported>>
  BY <1>2 DEF Polled
<1>4. UNCHANGED pollQueue \/ pollQueue' = Append(pollQueue, j)
  BY <1>2
<1>5. /\ polling' \in Seq(Jobs) /\ pollQueue' \in Seq(Jobs) /\ Watches(j) = 1
      /\ \A i \in Jobs : Watches(i)' = IF UNCHANGED pollQueue /\ i = j THEN 0 ELSE Watches(i)
  BY <1>2, <1>4, PolledTakes
<1>6. pollQueue' = Append(pollQueue, j) => ~UNCHANGED pollQueue
  BY <1>1, AppendProperties, LenProperties DEF TypeOK
<1>7. TypeOK'
  BY <1>1, <1>2, <1>3, <1>5 DEF TypeOK
<1>8. OneAtATime'
  BY <1>1, <1>3 DEF OneAtATime
<1>9. CASE k # j \/ (found' = found /\ process' = process /\ ~UNCHANGED pollQueue)
  <2>1. Watches(k)' = Watches(k)
    BY <1>5, <1>9
  <2>2. process'[k] = process[k] /\ found'[k] = found[k]
    BY <1>1, <1>2, <1>9 DEF TypeOK
  <2>3. Undisturbed(k)
    BY <1>3, <2>1, <2>2 DEF Undisturbed
  <2>4. QED BY <1>1, <1>7, <1>8, <2>3, UndisturbedKeeps
<1>10. CASE k = j /\ UNCHANGED pollQueue
  <2>1. Watches(j)' = 0
    BY <1>5, <1>10
  <2>2. Accepted(j) /\ ~Outside(j)
    BY <1>1, <1>3, <1>5 DEF JobInv
  <2>3. Accepted(j)' /\ ~Outside(j)'
    BY <1>3, <2>2 DEF Accepted, Outside
  <2>4. JobInv(j)'
    BY <1>1, <1>3, <2>1, <2>3 DEF JobInv
  <2>5. QED BY <1>7, <1>8, <1>10, <2>4
<1>11. QED BY <1>2, <1>6, <1>9, <1>10

LEMMA EndRoundKeeps ==
  ASSUME IInv, NEW k \in Jobs, PollAborts \/ EndRound \/ EmitAborts
  PROVE  TypeOK' /\ OneAtATime' /\ JobInv(k)'
<1>1. TypeOK /\ OneAtATime /\ JobInv(k)
  BY DEF IInv
<1>2. /\ turn = "poll" /\ turn' = "loop" /\ found' = NoEvents
      /\ UNCHANGED <<sched, process, pollQueue, todo, answer>>
  BY DEF PollAborts, EndRound, EmitAborts, PollerDies, Emit
<1>3. todo = {} /\ answer = {}
  BY <1>1, <1>2 DEF OneAtATime
<1>4. found'[k] = "none"
  BY <1>2 DEF NoEvents
<1>5. polling' = <<>> /\ polling' \in Seq(Jobs) /\ Watches(k)' <= Watches(k) /\ Watches(k)' \in Nat
  <2>1. polling' = <<>>
    BY DEF PollAborts, EndRound, EmitAborts, PollerDies
  <2>2. CASE EndRound
    BY <1>1, <2>1, <2>2, WatchesNat DEF EndRound, Watches, TypeOK
  <2>3. CASE PollAborts \/ EmitAborts
    <3>1. PollerDies /\ UNCHANGED pollQueue
      BY <2>3 DEF PollAborts, EmitAborts
    <3>2. QED BY <1>1, <2>1, <3>1, DyingTakes, WatchesNat
  <2>4. QED BY <2>2, <2>3
<1>6. /\ reported' \in [Jobs -> Seq(Results)]
      /\ found[k] = "none" => reported'[k] = reported[k]
  <2>1. CASE EndRound
    BY <1>1, <2>1, EmitKeeps DEF EndRound
  <2>2. CASE reported' = reported
    BY <1>1, <2>2 DEF TypeOK
  <2>3. QED BY <2>1, <2>2 DEF PollAborts, EmitAborts
<1>7. TypeOK' /\ OneAtATime'
  BY <1>1, <1>2, <1>3, <1>5, <1>6 DEF TypeOK, OneAtATime, NoEvents
<1>8. (Outside(k)' <=> Outside(k)) /\ (Accepted(k)' <=> Accepted(k))
  BY <1>2 DEF Outside, Accepted
<1>9. Watches(k) \in Nat
  BY <1>1, WatchesNat
<1>10. JobInv(k)'
  BY <1>1, <1>2, <1>3, <1>4, <1>5, <1>6, <1>8, <1>9 DEF JobInv
<1>11. QED BY <1>7, <1>10

(* kill_many().                                                            *)
LEMMA StartKillKeeps ==
  ASSUME IInv, NEW k \in Jobs, StartKill
  PROVE  TypeOK' /\ OneAtATime' /\ JobInv(k)'
<1>1. TypeOK /\ OneAtATime /\ JobInv(k)
  BY DEF IInv
<1>2. /\ Shutdowns /\ turn = "loop" /\ turn' = "kill" /\ todo' = Running
      /\ sched' = [j \in Jobs |-> IF sched[j] = "ready" THEN "done" ELSE sched[j]]
      /\ UNCHANGED <<process, pollQueue, polling, answer, found, reported>>
  BY DEF StartKill
<1>3. found[k] = "none" /\ answer = {} /\ polling = <<>> /\ sched[k] # "asked"
  BY <1>1, <1>2 DEF OneAtATime, NoEvents, JobInv
<1>4. TypeOK' /\ OneAtATime'
  BY <1>1, <1>2 DEF TypeOK, OneAtATime, Running
<1>5. /\ Watches(k)' = Watches(k)
      /\ ~Outside(k)'
      /\ Accepted(k)' <=> Accepted(k)
      /\ k \in todo' => sched'[k] = "running"
  BY <1>2, <1>3 DEF Watches, Outside, Accepted, Running
<1>6. JobInv(k)'
  BY <1>1, <1>2, <1>3, <1>5 DEF JobInv
<1>7. QED BY <1>4, <1>6

LEMMA KillKeeps ==
  ASSUME IInv, NEW j \in Jobs, NEW k \in Jobs, Kill(j)
  PROVE  TypeOK' /\ OneAtATime' /\ JobInv(k)'
<1>1. TypeOK /\ OneAtATime /\ JobInv(j) /\ JobInv(k)
  BY DEF IInv
<1>2. /\ turn = "kill" /\ turn' = "kill" /\ j \in todo /\ todo' = todo \ {j}
      /\ process' = [process EXCEPT ![j] = "none"]
      /\ found' = [found EXCEPT ![j] = "KILLED"]
      /\ UNCHANGED <<sched, polling, answer, reported>>
  BY DEF Kill, Find
<1>3. pollQueue' \in Seq(Jobs) /\ Watches(k)' = IF k = j THEN 0 ELSE Watches(k)
  BY KillTakes
<1>4. TypeOK' /\ OneAtATime'
  BY <1>1, <1>2, <1>3 DEF TypeOK, OneAtATime, Results
<1>5. CASE k # j
  <2>1. Undisturbed(k)
    BY <1>1, <1>2, <1>3, <1>5 DEF Undisturbed, TypeOK
  <2>2. QED BY <1>1, <1>4, <2>1, UndisturbedKeeps
<1>6. CASE k = j
  <2>1. sched[j] = "running" /\ process'[j] = "none" /\ j \notin todo'
    BY <1>1, <1>2 DEF JobInv, TypeOK
  <2>2. Accepted(j)' /\ ~Outside(j)'
    BY <1>2, <2>1 DEF Accepted, Outside
  <2>3. JobInv(j)'
    BY <1>1, <1>2, <1>3, <1>6, <2>1, <2>2 DEF JobInv
  <2>4. QED BY <1>4, <1>6, <2>3
<1>7. QED BY <1>5, <1>6

LEMMA EndKillKeeps ==
  ASSUME IInv, NEW k \in Jobs, KillReturns \/ \E j \in Jobs : KillAborts(j)
  PROVE  TypeOK' /\ OneAtATime' /\ JobInv(k)'
<1>1. TypeOK /\ OneAtATime /\ JobInv(k)
  BY DEF IInv
<1>2. /\ turn = "kill" /\ turn' = "loop" /\ found' = NoEvents /\ todo' = {}
      /\ UNCHANGED <<sched, process, pollQueue, polling, answer>>
  BY DEF KillReturns, KillAborts, Emit
<1>3. /\ reported' \in [Jobs -> Seq(Results)]
      /\ found[k] = "none" => reported'[k] = reported[k]
  <2>1. CASE KillReturns
    BY <1>1, <2>1, EmitKeeps DEF KillReturns
  <2>2. CASE reported' = reported
    BY <1>1, <2>2 DEF TypeOK
  <2>3. QED BY <2>1, <2>2 DEF KillAborts
<1>4. TypeOK' /\ OneAtATime'
  BY <1>1, <1>2, <1>3 DEF TypeOK, OneAtATime, NoEvents
<1>5. /\ (Outside(k)' <=> Outside(k)) /\ (Accepted(k)' <=> Accepted(k))
      /\ Watches(k)' = Watches(k) /\ found'[k] = "none"
  BY <1>2 DEF Outside, Accepted, Watches, NoEvents
<1>6. JobInv(k)'
  BY <1>1, <1>2, <1>3, <1>5 DEF JobInv
<1>7. QED BY <1>4, <1>6

(* The scheduler, the processes, and the end of the run.                   *)
LEMMA LoopKeeps ==
  ASSUME IInv, NEW k \in Jobs,
         \/ \E j \in Jobs : HandleCompletion(j) \/ ProcessExits(j)
         \/ Close \/ UNCHANGED vars
  PROVE  TypeOK' /\ OneAtATime' /\ JobInv(k)'
<1>1. TypeOK /\ OneAtATime /\ JobInv(k)
  BY DEF IInv
<1>2. /\ UNCHANGED <<pollQueue, polling, todo, answer, found, turn, reported>>
      /\ \/ sched' = sched
         \/ /\ turn = "loop"
            /\ \E j \in Jobs : /\ sched[j] = "running" /\ reported[j] # <<>>
                              /\ sched' = [sched EXCEPT ![j] = "done"]
      /\ \/ process' = process
         \/ \E j \in Jobs : process[j] = "running" /\ process' = [process EXCEPT ![j] = "exited"]
  BY DEF HandleCompletion, ProcessExits, Close, vars, batchVars
<1>3. \/ sched'[k] = sched[k]
      \/ sched[k] = "running" /\ reported[k] # <<>> /\ sched'[k] = "done" /\ turn = "loop"
  BY <1>1, <1>2 DEF TypeOK
<1>4. process'[k] = process[k] \/ (process[k] = "running" /\ process'[k] = "exited")
  BY <1>1, <1>2 DEF TypeOK
<1>5. TypeOK' /\ OneAtATime'
  BY <1>1, <1>2 DEF TypeOK, OneAtATime
<1>6. Watches(k)' = Watches(k)
  BY <1>2 DEF Watches
<1>7. CASE sched'[k] = sched[k]
  <2>1. (Outside(k)' <=> Outside(k)) /\ (Accepted(k)' <=> Accepted(k))
    BY <1>2, <1>7 DEF Outside, Accepted
  <2>2. JobInv(k)'
    BY <1>1, <1>2, <1>4, <1>6, <1>7, <2>1 DEF JobInv
  <2>3. QED BY <1>5, <2>2
<1>8. CASE sched[k] = "running" /\ reported[k] # <<>> /\ sched'[k] = "done" /\ turn = "loop"
  <2>1. found[k] = "none" /\ todo = {} /\ answer = {}
    BY <1>1, <1>8 DEF OneAtATime, NoEvents
  <2>2. ~Outside(k)' /\ ~(Watches(k) = 1 /\ process[k] # "none")
    BY <1>1, <1>8 DEF JobInv, Outside
  <2>3. JobInv(k)'
    BY <1>1, <1>2, <1>4, <1>6, <1>8, <2>1, <2>2 DEF JobInv
  <2>4. QED BY <1>5, <2>3
<1>9. QED BY <1>3, <1>7, <1>8

LEMMA NoJobsStep ==
  ASSUME Jobs = {}, IInv, [Next]_vars
  PROVE  IInv'
<1>1. TypeOK /\ OneAtATime
  BY DEF IInv
<1>2. pollQueue = <<>> /\ polling = <<>>
  <2>1. \A s \in Seq({}) : s = <<>>
    <3> TAKE s \in Seq({})
    <3>1. Len(s) \in Nat /\ \A i \in 1 .. Len(s) : s[i] \in {}
      BY LenProperties, ElementOfSeq
    <3>2. Len(s) = 0
      BY <3>1
    <3>3. QED BY <3>2, EmptySeq
  <2>2. QED BY <1>1, <2>1 DEF TypeOK
<1>3. /\ UNCHANGED pollQueue /\ polling' = <<>>
      /\ todo' = {} /\ answer' = {}
      /\ turn' \in {"loop", "submit", "poll", "kill"} /\ (turn' = "kill" => turn = "kill")
      /\ sched' = [j \in Jobs |-> "ready"] /\ process' = process
      /\ found' = NoEvents /\ reported' = reported
  <2>1. todo = {} /\ answer = {} /\ found = NoEvents /\ sched = [j \in Jobs |-> "ready"]
        /\ reported = [j \in Jobs |-> <<>>]
    BY <1>1 DEF TypeOK, NoEvents
  <2>2. CASE StartRound
    BY <1>2, <2>1, <2>2 DEF StartRound, batchVars
  <2>3. CASE UNCHANGED vars \/ Close
    BY <1>1, <1>2, <2>1, <2>3 DEF vars, batchVars, Close, TypeOK
  <2>4. CASE SubmitReturns \/ EndRound \/ KillReturns
    BY <1>1, <1>2, <2>1, <2>4 DEF SubmitReturns, EndRound, KillReturns, Emit
  <2>5. CASE EmitAborts
    BY AdapterAssumption, <2>5 DEF EmitAborts, EmitRaises
  <2>6. CASE PollAborts
    BY <1>2, <2>6 DEF PollAborts
  <2>7. CASE StartSubmit \/ StartKill
    BY <2>7 DEF StartSubmit, StartKill, Running
  <2>8. QED BY <2>2, <2>3, <2>4, <2>5, <2>6, <2>7 DEF Next, Going, Finished
<1>4. QED BY <1>1, <1>2, <1>3 DEF IInv, TypeOK, OneAtATime, NoEvents

LEMMA InvariantStep == IInv /\ [Next]_vars => IInv'
<1> SUFFICES ASSUME IInv, [Next]_vars PROVE IInv'
  OBVIOUS
<1>1. ASSUME NEW k \in Jobs PROVE TypeOK' /\ OneAtATime' /\ JobInv(k)'
  BY LaunchKeeps, SubmitKeeps, ReturnKeeps, RoundKeeps, PollKeeps, EndRoundKeeps,
     StartKillKeeps, KillKeeps, EndKillKeeps, LoopKeeps
  DEF Next, Going, Finished
<1>2. QED BY <1>1, NoJobsStep DEF IInv

(* Type correctness, and that a job has a handle at most once, and has one *)
(* with a process only until something is found about it.                  *)
THEOREM InvariantHolds == Spec => []IInv
<1>1. QED BY InvariantInit, InvariantStep, PTL DEF Spec

(***************************************************************************)
(* The life of one job, as the steps of the adapter move it.               *)
(***************************************************************************)
Holds(k, w, p, f, r, a) ==
  /\ Watches(k)' = w /\ process'[k] = p /\ found'[k] = f /\ reported'[k] = r
  /\ Accepted(k)' <=> a

IsLaunched(k) ==
  /\ Outside(k)
  /\ Holds(k, 1, "running", "none", <<>>, TRUE)

IsRefusedByHost(k) ==
  /\ k \in LaunchErrors
  /\ Outside(k)
  /\ Holds(k, 1, "none", "KILLED", <<>>, TRUE)

(* What poll() found ends its handle, and the process unless it failed.    *)
IsFound(k) ==
  /\ Watches(k) = 1 /\ process[k] # "none"
  /\ \E s \in Results, p \in {"none", process[k]} :
       /\ Holds(k, 0, p, s, reported[k], Accepted(k))
       /\ k \notin LogErrors => p = "none"
       /\ k \in Brittle /\ OwnStatus => s # "PASSED"

IsKilled(k) ==
  /\ Shutdowns /\ process[k] # "none"
  /\ Holds(k, 0, "none", "KILLED", reported[k], Accepted(k))

IsReported(k) ==
  Holds(k, Watches(k), process[k], "none",
        IF found[k] = "none" THEN reported[k] ELSE Append(reported[k], found[k]), Accepted(k))

(* An exception loses what was found, and in a round of the poller all that *)
(* was not polled yet.                                                     *)
IsLost(k) ==
  \E w \in Nat :
    /\ w <= Watches(k)
    /\ Holds(k, w, process[k], "none", reported[k], Accepted(k))
    /\ \/ \E j \in Jobs : Watches(j) = 1 /\ process[j] = "none"
       \/ \E j \in Brittle : found[j] = "PASSED" /\ w = Watches(k)
       \/ Shutdowns /\ w = Watches(k)

IsDisturbedOutside(k) ==
  \/ process[k] = "running" /\ Holds(k, Watches(k), "exited", found[k], reported[k], Accepted(k))
  \/ reported[k] # <<>> /\ Holds(k, Watches(k), process[k], found[k], reported[k], FALSE)
  \/ Holds(k, Watches(k), process[k], found[k], reported[k], Accepted(k))

JobStep(k) ==
  \/ IsLaunched(k) \/ IsRefusedByHost(k) \/ IsFound(k) \/ IsKilled(k)
  \/ IsReported(k) \/ IsLost(k) \/ IsDisturbedOutside(k)

LEMMA AtMostOneWatch ==
  ASSUME IInv, NEW k \in Jobs PROVE Watches(k) \in {0, 1}
<1>1. Watches(k) \in Nat /\ Watches(k) <= 1
  BY WatchesNat DEF IInv, JobInv
<1>2. QED BY <1>1

LEMMA LaunchMovesJob ==
  ASSUME IInv, NEW j \in Jobs, NEW k \in Jobs, Launch(j) \/ LaunchFails(j) \/ LaunchBusy(j)
  PROVE  JobStep(k)
<1>1. TypeOK /\ JobInv(j) /\ JobInv(k)
  BY DEF IInv
<1>2. /\ turn = "submit" /\ j \in todo
      /\ UNCHANGED <<sched, polling, reported>>
      /\ \/ answer' = answer /\ pollQueue' = pollQueue /\ process' = process /\ found' = found
         \/ /\ answer' = answer \cup {j} /\ pollQueue' = Append(pollQueue, j)
            /\ \/ process' = [process EXCEPT ![j] = "running"] /\ found' = found
               \/ /\ j \in LaunchErrors
                  /\ process' = process /\ found' = [found EXCEPT ![j] = "KILLED"]
  BY DEF Launch, LaunchFails, LaunchBusy, HandOut, Find
<1>3. Outside(j) /\ sched[j] = "asked" /\ j \notin answer
  BY <1>1, <1>2 DEF JobInv, Outside
<1>4. Watches(j) = 0 /\ process[j] = "none" /\ reported[j] = <<>> /\ found[j] = "none"
  BY <1>1, <1>3 DEF JobInv
<1>5. CASE UNCHANGED <<answer, pollQueue, process, found>>
  <2>1. Watches(k)' = Watches(k) /\ (Accepted(k)' <=> Accepted(k))
    BY <1>2, <1>5 DEF Watches, Accepted
  <2>2. Holds(k, Watches(k), process[k], found[k], reported[k], Accepted(k))
    BY <1>2, <1>5, <2>1 DEF Holds
  <2>3. QED BY <2>2 DEF JobStep, IsDisturbedOutside
<1>6. CASE answer' = answer \cup {j} /\ pollQueue' = Append(pollQueue, j)
  <2>1. Watches(k)' = Watches(k) + (IF k = j THEN 1 ELSE 0)
    <3>1. Times(k, pollQueue') = Times(k, pollQueue) + (IF k = j THEN 1 ELSE 0)
      BY <1>1, <1>6, QueuedMore
    <3>2. Watches(k)' = Times(k, pollQueue') + Times(k, polling)
      BY <1>2 DEF Watches
    <3>3. QED BY <1>1, <3>1, <3>2, WatchesNat DEF Watches
  <2>2. CASE k # j
    <3>1. Watches(k)' = Watches(k) /\ (Accepted(k)' <=> Accepted(k))
      BY <1>1, <1>2, <1>6, <2>1, <2>2, WatchesNat DEF Accepted
    <3>2. process'[k] = process[k] /\ found'[k] = found[k] /\ reported'[k] = reported[k]
      BY <1>1, <1>2, <2>2 DEF TypeOK
    <3>3. QED BY <3>1, <3>2 DEF Holds, JobStep, IsDisturbedOutside
  <2>3. CASE k = j
    <3>1. Watches(j)' = 1 /\ Accepted(j)' /\ reported'[j] = <<>>
      BY <1>2, <1>4, <1>6, <2>1, <2>3 DEF Accepted
    <3>2. \/ process'[j] = "running" /\ found'[j] = "none"
          \/ j \in LaunchErrors /\ process'[j] = "none" /\ found'[j] = "KILLED"
      <4>1. j \in answer'
        BY <1>6
      <4>2. \/ process' = [process EXCEPT ![j] = "running"] /\ found' = found
            \/ /\ j \in LaunchErrors
               /\ process' = process /\ found' = [found EXCEPT ![j] = "KILLED"]
        BY <1>2, <1>3, <4>1
      <4>3. QED BY <1>1, <1>4, <4>2 DEF TypeOK
    <3>3. QED BY <1>3, <2>3, <3>1, <3>2 DEF Holds, JobStep, IsLaunched, IsRefusedByHost
  <2>4. QED BY <2>2, <2>3
<1>7. QED BY <1>2, <1>5, <1>6

LEMMA PollMovesJob ==
  ASSUME IInv, NEW j \in Jobs, NEW k \in Jobs,
         PollRunning(j) \/ PollExited(j) \/ PollTimesOut(j) \/ PollFails(j)
  PROVE  JobStep(k)
<1>1. TypeOK /\ JobInv(j) /\ JobInv(k)
  BY DEF IInv
<1>2. /\ Polled(j) /\ process[j] # "none"
      /\ UNCHANGED <<sched, answer, reported>>
      /\ \/ pollQueue' = Append(pollQueue, j) /\ process' = process /\ found' = found
         \/ /\ UNCHANGED pollQueue
            /\ \E s \in Results : /\ found' = [found EXCEPT ![j] = s]
                                  /\ j \in Brittle /\ OwnStatus => s # "PASSED"
            /\ \/ process' = [process EXCEPT ![j] = "none"]
               \/ process' = process /\ j \in LogErrors
  <2>1. CASE PollExited(j)
    <3>1. PICK s \in {"PASSED", "FAILED"} : found' = [found EXCEPT ![j] = Returned(j, s)]
      BY <2>1 DEF PollExited, Find
    <3>2. Returned(j, s) \in Results /\ (j \in Brittle /\ OwnStatus => Returned(j, s) # "PASSED")
      BY AdapterAssumption DEF Returned, Recorded, Results
    <3>3. QED BY <2>1, <3>1, <3>2 DEF PollExited, Polled
  <2>2. QED BY <2>1 DEF PollRunning, PollTimesOut, PollFails, Find, Results, Polled
<1>3. UNCHANGED pollQueue \/ pollQueue' = Append(pollQueue, j)
  BY <1>2
<1>4. Watches(j) = 1 /\ Watches(k)' = IF UNCHANGED pollQueue /\ k = j THEN 0 ELSE Watches(k)
  BY <1>2, <1>3, PolledTakes
<1>5. pollQueue' = Append(pollQueue, j) => ~UNCHANGED pollQueue
  BY <1>1, AppendProperties, LenProperties DEF TypeOK
<1>6. (Accepted(k)' <=> Accepted(k)) /\ reported'[k] = reported[k]
  BY <1>2 DEF Accepted
<1>7. CASE k # j \/ (found' = found /\ process' = process /\ ~UNCHANGED pollQueue)
  <2>1. Watches(k)' = Watches(k)
    BY <1>4, <1>7
  <2>2. process'[k] = process[k] /\ found'[k] = found[k]
    BY <1>1, <1>2, <1>7 DEF TypeOK
  <2>3. QED BY <1>6, <2>1, <2>2 DEF Holds, JobStep, IsDisturbedOutside
<1>8. CASE k = j /\ UNCHANGED pollQueue
  <2>1. Watches(j)' = 0
    BY <1>4, <1>8
  <2>2. PICK s \in Results : /\ found' = [found EXCEPT ![j] = s]
                             /\ j \in Brittle /\ OwnStatus => s # "PASSED"
    BY <1>2, <1>5, <1>8
  <2>3. found'[j] = s
    BY <1>1, <2>2 DEF TypeOK
  <2>4. process'[j] = "none" \/ (process'[j] = process[j] /\ j \in LogErrors)
    BY <1>1, <1>2, <1>5, <1>8 DEF TypeOK
  <2>5. \E p \in {"none", process[j]} :
          /\ Holds(j, 0, p, s, reported[j], Accepted(j))
          /\ j \notin LogErrors => p = "none"
    BY <1>6, <1>8, <2>1, <2>3, <2>4 DEF Holds
  <2>6. IsFound(j)
    BY <1>2, <1>4, <2>2, <2>5 DEF IsFound
  <2>7. QED BY <1>8, <2>6 DEF JobStep
<1>9. QED BY <1>2, <1>5, <1>7, <1>8

LEMMA EmitMovesJob ==
  ASSUME IInv, NEW k \in Jobs, SubmitReturns \/ EndRound \/ KillReturns
  PROVE  JobStep(k)
<1>1. TypeOK /\ JobInv(k)
  BY DEF IInv
<1>2. /\ UNCHANGED <<process, pollQueue, polling>>
      /\ Emit
      /\ \/ UNCHANGED <<sched, answer>>
         \/ /\ answer' = {}
            /\ sched' = [j \in Jobs |-> IF sched[j] # "asked" THEN sched[j]
                                        ELSE IF j \in answer THEN "running" ELSE "ready"]
  BY DEF SubmitReturns, EndRound, KillReturns
<1>3. /\ found'[k] = "none"
      /\ reported'[k] = IF found[k] = "none" THEN reported[k] ELSE Append(reported[k], found[k])
  BY <1>2 DEF Emit, NoEvents
<1>4. Accepted(k)' <=> Accepted(k)
  BY <1>1, <1>2 DEF Accepted, JobInv
<1>5. Watches(k)' = Watches(k) /\ process'[k] = process[k]
  BY <1>2 DEF Watches
<1>6. QED BY <1>3, <1>4, <1>5 DEF Holds, JobStep, IsReported

LEMMA HeadWatched ==
  ASSUME IInv, polling # <<>>
  PROVE  Head(polling) \in Jobs /\ Watches(Head(polling)) = 1
<1>1. TypeOK /\ polling \in Seq(Jobs)
  BY DEF IInv, TypeOK
<1>2. Head(polling) \in Jobs /\ Tail(polling) \in Seq(Jobs)
  BY <1>1, HeadTailProperties
<1>3. Times(Head(polling), Tail(polling)) = Times(Head(polling), polling) - 1
  BY <1>1, TimesTail
<1>4. Times(Head(polling), Tail(polling)) \in Nat
  BY <1>2, PlacesFinite
<1>5. Watches(Head(polling)) <= 1
  BY <1>2 DEF IInv, JobInv
<1> DEFINE h == Head(polling)
<1>6. Watches(h) = Times(h, pollQueue) + Times(h, polling)
  BY DEF Watches
<1>7. Times(h, pollQueue) \in Nat /\ Times(h, polling) \in Nat
  BY <1>1, WatchesNat
<1> HIDE DEF h
<1>8. Times(h, polling) - 1 \in Nat /\ Watches(h) <= 1
  BY <1>3, <1>4, <1>5 DEF h
<1>9. Watches(h) = 1
  BY <1>6, <1>7, <1>8
<1>10. QED BY <1>2, <1>9 DEF h

LEMMA LossMovesJob ==
  ASSUME IInv, NEW k \in Jobs, PollAborts \/ EmitAborts \/ \E j \in Jobs : KillAborts(j)
  PROVE  JobStep(k)
<1>1. TypeOK
  BY DEF IInv
<1>2. /\ UNCHANGED <<sched, answer, process, pollQueue, reported>>
      /\ found' = NoEvents
  BY DEF PollAborts, EmitAborts, KillAborts, PollerDies
<1>3. found'[k] = "none" /\ (Accepted(k)' <=> Accepted(k))
  BY <1>2 DEF NoEvents, Accepted
<1>4. CASE PollAborts
  <2>1. polling # <<>> /\ process[Head(polling)] = "none" /\ PollerDies
    BY <1>4 DEF PollAborts
  <2>2. \E j \in Jobs : Watches(j) = 1 /\ process[j] = "none"
    BY <2>1, HeadWatched
  <2>3. Watches(k)' \in Nat /\ Watches(k)' <= Watches(k)
    BY <1>1, <1>2, <2>1, DyingTakes, WatchesNat
  <2>4. Holds(k, Watches(k)', process[k], "none", reported[k], Accepted(k))
    BY <1>2, <1>3 DEF Holds
  <2>5. IsLost(k)
    BY <2>2, <2>3, <2>4 DEF IsLost
  <2>6. QED BY <2>5 DEF JobStep
<1>5. CASE EmitAborts \/ \E j \in Jobs : KillAborts(j)
  <2>1. polling' = polling
    BY <1>5 DEF EmitAborts, KillAborts, PollerDies
  <2>2. Watches(k)' = Watches(k) /\ Watches(k) \in Nat
    BY <1>1, <1>2, <2>1, WatchesNat DEF Watches
  <2>3. Holds(k, Watches(k), process[k], "none", reported[k], Accepted(k))
    BY <1>2, <1>3, <2>2 DEF Holds
  <2>4. (\E j \in Brittle : found[j] = "PASSED") \/ Shutdowns
    BY <1>5 DEF EmitAborts, EmitRaises, KillAborts, IInv, OneAtATime
  <2>5. IsLost(k)
    BY <2>2, <2>3, <2>4 DEF IsLost
  <2>6. QED BY <2>5 DEF JobStep
<1>6. QED BY <1>4, <1>5

LEMMA OtherMovesJob ==
  ASSUME IInv, NEW k \in Jobs,
         \/ StartSubmit \/ StartRound \/ StartKill \/ Close \/ UNCHANGED vars
         \/ \E j \in Jobs : HandleCompletion(j) \/ ProcessExits(j)
  PROVE  JobStep(k)
<1>1. TypeOK /\ OneAtATime /\ JobInv(k)
  BY DEF IInv
<1>2. UNCHANGED <<found, answer, reported>>
  BY DEF StartSubmit, StartRound, StartKill, Close, vars, HandleCompletion, ProcessExits, batchVars
<1>3. Watches(k)' = Watches(k)
  <2>1. CASE StartRound
    BY <2>1, RoundTakes
  <2>2. CASE UNCHANGED <<pollQueue, polling>>
    BY <2>2 DEF Watches
  <2>3. QED BY <2>1, <2>2
            DEF StartSubmit, StartKill, Close, vars, HandleCompletion, ProcessExits
<1>4. CASE \E j \in Jobs : ProcessExits(j)
  <2>1. PICK j \in Jobs : process[j] = "running" /\ process' = [process EXCEPT ![j] = "exited"]
    BY <1>4 DEF ProcessExits
  <2>2. \/ process'[k] = process[k]
        \/ process[k] = "running" /\ process'[k] = "exited"
    BY <1>1, <2>1 DEF TypeOK
  <2>3. sched' = sched
    BY <1>4 DEF ProcessExits
  <2>4. Accepted(k)' <=> Accepted(k)
    BY <1>2, <2>3 DEF Accepted
  <2>5. QED BY <1>2, <1>3, <2>2, <2>4 DEF Holds, JobStep, IsDisturbedOutside
<1>5. CASE \E j \in Jobs : HandleCompletion(j)
  <2>1. PICK j \in Jobs : HandleCompletion(j)
    BY <1>5
  <2>2. process' = process
    BY <2>1 DEF HandleCompletion
  <2>3. CASE k # j
    <3>1. sched'[k] = sched[k]
      BY <1>1, <2>1, <2>3 DEF HandleCompletion, TypeOK
    <3>2. Accepted(k)' <=> Accepted(k)
      BY <1>2, <3>1 DEF Accepted
    <3>3. QED BY <1>2, <1>3, <2>2, <3>2 DEF Holds, JobStep, IsDisturbedOutside
  <2>4. CASE k = j
    <3>1. reported[k] # <<>> /\ sched'[k] = "done" /\ turn = "loop"
      BY <1>1, <2>1, <2>4 DEF HandleCompletion, TypeOK
    <3>2. Accepted(k)' <=> FALSE
      BY <1>1, <1>2, <3>1 DEF Accepted, OneAtATime
    <3>3. QED BY <1>2, <1>3, <2>2, <3>1, <3>2 DEF Holds, JobStep, IsDisturbedOutside
  <2>5. QED BY <2>3, <2>4
<1>6. CASE StartSubmit \/ StartRound \/ StartKill \/ Close \/ UNCHANGED vars
  <2>1. process' = process
    BY <1>6 DEF StartSubmit, StartRound, StartKill, Close, vars
  <2>2. sched'[k] = "running" <=> sched[k] = "running"
    BY <1>6 DEF StartSubmit, StartRound, StartKill, Close, vars
  <2>3. Accepted(k)' <=> Accepted(k)
    BY <1>2, <2>2 DEF Accepted
  <2>4. QED BY <1>2, <1>3, <2>1, <2>3 DEF Holds, JobStep, IsDisturbedOutside
<1>7. QED BY <1>4, <1>5, <1>6

LEMMA KillMovesJob ==
  ASSUME IInv, NEW j \in Jobs, NEW k \in Jobs, Kill(j)
  PROVE  JobStep(k)
<1>1. TypeOK /\ JobInv(j)
  BY DEF IInv
<1>2. Watches(k)' = IF k = j THEN 0 ELSE Watches(k)
  BY KillTakes
<1>3. /\ process[j] # "none"
      /\ process' = [process EXCEPT ![j] = "none"]
      /\ found' = [found EXCEPT ![j] = "KILLED"]
      /\ UNCHANGED <<sched, answer, reported>>
      /\ turn = "kill" /\ j \in todo
  BY DEF Kill, Find
<1>4. Accepted(k)' <=> Accepted(k)
  BY <1>3 DEF Accepted
<1>5. CASE k # j
  <2>1. process'[k] = process[k] /\ found'[k] = found[k]
    BY <1>1, <1>3, <1>5 DEF TypeOK
  <2>2. QED BY <1>2, <1>3, <1>4, <1>5, <2>1 DEF Holds, JobStep, IsDisturbedOutside
<1>6. CASE k = j
  <2>1. process'[k] = "none" /\ found'[k] = "KILLED"
    BY <1>1, <1>3, <1>6 DEF TypeOK
  <2>2. Shutdowns
    BY <1>3 DEF IInv, OneAtATime
  <2>3. IsKilled(k)
    BY <1>2, <1>3, <1>4, <1>6, <2>1, <2>2 DEF Holds, IsKilled
  <2>4. QED BY <2>3 DEF JobStep
<1>7. QED BY <1>5, <1>6

LEMMA EveryStepMovesJobs ==
  ASSUME IInv, [Next]_vars, NEW k \in Jobs
  PROVE  JobStep(k)
BY LaunchMovesJob, PollMovesJob, EmitMovesJob, LossMovesJob, KillMovesJob, OtherMovesJob
DEF Next, Going, Finished

(***************************************************************************)
(* The window in which launchers are polled.                               *)
(***************************************************************************)

(* A job with a handle has a process.                                      *)
HandlesHaveProcesses == \A j \in Jobs : Watches(j) = 1 => process[j] # "none"

LEMMA HandlesHaveProcessesStep ==
  ASSUME LaunchErrors = {}, IInv, [Next]_vars, HandlesHaveProcesses
  PROVE  HandlesHaveProcesses'
<1> SUFFICES ASSUME NEW k \in Jobs, Watches(k)' = 1 PROVE process'[k] # "none"
  BY DEF HandlesHaveProcesses
<1>1. JobStep(k) /\ Watches(k) \in {0, 1}
  BY EveryStepMovesJobs, AtMostOneWatch
<1>2. CASE IsLaunched(k)
  BY <1>2 DEF IsLaunched, Holds
<1>3. CASE IsFound(k) \/ IsKilled(k)
  BY <1>3 DEF IsFound, IsKilled, Holds
<1>4. CASE IsReported(k) \/ IsLost(k) \/ IsDisturbedOutside(k)
  <2>1. Watches(k) = 1
    BY <1>1, <1>4 DEF IsReported, IsLost, IsDisturbedOutside, Holds
  <2>2. QED BY <1>4, <2>1 DEF HandlesHaveProcesses, IsReported, IsLost, IsDisturbedOutside, Holds
<1>5. CASE IsRefusedByHost(k)
  BY <1>5 DEF IsRefusedByHost
<1>6. QED BY <1>1, <1>2, <1>3, <1>4, <1>5 DEF JobStep

LEMMA NothingAtFirst ==
  ASSUME Init
  PROVE  \A j \in Jobs : Watches(j) = 0 /\ process[j] = "none" /\ found[j] = "none"
                         /\ reported[j] = <<>> /\ ~Accepted(j)
<1> SUFFICES ASSUME NEW j \in Jobs
             PROVE  /\ Watches(j) = 0 /\ process[j] = "none" /\ found[j] = "none"
                    /\ reported[j] = <<>> /\ ~Accepted(j)
  OBVIOUS
<1>1. IInv /\ Outside(j)
  BY InvariantInit DEF Init, Outside
<1>2. QED BY <1>1 DEF IInv, JobInv, Init, Accepted

(* Unless a launch fails, the poller polls only launchers that have a      *)
(* process: kill_many() takes away the handles of those it killed, and a   *)
(* launcher that ended has none left, in the queue or in the round.        *)
THEOREM PollsInWindow ==
  ASSUME LaunchErrors = {}
  PROVE  Spec => []PolledInWindow
<1>1. Init => HandlesHaveProcesses
  BY NothingAtFirst DEF HandlesHaveProcesses
<1>2. IInv /\ HandlesHaveProcesses /\ [Next]_vars => HandlesHaveProcesses'
  BY HandlesHaveProcessesStep
<1>3. IInv /\ HandlesHaveProcesses => PolledInWindow
  BY HeadWatched DEF HandlesHaveProcesses, PolledInWindow
<1>4. QED BY <1>1, <1>2, <1>3, InvariantHolds, PTL DEF Spec

(* Unless a launch or a poll fails, every process that runs or is left to  *)
(* be reaped is one the poller will come to, exactly once in a round: what *)
(* ends a round early, the clean-up of another job, leaves it in the queue. *)
THEOREM ProcessesAreWatched ==
  ASSUME LaunchErrors = {}, LogErrors = {}
  PROVE  Spec => []NoProcessUnwatched
<1> DEFINE J == HandlesHaveProcesses /\ NoProcessUnwatched
<1>1. NoProcessUnwatched <=> \A j \in Jobs : process[j] # "none" => Watches(j) = 1
  BY DEF NoProcessUnwatched, Watches
<1>2. NoProcessUnwatched' <=> \A j \in Jobs : process'[j] # "none" => Watches(j)' = 1
  BY DEF NoProcessUnwatched, Watches
<1>3. Init => J
  BY <1>1, NothingAtFirst DEF HandlesHaveProcesses
<1>4. ASSUME IInv, J, [Next]_vars PROVE J'
  <2>1. HandlesHaveProcesses'
    BY <1>4, HandlesHaveProcessesStep
  <2>2. ASSUME NEW k \in Jobs, process'[k] # "none" PROVE Watches(k)' = 1
    <3>1. JobStep(k) /\ (process[k] # "none" => Watches(k) = 1)
      BY <1>1, <1>4, EveryStepMovesJobs
    <3>2. CASE IsLaunched(k)
      BY <3>2 DEF IsLaunched, Holds
    <3>3. CASE IsFound(k) \/ IsKilled(k) \/ IsRefusedByHost(k)
      BY <2>2, <3>3 DEF IsFound, IsKilled, IsRefusedByHost, Holds
    <3>4. CASE IsReported(k) \/ IsDisturbedOutside(k)
      BY <2>2, <3>1, <3>4 DEF IsReported, IsDisturbedOutside, Holds
    <3>5. CASE IsLost(k)
      BY <1>4, <2>2, <3>1, <3>5 DEF IsLost, HandlesHaveProcesses, Holds
    <3>6. QED BY <3>1, <3>2, <3>3, <3>4, <3>5 DEF JobStep
  <2>3. QED BY <1>2, <2>1, <2>2
<1>5. QED BY <1>3, <1>4, InvariantHolds, PTL DEF Spec

(***************************************************************************)
(* One completion for each job.                                            *)
(***************************************************************************)
ReportedOnce(j) ==
  /\ reported[j] # <<>> => Len(reported[j]) = 1 /\ found[j] = "none"
  /\ LogErrors = {} /\ process[j] # "none" => reported[j] = <<>> /\ found[j] = "none"

LEMMA ReportedOnceStep ==
  ASSUME LogErrors = {} \/ ~Shutdowns, IInv, [Next]_vars, NEW k \in Jobs, ReportedOnce(k)
  PROVE  ReportedOnce(k)'
<1>1. JobStep(k) /\ TypeOK /\ JobInv(k)
  BY EveryStepMovesJobs DEF IInv
<1>2. CASE IsLaunched(k) \/ IsRefusedByHost(k)
  BY <1>2 DEF IsLaunched, IsRefusedByHost, Holds, ReportedOnce
<1>3. CASE IsFound(k)
  <2>1. reported[k] = <<>>
    BY <1>1, <1>3 DEF IsFound, JobInv
  <2>2. QED BY <1>3, <2>1 DEF IsFound, Holds, ReportedOnce
<1>4. CASE IsKilled(k)
  <2>1. reported[k] = <<>>
    BY <1>4 DEF IsKilled, ReportedOnce
  <2>2. QED BY <1>4, <2>1 DEF IsKilled, Holds, ReportedOnce
<1>5. CASE IsReported(k)
  <2>1. CASE found[k] = "none"
    BY <1>5, <2>1 DEF IsReported, Holds, ReportedOnce
  <2>2. CASE found[k] # "none"
    <3>1. reported[k] = <<>> /\ (LogErrors = {} => process[k] = "none")
      BY <2>2 DEF ReportedOnce
    <3>2. reported'[k] = Append(<<>>, found[k]) /\ found'[k] = "none" /\ process'[k] = process[k]
      BY <1>5, <2>2, <3>1 DEF IsReported, Holds
    <3>3. Append(<<>>, found[k]) = <<found[k]>> /\ Len(<<found[k]>>) = 1
      OBVIOUS
    <3>4. QED BY <3>1, <3>2, <3>3 DEF ReportedOnce
  <2>3. QED BY <2>1, <2>2
<1>6. CASE IsLost(k) \/ IsDisturbedOutside(k)
  BY <1>6 DEF IsLost, IsDisturbedOutside, Holds, ReportedOnce
<1>7. QED BY <1>1, <1>2, <1>3, <1>4, <1>5, <1>6 DEF JobStep

(***************************************************************************)
(* Handles are neither lost nor duplicated.                                *)
(***************************************************************************)
Tracked(j) ==
  Watches(j) + (IF found[j] # "none" THEN 1 ELSE 0)
    = IF Accepted(j) /\ reported[j] = <<>> THEN 1 ELSE 0

NoBrittlePass == \A j \in Brittle : found[j] # "PASSED"

LEMMA TrackedStep ==
  ASSUME LaunchErrors = {}, ~Shutdowns, OwnStatus \/ Brittle = {},
         IInv, [Next]_vars, HandlesHaveProcesses, NoBrittlePass, NEW k \in Jobs, Tracked(k)
  PROVE  Tracked(k)' /\ (k \in Brittle => found'[k] # "PASSED")
<1>1. JobStep(k) /\ TypeOK /\ JobInv(k) /\ Watches(k) \in {0, 1}
  BY EveryStepMovesJobs, AtMostOneWatch DEF IInv
<1>2. CASE IsLaunched(k)
  BY <1>2 DEF IsLaunched, Holds, Tracked
<1>3. CASE IsFound(k)
  <2>1. reported[k] = <<>> /\ Accepted(k)
    BY <1>1, <1>3 DEF IsFound, JobInv
  <2>2. /\ Watches(k)' = 0 /\ found'[k] \in Results /\ reported'[k] = <<>> /\ Accepted(k)'
        /\ k \in Brittle => found'[k] # "PASSED"
    BY <1>3, <2>1 DEF IsFound, Holds
  <2>3. QED BY <2>2 DEF Tracked, Results
<1>4. CASE IsReported(k)
  <2>1. /\ Watches(k)' = Watches(k) /\ found'[k] = "none" /\ (Accepted(k)' <=> Accepted(k))
        /\ reported'[k] = IF found[k] = "none" THEN reported[k] ELSE Append(reported[k], found[k])
    BY <1>4 DEF IsReported, Holds
  <2>2. CASE found[k] = "none"
    BY <2>1, <2>2 DEF Tracked
  <2>3. CASE found[k] # "none"
    <3>1. Watches(k) = 0 /\ reported[k] = <<>>
      BY <1>1, <2>3 DEF Tracked
    <3>2. reported'[k] # <<>>
      BY <2>1, <2>3, <3>1
    <3>3. QED BY <2>1, <3>1, <3>2 DEF Tracked
  <2>4. QED BY <2>2, <2>3
<1>5. CASE IsDisturbedOutside(k)
  <2>1. /\ Watches(k)' = Watches(k) /\ found'[k] = found[k] /\ reported'[k] = reported[k]
        /\ (Accepted(k)' <=> Accepted(k)) \/ reported[k] # <<>>
    BY <1>5 DEF IsDisturbedOutside, Holds
  <2>2. Tracked(k)'
    BY <2>1 DEF Tracked
  <2>3. QED BY <2>1, <2>2 DEF NoBrittlePass
<1>6. CASE IsLost(k)
  BY <1>6 DEF IsLost, HandlesHaveProcesses, NoBrittlePass
<1>7. CASE IsKilled(k) \/ IsRefusedByHost(k)
  BY <1>7 DEF IsKilled, IsRefusedByHost
<1>8. QED BY <1>1, <1>2, <1>3, <1>4, <1>5, <1>6, <1>7 DEF JobStep

(* Without a launch that fails, a shutdown, or a poll() that passes a job  *)
(* whose clean-up fails, a job has one place in the poll queue, the round  *)
(* or its findings from its handle to its completion, and none before or   *)
(* after, wherever max_polls_per_interval cuts the queue.                  *)
THEOREM HandlesAreTracked ==
  ASSUME LaunchErrors = {}, ~Shutdowns, OwnStatus \/ Brittle = {}
  PROVE  Spec => []HandlesTracked
<1> DEFINE J == HandlesHaveProcesses /\ NoBrittlePass /\ \A j \in Jobs : Tracked(j)
<1>1. Init => J
  BY NothingAtFirst, AdapterAssumption DEF HandlesHaveProcesses, NoBrittlePass, Tracked
<1>2. ASSUME IInv, J, [Next]_vars PROVE J'
  <2>1. HandlesHaveProcesses'
    BY <1>2, HandlesHaveProcessesStep
  <2>2. \A k \in Jobs : Tracked(k)' /\ (k \in Brittle => found'[k] # "PASSED")
    BY <1>2, TrackedStep
  <2>3. NoBrittlePass'
    BY <2>2, AdapterAssumption DEF NoBrittlePass
  <2>4. QED BY <2>1, <2>2, <2>3
<1>3. J => HandlesTracked
  BY DEF Tracked, Watches, HandlesTracked
<1>4. QED BY <1>1, <1>2, <1>3, InvariantHolds, PTL DEF Spec

(***************************************************************************)
(* The contract with the scheduler.                                        *)
(***************************************************************************)

(* What Offer says of a job.                                               *)
Stage(n, accepted, s, listed) ==
  IF n > 1 THEN "repeated"
  ELSE IF n = 1 THEN "ended"
  ELSE IF accepted THEN "live"
  ELSE IF s # "asked" THEN "none"
  ELSE IF listed THEN "asked"
  ELSE "refused"

LEMMA OfferValue ==
  ASSUME NEW j \in Jobs
  PROVE  Offer[j] = Stage(Len(reported[j]), Accepted(j), sched[j], j \in todo)
BY DEF Offer, Stage

LEMMA OfferNext ==
  ASSUME NEW j \in Jobs
  PROVE  Offer'[j] = Stage(Len(reported'[j]), Accepted(j)', sched'[j], j \in todo')
BY DEF Offer, Stage

(* A job that the scheduler and the adapter both leave alone.              *)
LEMMA OfferKept ==
  ASSUME NEW k \in Jobs,
         sched'[k] = sched[k], reported'[k] = reported[k],
         k \in todo' <=> k \in todo, Accepted(k)' <=> Accepted(k)
  PROVE  Offer'[k] = Offer[k]
BY OfferValue, OfferNext DEF Stage

LEMMA LengthOfReports ==
  ASSUME TypeOK, NEW k \in Jobs
  PROVE  /\ Len(reported[k]) \in Nat
         /\ Len(reported[k]) = 0 <=> reported[k] = <<>>
         /\ \A s \in Results : Len(Append(reported[k], s)) = Len(reported[k]) + 1
<1>1. reported[k] \in Seq(Results)
  BY DEF TypeOK
<1>2. QED BY <1>1, LenProperties, EmptySeq, AppendProperties

(* Unless polls fail and the scheduler shuts down, a job is reported once.  *)
THEOREM CompletesJobsOnce ==
  ASSUME LogErrors = {} \/ ~Shutdowns
  PROVE  Spec => []CompletesOnce
<1> DEFINE J == \A j \in Jobs : ReportedOnce(j)
<1>1. Init => J
  BY NothingAtFirst DEF ReportedOnce
<1>2. IInv /\ J /\ [Next]_vars => J'
  BY ReportedOnceStep
<1>3. IInv /\ J => CompletesOnce
  <2> SUFFICES ASSUME IInv, J, NEW j \in Jobs PROVE Offer[j] # "repeated"
    BY DEF CompletesOnce, Contract!CompletedOnce
  <2>1. Len(reported[j]) = 0 \/ Len(reported[j]) = 1
    BY LengthOfReports DEF ReportedOnce, IInv
  <2> DEFINE n == Len(reported[j])
  <2>2. Offer[j] = Stage(n, Accepted(j), sched[j], j \in todo)
    BY OfferValue
  <2>3. n = 0 \/ n = 1
    BY <2>1
  <2> HIDE DEF n
  <2>4. QED BY <2>2, <2>3 DEF Stage
<1>4. QED BY <1>1, <1>2, <1>3, InvariantHolds, PTL DEF Spec

(* The step that a step of the adapter is in the contract.                 *)
Moved(k) == \/ Contract!Ask(k) \/ Contract!Requeue(k) \/ Contract!Answer(k)
            \/ Contract!Report(k) \/ Contract!Repeat(k) \/ Offer'[k] = Offer[k]

LEMMA SubmitMoves ==
  ASSUME IInv, NEW k \in Jobs, StartSubmit
  PROVE  Moved(k)
<1>1. JobInv(k) /\ answer = {} /\ todo = {}
  BY DEF IInv, OneAtATime, StartSubmit
<1>2. PICK S \in SUBSET {j \in Jobs : sched[j] = "ready"} :
        /\ todo' = S
        /\ sched' = [j \in Jobs |-> IF j \in S THEN "asked" ELSE sched[j]]
  BY DEF StartSubmit
<1>3. answer' = answer /\ reported' = reported
  BY DEF StartSubmit
<1>4. CASE k \in S
  <2>1. /\ sched[k] = "ready" /\ sched'[k] = "asked" /\ k \in todo' /\ k \notin answer'
        /\ reported[k] = <<>> /\ Len(<<>>) = 0
    BY <1>1, <1>2, <1>3, <1>4 DEF JobInv, Outside
  <2>2. Offer[k] = "none"
    BY <1>1, <2>1, OfferValue DEF Stage, Accepted
  <2>3. Offer'[k] = "asked"
    BY <1>3, <2>1, OfferNext DEF Stage, Accepted
  <2>4. QED BY <2>2, <2>3 DEF Moved, Contract!Ask, Contract!Moves
<1>5. CASE k \notin S
  <2>1. sched'[k] = sched[k] /\ k \notin todo' /\ (Accepted(k)' <=> Accepted(k))
    BY <1>2, <1>3, <1>5 DEF Accepted
  <2>2. QED BY <1>1, <1>3, <2>1, OfferKept DEF Moved
<1>6. QED BY <1>4, <1>5

LEMMA LaunchMoves ==
  ASSUME IInv, NEW j \in Jobs, NEW k \in Jobs, Launch(j) \/ LaunchFails(j) \/ LaunchBusy(j)
  PROVE  Moved(k)
<1>1. JobInv(j)
  BY DEF IInv
<1>2. /\ turn = "submit" /\ j \in todo /\ todo' = todo \ {j}
      /\ UNCHANGED <<sched, reported>>
      /\ answer' = answer \/ answer' = answer \cup {j}
  BY DEF Launch, LaunchFails, LaunchBusy, HandOut
<1>3. CASE k # j
  <2>1. Accepted(k)' <=> Accepted(k)
    BY <1>2, <1>3 DEF Accepted
  <2>2. QED BY <1>2, <1>3, <2>1, OfferKept DEF Moved
<1>4. CASE k = j
  <2>1. /\ sched[k] = "asked" /\ k \notin answer /\ k \in todo /\ k \notin todo'
        /\ reported[k] = <<>> /\ Len(<<>>) = 0
    BY <1>1, <1>2, <1>4 DEF JobInv, Outside
  <2>2. Offer[k] = "asked"
    BY <2>1, OfferValue DEF Stage, Accepted
  <2>3. Offer'[k] \in {"live", "refused"}
    BY <1>2, <2>1, OfferNext DEF Stage
  <2>4. QED BY <2>2, <2>3 DEF Moved, Contract!Answer, Contract!Moves
<1>5. QED BY <1>3, <1>4

(* What is emitted moves a job on, or repeats what was reported.           *)
LEMMA EmitMoves ==
  ASSUME IInv, NEW k \in Jobs, SubmitReturns \/ EndRound \/ KillReturns
  PROVE  Moved(k)
<1>1. TypeOK /\ JobInv(k)
  BY DEF IInv
<1>2. /\ todo = {} /\ todo' = todo
      /\ Emit
      /\ \/ UNCHANGED <<sched, answer>>
         \/ /\ answer' = {}
            /\ sched' = [j \in Jobs |-> IF sched[j] # "asked" THEN sched[j]
                                        ELSE IF j \in answer THEN "running" ELSE "ready"]
  BY DEF SubmitReturns, EndRound, KillReturns, IInv, OneAtATime
<1>3. reported'[k] = IF found[k] = "none" THEN reported[k] ELSE Append(reported[k], found[k])
  BY <1>2 DEF Emit
<1>4. Accepted(k)' <=> Accepted(k)
  BY <1>1, <1>2 DEF Accepted, JobInv
<1>5. CASE found[k] # "none"
  <2> DEFINE n == Len(reported[k])
             m == Len(reported'[k])
  <2>1. Accepted(k)
    BY <1>1, <1>5 DEF JobInv
  <2>2. n \in Nat /\ m = n + 1
    BY <1>1, <1>3, <1>5, LengthOfReports DEF TypeOK
  <2>3. Offer[k] = Stage(n, Accepted(k), sched[k], k \in todo)
    BY OfferValue
  <2>4. Offer'[k] = Stage(m, Accepted(k)', sched'[k], k \in todo')
    BY OfferNext
  <2> HIDE DEF n, m
  <2>5. CASE n = 0
    BY <2>1, <2>2, <2>3, <2>4, <2>5 DEF Stage, Moved, Contract!Report, Contract!Moves
  <2>6. CASE n = 1
    BY <2>2, <2>3, <2>4, <2>6 DEF Stage, Moved, Contract!Repeat, Contract!Moves
  <2>7. CASE n > 1
    BY <2>2, <2>3, <2>4, <2>7 DEF Stage, Moved
  <2>8. QED BY <2>2, <2>5, <2>6, <2>7
<1>6. CASE found[k] = "none" /\ sched'[k] = sched[k]
  BY <1>2, <1>3, <1>4, <1>6, OfferKept DEF Moved
<1>7. CASE found[k] = "none" /\ sched'[k] # sched[k]
  <2>1. /\ sched[k] = "asked" /\ reported'[k] = reported[k]
        /\ sched'[k] = IF k \in answer THEN "running" ELSE "ready"
    BY <1>2, <1>3, <1>7
  <2>2. CASE k \in answer
    <3>1. Accepted(k) /\ Accepted(k)'
      BY <1>4, <2>2 DEF Accepted
    <3>2. Offer'[k] = Offer[k]
      BY <2>1, <3>1, OfferValue, OfferNext DEF Stage
    <3>3. QED BY <3>2 DEF Moved
  <2>3. CASE k \notin answer
    <3>1. reported[k] = <<>> /\ Len(<<>>) = 0 /\ ~Accepted(k) /\ ~Accepted(k)'
      BY <1>1, <1>4, <2>1, <2>3 DEF JobInv, Outside, Accepted
    <3>2. Offer[k] = "refused" /\ Offer'[k] = "none"
      BY <1>2, <2>1, <2>3, <3>1, OfferValue, OfferNext DEF Stage
    <3>3. QED BY <3>2 DEF Moved, Contract!Requeue, Contract!Moves
  <2>4. QED BY <2>2, <2>3
<1>8. QED BY <1>5, <1>6, <1>7

LEMMA HandlingMoves ==
  ASSUME IInv, NEW j \in Jobs, NEW k \in Jobs, HandleCompletion(j)
  PROVE  Moved(k)
<1>1. TypeOK
  BY DEF IInv
<1>2. UNCHANGED <<reported, todo, answer>>
  BY DEF HandleCompletion, batchVars
<1>3. CASE k # j
  <2>1. sched'[k] = sched[k]
    BY <1>1, <1>3 DEF HandleCompletion, TypeOK
  <2>2. QED BY <1>2, <2>1, OfferKept DEF Moved, Accepted
<1>4. CASE k = j
  <2> DEFINE n == Len(reported[k])
  <2>1. n \in Nat /\ n # 0
    BY <1>1, <1>4, LengthOfReports DEF HandleCompletion
  <2>2. Offer[k] = Stage(n, Accepted(k), sched[k], k \in todo)
    BY OfferValue
  <2>3. Offer'[k] = Stage(n, Accepted(k)', sched'[k], k \in todo')
    BY <1>2, OfferNext
  <2> HIDE DEF n
  <2>4. Offer'[k] = Offer[k]
    BY <2>1, <2>2, <2>3 DEF Stage
  <2>5. QED BY <2>4 DEF Moved
<1>5. QED BY <1>3, <1>4

LEMMA KillMoves ==
  ASSUME IInv, NEW k \in Jobs, StartKill \/ \E j \in Jobs : Kill(j) \/ KillAborts(j)
  PROVE  Moved(k)
<1>1. JobInv(k)
  BY DEF IInv
<1>2. sched[k] # "asked" /\ sched'[k] # "asked"
  BY <1>1 DEF StartKill, Kill, KillAborts, JobInv
<1>3. UNCHANGED <<answer, reported>> /\ (sched'[k] = "running" <=> sched[k] = "running")
  BY DEF StartKill, Kill, KillAborts
<1>4. Accepted(k)' <=> Accepted(k)
  BY <1>3 DEF Accepted
<1>5. Offer'[k] = Offer[k]
  BY <1>2, <1>3, <1>4, OfferValue, OfferNext DEF Stage
<1>6. QED BY <1>5 DEF Moved

LEMMA ContractStep == IInv /\ [Next]_vars => [Contract!Next]_Offer
<1> SUFFICES ASSUME IInv, [Next]_vars PROVE [Contract!Next]_Offer
  OBVIOUS
<1>1. ASSUME NEW k \in Jobs PROVE Moved(k)
  <2>1. CASE StartRound \/ PollAborts \/ EmitAborts \/ Close \/ UNCHANGED vars
             \/ \E j \in Jobs : \/ PollRunning(j) \/ PollExited(j) \/ PollTimesOut(j)
                                \/ PollFails(j) \/ ProcessExits(j)
    <3>1. UNCHANGED <<sched, reported, todo, answer>>
      BY <2>1 DEF StartRound, PollAborts, EmitAborts, Close, vars, PollRunning, PollExited,
         PollTimesOut, PollFails, Polled, ProcessExits, batchVars
    <3>2. QED BY <3>1, OfferKept DEF Moved, Accepted
  <2>2. QED BY <2>1, SubmitMoves, LaunchMoves, EmitMoves, HandlingMoves, KillMoves
            DEF Next, Going, Finished
<1>2. Offer' \in [Jobs -> Contract!Offer]
  <2>1. ASSUME NEW k \in Jobs PROVE Offer'[k] \in Contract!Offer
    BY OfferNext DEF Stage, Contract!Offer
  <2>2. Offer' = [k \in Jobs |-> Offer'[k]]
    BY DEF Offer
  <2>3. QED BY <2>1, <2>2
<1>3. QED BY <1>1, <1>2 DEF Moved, Contract!Next

LEMMA ContractInit == Init => Contract!Init
<1> SUFFICES ASSUME Init PROVE Contract!Init
  OBVIOUS
<1>1. ASSUME NEW j \in Jobs PROVE Offer[j] = "none"
  <2>1. Len(reported[j]) = 0 /\ ~Accepted(j) /\ sched[j] = "ready"
    BY NothingAtFirst DEF Init
  <2>2. QED BY <2>1, OfferValue DEF Stage
<1>2. Offer = [j \in Jobs |-> Offer[j]]
  BY DEF Offer
<1>3. QED BY <1>1, <1>2 DEF Contract!Init

(* Whatever fails, the adapter accepts or refuses only what it was handed, *)
(* and completes only what it accepted: the worst that failures add is a   *)
(* second completion, which the contract puts up with.                     *)
THEOREM AdapterKeepsContract == Spec => KeepsContract
<1>1. QED BY ContractInit, ContractStep, InvariantHolds, PTL DEF Spec, KeepsContract, Contract!Spec
=============================================================================
