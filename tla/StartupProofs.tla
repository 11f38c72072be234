--------------------------- MODULE StartupProofs ---------------------------
(***************************************************************************)
(* Proofs about Startup and the modules it is made of, for any dexes,      *)
(* pools, factories' logs, configurations and answers of the node.         *)
(*                                                                         *)
(* ScanInv is the scan's invariant: a cache file is the exact list of what *)
(* its dex has created up to the block it names, and so is the cache in    *)
(* memory up to the block before the next one to be asked for.  RegInv is  *)
(* hydration's: a registration is that of an entry of the list, which has  *)
(* each pool once, made of its own answers.  AuditInv relates what an      *)
(* audit has read to the block of its first tip.  PlanInv says of the      *)
(* layouts found so far that they are right for every pool of their kind.  *)
(*                                                                         *)
(* Lists made in a loop (InOrder, FlattenSeq, Fetch's halving) are         *)
(* recursive functions: the lemmas on each say first that the recursion    *)
(* has a solution and that any two agree, by induction, then unfold it.    *)
(***************************************************************************)
EXTENDS Startup, WellFoundedInduction, SequenceTheorems, FiniteSetTheorems, TLAPS

-----------------------------------------------------------------------------
(* Induction over the natural numbers, stated of a set: the library's      *)
(* theorems state it of an operator.                                        *)

\* A set of natural numbers that is not empty has a least member.
LEMMA LeastNumber ==
  ASSUME NEW T \in SUBSET Nat, T # {}
  PROVE  \E m \in T : \A n \in T : m <= n
<1> DEFINE R == {ss \in Nat \X Nat : ss[1] < ss[2]}
<1>1. IsWellFoundedOn(R, Nat)
  BY NatLessThanWellFounded, Zenon DEF OpToRel
<1>2. PICK m \in T : \A n \in T : ~ (<<n, m>> \in R)
  <2> HIDE DEF R
  <2>1. QED BY ONLY <1>1, WFMin, T \in SUBSET Nat, T # {}
<1>3. ASSUME NEW n \in T, n < m PROVE FALSE
  <2>1. <<n, m>> \in R BY <1>3
  <2>2. QED BY <1>2, <2>1
<1>4. QED BY <1>3

\* A set with zero and every successor has every natural number.
LEMMA Induction ==
  ASSUME NEW T, 0 \in T, \A n \in Nat : n \in T => n + 1 \in T
  PROVE  Nat \subseteq T
<1> SUFFICES ASSUME Nat \ T # {} PROVE FALSE OBVIOUS
<1>1. PICK m \in Nat \ T : \A n \in Nat \ T : m <= n
  BY LeastNumber
<1>2. m # 0 /\ m - 1 \in Nat /\ m - 1 \in T
  BY <1>1
<1>3. QED BY <1>2, m = (m - 1) + 1

-----------------------------------------------------------------------------
(* Members of a set of numbers in order.                                    *)

Steps(K, f, n) ==
  f = [i \in 0 .. n |->
        IF i = 0 THEN << >> ELSE IF i \in K THEN Append(f[i - 1], i) ELSE f[i - 1]]

LEMMA StepsAt ==
  ASSUME NEW K, NEW f, NEW n \in Nat, Steps(K, f, n), NEW i \in 0 .. n
  PROVE  f[i] = IF i = 0 THEN << >> ELSE IF i \in K THEN Append(f[i - 1], i) ELSE f[i - 1]
BY Zenon DEF Steps

\* The recursion has a solution for each n.
LEMMA StepsExist ==
  ASSUME NEW K
  PROVE  \A n \in Nat : \E f : Steps(K, f, n)
<1> DEFINE T == {n \in Nat : \E f : Steps(K, f, n)}
<1>1. 0 \in T
  <2>1. Steps(K, [i \in 0 .. 0 |-> << >>], 0) BY DEF Steps
  <2>2. QED BY <2>1
<1>2. ASSUME NEW n \in Nat, n \in T PROVE n + 1 \in T
  <2>1. PICK f : Steps(K, f, n) BY <1>2
  <2> DEFINE g == [i \in 0 .. n + 1 |->
                    IF i <= n THEN f[i]
                    ELSE IF i \in K THEN Append(f[i - 1], i) ELSE f[i - 1]]
  <2>2. Steps(K, g, n + 1)
    <3>1. ASSUME NEW i \in 0 .. n + 1
          PROVE  g[i] = IF i = 0 THEN << >> ELSE IF i \in K THEN Append(g[i - 1], i) ELSE g[i - 1]
      <4>1. CASE i = n + 1 BY <4>1
      <4>2. CASE i \in 0 .. n
        <5>1. g[i] = f[i] BY <4>2
        <5>2. i # 0 => g[i - 1] = f[i - 1] BY <4>2
        <5>3. QED BY <2>1, <4>2, <5>1, <5>2, StepsAt
      <4>3. QED BY <4>1, <4>2
    <3>2. QED BY <3>1, Zenon DEF Steps
  <2>3. QED BY <2>2
<1>3. QED
  <2> HIDE DEF T
  <2>1. Nat \subseteq T BY <1>1, <1>2, Induction
  <2>2. QED BY <2>1 DEF T

\* Two solutions agree where both are defined.
LEMMA StepsAgree ==
  ASSUME NEW K, NEW n \in Nat, NEW m \in Nat, n <= m, NEW f, NEW g,
         Steps(K, f, n), Steps(K, g, m)
  PROVE  f[n] = g[n]
<1> DEFINE T == {i \in Nat : i <= n => f[i] = g[i]}
<1>1. 0 \in T BY StepsAt
<1>2. ASSUME NEW i \in Nat, i \in T PROVE i + 1 \in T
  <2>1. SUFFICES ASSUME i + 1 <= n PROVE f[i + 1] = g[i + 1] OBVIOUS
  <2>2. f[i] = g[i] BY <1>2, <2>1
  <2>3. i + 1 \in 0 .. n /\ i + 1 \in 0 .. m /\ (i + 1) - 1 = i /\ i + 1 # 0 BY <2>1
  <2>4. f[i + 1] = IF i + 1 \in K THEN Append(f[i], i + 1) ELSE f[i] BY <2>3, StepsAt
  <2>5. g[i + 1] = IF i + 1 \in K THEN Append(g[i], i + 1) ELSE g[i] BY <2>3, StepsAt
  <2>6. QED BY <2>2, <2>4, <2>5
<1>3. Nat \subseteq T
  <2> HIDE DEF T
  <2>1. QED BY <1>1, <1>2, Induction
<1>4. QED BY <1>3

\* InOrder, one number more at a time.
LEMMA InOrderSteps ==
  ASSUME NEW K
  PROVE  /\ InOrder(K, 0) = << >>
         /\ \A n \in Nat :
              InOrder(K, n + 1) = IF n + 1 \in K THEN Append(InOrder(K, n), n + 1) ELSE InOrder(K, n)
<1> DEFINE F(n) == CHOOSE f : Steps(K, f, n)
<1>1. \A n \in Nat : Steps(K, F(n), n)
  BY StepsExist
<1>2. \A n \in Nat : InOrder(K, n) = F(n)[n]
  BY Zenon DEF InOrder, Steps
<1>3. ASSUME NEW n \in Nat PROVE F(n + 1)[n] = F(n)[n]
  <2> HIDE DEF F
  <2>1. QED BY <1>1, StepsAgree
<1> HIDE DEF F
<1>4. F(0)[0] = << >> BY <1>1, StepsAt
<1>5. ASSUME NEW n \in Nat
      PROVE F(n + 1)[n + 1] = IF n + 1 \in K THEN Append(F(n)[n], n + 1) ELSE F(n)[n]
  <2>1. n + 1 \in 0 .. n + 1 /\ n + 1 \in Nat /\ n + 1 # 0 /\ (n + 1) - 1 = n OBVIOUS
  <2>2. QED BY <1>1, <1>3, <2>1, StepsAt
<1>6. InOrder(K, 0) = << >> BY <1>2, <1>4
<1>7. ASSUME NEW n \in Nat
      PROVE InOrder(K, n + 1) = IF n + 1 \in K THEN Append(InOrder(K, n), n + 1) ELSE InOrder(K, n)
  <2>1. InOrder(K, n + 1) = F(n + 1)[n + 1] /\ InOrder(K, n) = F(n)[n] BY <1>2
  <2>2. QED BY <1>5, <2>1
<1>8. QED BY <1>6, <1>7

\* InOrder lists each member up to n once, in order.
LEMMA InOrderType ==
  ASSUME NEW K
  PROVE  \A n \in Nat :
           /\ InOrder(K, n) \in Seq(K \cap 1 .. n)
           /\ Range(InOrder(K, n)) = K \cap 1 .. n
           /\ \A i, j \in DOMAIN InOrder(K, n) : i < j => InOrder(K, n)[i] < InOrder(K, n)[j]
<1> DEFINE S(n) == InOrder(K, n)
           P(n) == /\ S(n) \in Seq(K \cap 1 .. n)
                   /\ Range(S(n)) = K \cap 1 .. n
                   /\ \A i, j \in DOMAIN S(n) : i < j => S(n)[i] < S(n)[j]
           T == {n \in Nat : P(n)}
<1>1. 0 \in T
  <2>1. S(0) = << >> BY InOrderSteps
  <2>2. Range(<< >>) = {} BY DEF Range
  <2>3. K \cap 1 .. 0 = {} OBVIOUS
  <2> HIDE DEF S
  <2>4. S(0) \in Seq(K \cap 1 .. 0)
    <3>1. \A U : << >> \in Seq(U) OBVIOUS
    <3>2. QED BY <2>1, <3>1, Zenon
  <2>5. Range(S(0)) = K \cap 1 .. 0 BY <2>1, <2>2, <2>3
  <2>6. \A i, j \in DOMAIN S(0) : i < j => S(0)[i] < S(0)[j] BY <2>1
  <2>7. QED BY <2>4, <2>5, <2>6
<1>2. ASSUME NEW n \in Nat, n \in T PROVE n + 1 \in T
  <2>1. S(n + 1) = IF n + 1 \in K THEN Append(S(n), n + 1) ELSE S(n)
    BY InOrderSteps
  <2>2. P(n) BY <1>2
  <2> HIDE DEF S
  <2>3. S(n) \in Seq(K \cap 1 .. n + 1) BY <2>2
  <2>4. CASE n + 1 \in K
    <3>1. S(n + 1) = Append(S(n), n + 1) BY <2>1, <2>4
    <3>2. S(n + 1) \in Seq(K \cap 1 .. n + 1) BY <2>3, <3>1, <2>4
    <3>3. /\ DOMAIN S(n + 1) = 1 .. Len(S(n)) + 1
          /\ \A i \in 1 .. Len(S(n)) : S(n + 1)[i] = S(n)[i]
          /\ S(n + 1)[Len(S(n)) + 1] = n + 1
          /\ Len(S(n)) \in Nat /\ DOMAIN S(n) = 1 .. Len(S(n))
      BY <2>3, <3>1, <2>4
    <3>4. Range(S(n + 1)) = Range(S(n)) \cup {n + 1}
      BY <3>3 DEF Range
    <3>5. \A i \in DOMAIN S(n) : S(n)[i] \in 1 .. n BY <2>2, <3>3
    <3>6. \A i, j \in DOMAIN S(n + 1) : i < j => S(n + 1)[i] < S(n + 1)[j]
      <4>1. TAKE i, j \in DOMAIN S(n + 1)
      <4>2. HAVE i < j
      <4>3. i \in DOMAIN S(n) /\ S(n + 1)[i] = S(n)[i] /\ S(n)[i] \in 1 .. n BY <3>3, <3>5, <4>2
      <4>4. CASE j \in DOMAIN S(n) BY <2>2, <3>3, <4>2, <4>3, <4>4
      <4>5. CASE j = Len(S(n)) + 1 BY <3>3, <4>3, <4>5
      <4>6. QED BY <3>3, <4>4, <4>5
    <3>7. QED BY <3>2, <3>4, <3>6, <2>2, <2>4
  <2>5. CASE n + 1 \notin K
    BY <2>1, <2>2, <2>3, <2>5
  <2>6. QED BY <2>4, <2>5
<1>3. QED
  <2> HIDE DEF T
  <2>1. Nat \subseteq T BY <1>1, <1>2, Induction
  <2>2. QED BY <2>1 DEF T

\* Only the members up to n matter.
LEMMA InOrderSame ==
  ASSUME NEW K, NEW L, NEW n \in Nat, K \cap 1 .. n = L \cap 1 .. n
  PROVE  InOrder(K, n) = InOrder(L, n)
<1> DEFINE T == {i \in Nat : i <= n => InOrder(K, i) = InOrder(L, i)}
<1>1. 0 \in T BY InOrderSteps
<1>2. ASSUME NEW i \in Nat, i \in T PROVE i + 1 \in T
  <2>1. SUFFICES ASSUME i + 1 <= n PROVE InOrder(K, i + 1) = InOrder(L, i + 1) OBVIOUS
  <2>2. InOrder(K, i) = InOrder(L, i) BY <1>2, <2>1
  <2>3. i + 1 \in K <=> i + 1 \in L
    <3>1. i + 1 \in 1 .. n BY <2>1
    <3>2. QED BY <3>1
  <2>4. QED BY <2>2, <2>3, InOrderSteps
<1>3. Nat \subseteq T
  <2> HIDE DEF T
  <2>1. QED BY <1>1, <1>2, Induction
<1>4. QED BY <1>3

LEMMA InOrderNone ==
  ASSUME NEW K, NEW n \in Nat, K \cap 1 .. n = {}
  PROVE  InOrder(K, n) = << >>
<1> DEFINE S == InOrder(K, n)
<1>1. S \in Seq(K \cap 1 .. n) BY InOrderType
<1> HIDE DEF S
<1>2. QED BY <1>1 DEF S

LEMMA ConcatAppend ==
  \A s, t \in Seq(Nat), x \in Nat : s \o Append(t, x) = Append(s \o t, x)
OBVIOUS

\* All of K comes before all of L.
LEMMA InOrderSplit ==
  ASSUME NEW K \in SUBSET Nat, NEW L \in SUBSET Nat, \A i \in K, j \in L : i < j
  PROVE  \A n \in Nat : InOrder(K \cup L, n) = InOrder(K, n) \o InOrder(L, n)
<1> DEFINE A(n) == InOrder(K, n)
           B(n) == InOrder(L, n)
           C(n) == InOrder(K \cup L, n)
           T == {n \in Nat : C(n) = A(n) \o B(n)}
<1>1. \A n \in Nat : A(n) \in Seq(Nat) /\ B(n) \in Seq(Nat)
  <2>1. ASSUME NEW n \in Nat PROVE A(n) \in Seq(Nat) /\ B(n) \in Seq(Nat)
    <3>1. A(n) \in Seq(K \cap 1 .. n) /\ B(n) \in Seq(L \cap 1 .. n) BY InOrderType
    <3>2. K \cap 1 .. n \subseteq Nat /\ L \cap 1 .. n \subseteq Nat OBVIOUS
    <3> HIDE DEF A, B
    <3>3. QED BY <3>1, <3>2
  <2>2. QED BY <2>1
<1>2. 0 \in T
  <2>1. A(0) = << >> /\ B(0) = << >> /\ C(0) = << >> BY InOrderSteps
  <2> HIDE DEF A, B, C
  <2>2. << >> \o << >> = << >> BY EmptySeq, ConcatEmptySeq
  <2>3. QED BY <2>1, <2>2
<1>3. ASSUME NEW n \in Nat, n \in T PROVE n + 1 \in T
  <2>1. /\ A(n + 1) = IF n + 1 \in K THEN Append(A(n), n + 1) ELSE A(n)
        /\ B(n + 1) = IF n + 1 \in L THEN Append(B(n), n + 1) ELSE B(n)
        /\ C(n + 1) = IF n + 1 \in K \cup L THEN Append(C(n), n + 1) ELSE C(n)
    BY InOrderSteps
  <2>2. C(n) = A(n) \o B(n) BY <1>3
  <2>3. A(n) \in Seq(Nat) /\ B(n) \in Seq(Nat) BY <1>1
  <2>4. CASE n + 1 \in K
    <3>1. L \cap 1 .. n = {} BY <2>4
    <3>2. B(n) = << >> BY <3>1, InOrderNone
    <3>3. n + 1 \notin L BY <2>4
    <3> HIDE DEF A, B, C
    <3>4. A(n) \o B(n) = A(n) BY <2>3, <3>2, ConcatEmptySeq
    <3>5. Append(A(n), n + 1) \in Seq(Nat) BY <2>3
    <3>6. Append(A(n), n + 1) \o << >> = Append(A(n), n + 1) BY <3>5, ConcatEmptySeq
    <3>7. C(n + 1) = A(n + 1) \o B(n + 1) BY <2>1, <2>2, <2>4, <3>2, <3>3, <3>4, <3>6
    <3>8. QED BY <3>7
  <2>5. CASE n + 1 \in L \ K
    <3> HIDE DEF A, B, C
    <3>1. A(n) \o Append(B(n), n + 1) = Append(A(n) \o B(n), n + 1)
      BY <2>3, ConcatAppend
    <3>2. QED BY <2>1, <2>2, <2>5, <3>1
  <2>6. CASE n + 1 \notin K \cup L
    <3> HIDE DEF A, B, C
    <3>1. QED BY <2>1, <2>2, <2>6
  <2>7. QED BY <2>4, <2>5, <2>6
<1>4. Nat \subseteq T
  <2> HIDE DEF T
  <2>1. QED BY <1>2, <1>3, Induction
<1>5. QED BY <1>4

Moved(s, n) == [j \in DOMAIN s |-> s[j] + n]

\* Moving a list by n, one element more at a time.
LEMMA MovedSteps ==
  ASSUME NEW s \in Seq(Nat), NEW n \in Nat
  PROVE  /\ Moved(s, n) \in Seq(Nat)
         /\ Moved(<< >>, n) = << >>
         /\ \A e \in Nat : Moved(Append(s, e), n) = Append(Moved(s, n), e + n)
<1>1. Moved(s, n) \in Seq(Nat) BY DEF Moved
<1>2. Moved(<< >>, n) = << >> BY DEF Moved
<1>3. ASSUME NEW e \in Nat PROVE Moved(Append(s, e), n) = Append(Moved(s, n), e + n)
  BY DEF Moved
<1>4. QED BY <1>1, <1>2, <1>3

LEMMA InOrderInNat ==
  ASSUME NEW K, NEW n \in Nat
  PROVE  InOrder(K, n) \in Seq(Nat)
<1>1. InOrder(K, n) \in Seq(K \cap 1 .. n) BY InOrderType
<1>2. K \cap 1 .. n \subseteq Nat OBVIOUS
<1>3. QED BY <1>1, <1>2, SeqMonotonic

\* The members after the n-th place are those of L, moved by n.
LEMMA InOrderShift ==
  ASSUME NEW K, NEW L, NEW n \in Nat, \A j \in Nat \ {0} : j + n \in K <=> j \in L
  PROVE  \A m \in Nat : InOrder(K, n + m) = InOrder(K, n) \o Moved(InOrder(L, m), n)
<1> DEFINE T == {m \in Nat : InOrder(K, n + m) = InOrder(K, n) \o Moved(InOrder(L, m), n)}
<1>1. 0 \in T
  <2>1. Moved(InOrder(L, 0), n) = << >> BY InOrderSteps, MovedSteps, EmptySeq, ZenonT(40)
  <2>2. InOrder(K, n) \o << >> = InOrder(K, n) BY InOrderInNat, ConcatEmptySeq
  <2>3. n + 0 = n OBVIOUS
  <2>4. QED BY <2>1, <2>2, <2>3
<1>2. ASSUME NEW m \in Nat, m \in T PROVE m + 1 \in T
  <2> DEFINE e == n + (m + 1)
  <2>0. InOrder(K, n + m) = InOrder(K, n) \o Moved(InOrder(L, m), n)
    BY <1>2
  <2>1. /\ e = (n + m) + 1 /\ (m + 1) + n = e
        /\ n + m \in Nat /\ m + 1 \in Nat \ {0} /\ e \in Nat
    OBVIOUS
  <2> HIDE DEF e, T
  <2>2. InOrder(K, e) =
          IF e \in K THEN Append(InOrder(K, n + m), e) ELSE InOrder(K, n + m)
    BY <2>1, InOrderSteps
  <2>3. InOrder(L, m + 1) = IF m + 1 \in L THEN Append(InOrder(L, m), m + 1) ELSE InOrder(L, m)
    BY InOrderSteps
  <2>4. e \in K <=> m + 1 \in L BY <2>1
  <2>5. InOrder(K, n) \in Seq(Nat) /\ InOrder(L, m) \in Seq(Nat) BY InOrderInNat
  <2>6. CASE m + 1 \in L
    <3>1. Moved(InOrder(L, m + 1), n) = Append(Moved(InOrder(L, m), n), e)
      <4>1. Moved(Append(InOrder(L, m), m + 1), n) = Append(Moved(InOrder(L, m), n), (m + 1) + n)
        BY <2>1, <2>5, MovedSteps, Zenon
      <4>2. QED BY <2>1, <2>3, <2>6, <4>1, Zenon
    <3>2. Moved(InOrder(L, m), n) \in Seq(Nat) BY <2>5, MovedSteps
    <3>3. InOrder(K, n) \o Append(Moved(InOrder(L, m), n), e)
            = Append(InOrder(K, n) \o Moved(InOrder(L, m), n), e)
      <4>1. e \in Nat BY <2>1
      <4>2. QED BY <4>1, <2>5, <3>2, ConcatAppend, Zenon
    <3>4. QED BY <2>0, <2>1, <2>2, <2>4, <2>6, <3>1, <3>3 DEF e, T
  <2>7. CASE m + 1 \notin L
    BY <2>0, <2>1, <2>2, <2>3, <2>4, <2>7 DEF e, T
  <2>8. QED BY <2>6, <2>7
<1>3. Nat \subseteq T
  <2> HIDE DEF T
  <2>1. QED BY <1>1, <1>2, Induction
<1>4. QED BY <1>3


-----------------------------------------------------------------------------
(* FlattenSeq, one sequence more at a time.                                 *)

FlatSteps(ss, f, n) ==
  f = [i \in 1 .. n |-> IF i = 1 THEN ss[i] ELSE f[i - 1] \o ss[i]]

LEMMA FlatStepsAt ==
  ASSUME NEW ss, NEW f, NEW n \in Nat, FlatSteps(ss, f, n), NEW i \in 1 .. n
  PROVE  f[i] = IF i = 1 THEN ss[i] ELSE f[i - 1] \o ss[i]
BY Zenon DEF FlatSteps

\* The recursion of FlattenSeq has a solution ...
LEMMA FlatStepsExist ==
  ASSUME NEW ss
  PROVE  \A n \in Nat : \E f : FlatSteps(ss, f, n)
<1> DEFINE T == {n \in Nat : \E f : FlatSteps(ss, f, n)}
<1>1. 0 \in T
  <2>1. FlatSteps(ss, [i \in 1 .. 0 |-> << >>], 0) BY DEF FlatSteps
  <2>2. QED BY <2>1
<1>2. ASSUME NEW n \in Nat, n \in T PROVE n + 1 \in T
  <2>1. PICK f : FlatSteps(ss, f, n) BY <1>2
  <2> DEFINE g == [i \in 1 .. n + 1 |->
                    IF i <= n THEN f[i] ELSE IF i = 1 THEN ss[i] ELSE f[i - 1] \o ss[i]]
  <2>2. FlatSteps(ss, g, n + 1)
    <3>1. ASSUME NEW i \in 1 .. n + 1
          PROVE  g[i] = IF i = 1 THEN ss[i] ELSE g[i - 1] \o ss[i]
      <4>1. CASE i = n + 1 BY <4>1
      <4>2. CASE i \in 1 .. n
        <5>1. g[i] = f[i] BY <4>2
        <5>2. i # 1 => g[i - 1] = f[i - 1] BY <4>2
        <5>3. QED BY <2>1, <4>2, <5>1, <5>2, FlatStepsAt
      <4>3. QED BY <4>1, <4>2
    <3>2. QED BY <3>1, Zenon DEF FlatSteps
  <2>3. QED BY <2>2
<1>3. QED
  <2> HIDE DEF T
  <2>1. Nat \subseteq T BY <1>1, <1>2, Induction
  <2>2. QED BY <2>1 DEF T

\* ... and any two agree, also on a longer list that begins the same.
LEMMA FlatStepsAgree ==
  ASSUME NEW ss, NEW tt, NEW n \in Nat, NEW m \in Nat, n <= m, NEW f, NEW g,
         \A i \in 1 .. n : ss[i] = tt[i],
         FlatSteps(ss, f, n), FlatSteps(tt, g, m)
  PROVE  \A i \in 1 .. n : f[i] = g[i]
<1> DEFINE T == {i \in Nat : i \in 1 .. n => f[i] = g[i]}
<1>1. 0 \in T OBVIOUS
<1>2. ASSUME NEW i \in Nat, i \in T PROVE i + 1 \in T
  <2>1. SUFFICES ASSUME i + 1 <= n PROVE f[i + 1] = g[i + 1] OBVIOUS
  <2>2. i + 1 \in 1 .. n /\ i + 1 \in 1 .. m /\ (i + 1) - 1 = i /\ ss[i + 1] = tt[i + 1] BY <2>1
  <2>3. f[i + 1] = IF i + 1 = 1 THEN ss[i + 1] ELSE f[i] \o ss[i + 1] BY <2>2, FlatStepsAt
  <2>4. g[i + 1] = IF i + 1 = 1 THEN tt[i + 1] ELSE g[i] \o tt[i + 1] BY <2>2, FlatStepsAt
  <2>5. i + 1 # 1 => f[i] = g[i] BY <1>2, <2>1
  <2>6. QED BY <2>2, <2>3, <2>4, <2>5
<1>3. Nat \subseteq T
  <2> HIDE DEF T
  <2>1. QED BY <1>1, <1>2, Induction
<1>4. QED BY <1>3

\* A list with one sequence more is flattened to one with that sequence appended.
LEMMA FlattenSteps ==
  ASSUME NEW n \in Nat, NEW ss, DOMAIN ss = 1 .. n + 1, ss \in Seq(Range(ss)),
         NEW tt, DOMAIN tt = 1 .. n, tt \in Seq(Range(tt)),
         \A i \in 1 .. n : tt[i] = ss[i]
  PROVE  FlattenSeq(ss) = IF n = 0 THEN ss[1] ELSE FlattenSeq(tt) \o ss[n + 1]
<1> DEFINE f == CHOOSE f : FlatSteps(ss, f, n + 1)
           g == CHOOSE g : FlatSteps(tt, g, n)
<1>1. Len(ss) = n + 1 /\ Len(tt) = n OBVIOUS
<1>2. FlattenSeq(ss) = f[n + 1]
  <2>1. Len(ss) # 0 BY <1>1
  <2>2. FlattenSeq(ss) = (CHOOSE h : FlatSteps(ss, h, Len(ss)))[Len(ss)]
    BY <2>1, Zenon DEF FlattenSeq, FlatSteps
  <2>3. QED BY <1>1, <2>2, Zenon
<1>3. n # 0 => FlattenSeq(tt) = g[n]
  <2>1. ASSUME n # 0 PROVE FlattenSeq(tt) = (CHOOSE h : FlatSteps(tt, h, Len(tt)))[Len(tt)]
    <3>1. Len(tt) # 0 BY <1>1, <2>1
    <3>2. QED BY <3>1, Zenon DEF FlattenSeq, FlatSteps
  <2>2. QED BY <1>1, <2>1, Zenon
<1>4. FlatSteps(ss, f, n + 1)
  <2>1. n + 1 \in Nat OBVIOUS
  <2>2. \E h : FlatSteps(ss, h, n + 1) BY <2>1, FlatStepsExist, Zenon
  <2>3. QED BY <2>2, Zenon
<1>5. FlatSteps(tt, g, n) BY FlatStepsExist, Zenon
<1> HIDE DEF f, g
<1>6. n + 1 \in 1 .. n + 1 /\ (n + 1) - 1 = n /\ n <= n + 1 OBVIOUS
<1>7. f[n + 1] = IF n + 1 = 1 THEN ss[n + 1] ELSE f[n] \o ss[n + 1]
  BY <1>4, <1>6, FlatStepsAt
<1>8. \A i \in 1 .. n : g[i] = f[i]
  BY <1>4, <1>5, <1>6, FlatStepsAgree, SMTT(30)
<1>9. QED BY <1>2, <1>3, <1>7, <1>8


-----------------------------------------------------------------------------
(* What a range of blocks has created.                                      *)

LEMMA InOrderBound ==
  ASSUME NEW K, NEW n \in Nat
  PROVE  /\ InOrder(K, n) \in Seq(K \cap 1 .. n)
         /\ DOMAIN InOrder(K, n) = 1 .. Len(InOrder(K, n))
         /\ Len(InOrder(K, n)) \in Nat
         /\ \A i \in DOMAIN InOrder(K, n) : InOrder(K, n)[i] \in K \cap 1 .. n
<1>1. InOrder(K, n) \in Seq(K \cap 1 .. n) BY InOrderType
<1> DEFINE s == InOrder(K, n)
           U == K \cap 1 .. n
<1> HIDE DEF s, U
<1>2. s \in Seq(U) BY <1>1 DEF s, U
<1>3. DOMAIN s = 1 .. Len(s) /\ Len(s) \in Nat /\ \A i \in DOMAIN s : s[i] \in U BY <1>2
<1>4. QED BY <1>2, <1>3 DEF s, U

\* What logs has at the places p names, in p's order.
Through(p, logs) == [m \in DOMAIN p |-> logs[p[m]]]

LEMMA Elements ==
  ASSUME NEW S, NEW s \in Seq(S)
  PROVE  DOMAIN s = 1 .. Len(s) /\ Len(s) \in Nat /\ \A i \in DOMAIN s : s[i] \in S
OBVIOUS

LEMMA ThroughType ==
  ASSUME NEW S, NEW p \in Seq(Nat), NEW logs, \A i \in DOMAIN p : logs[p[i]] \in S
  PROVE  Through(p, logs) \in Seq(S) /\ Len(Through(p, logs)) = Len(p)
<1>1. DOMAIN p = 1 .. Len(p) /\ Len(p) \in Nat OBVIOUS
<1>2. QED BY <1>1 DEF Through

LEMMA Elementwise ==
  ASSUME NEW S, NEW s \in Seq(S), NEW t \in Seq(S)
  PROVE  /\ s \o t \in Seq(S)
         /\ Len(s \o t) = Len(s) + Len(t)
         /\ \A i \in 1 .. Len(s) + Len(t) : (s \o t)[i] = IF i <= Len(s) THEN s[i] ELSE t[i - Len(s)]
OBVIOUS

\* The elements at two lists of places are those at the first, then the second.
LEMMA ThroughConcat ==
  ASSUME NEW p \in Seq(Nat), NEW q \in Seq(Nat), NEW logs
  PROVE  Through(p \o q, logs) = Through(p, logs) \o Through(q, logs)
<1> DEFINE S == {logs[p[i]] : i \in 1 .. Len(p)} \cup {logs[q[i]] : i \in 1 .. Len(q)}
           r == p \o q
<1>1. /\ DOMAIN p = 1 .. Len(p) /\ Len(p) \in Nat
      /\ DOMAIN q = 1 .. Len(q) /\ Len(q) \in Nat
      /\ DOMAIN r = 1 .. Len(p) + Len(q)
      /\ \A i \in 1 .. Len(p) + Len(q) : r[i] = IF i <= Len(p) THEN p[i] ELSE q[i - Len(p)]
  OBVIOUS
<1>2. /\ \A i \in DOMAIN p : logs[p[i]] \in S
      /\ \A i \in DOMAIN q : logs[q[i]] \in S
      /\ r \in Seq(Nat) /\ Len(r) = Len(p) + Len(q)
  <2>1. \A i \in DOMAIN p : logs[p[i]] \in S BY <1>1
  <2>2. \A i \in DOMAIN q : logs[q[i]] \in S BY <1>1
  <2>3. r \in Seq(Nat) /\ Len(r) = Len(p) + Len(q) OBVIOUS
  <2>4. QED BY <2>1, <2>2, <2>3
<1> HIDE DEF S, r
<1>3. Through(p, logs) \in Seq(S) /\ Len(Through(p, logs)) = Len(p)
  BY <1>2, ThroughType, Zenon
<1>4. Through(q, logs) \in Seq(S) /\ Len(Through(q, logs)) = Len(q)
  BY <1>2, ThroughType, Zenon
<1>5. \A i \in 1 .. Len(p) + Len(q) :
        logs[r[i]] = IF i <= Len(p) THEN Through(p, logs)[i] ELSE Through(q, logs)[i - Len(p)]
  <2>1. TAKE i \in 1 .. Len(p) + Len(q)
  <2>2. CASE i <= Len(p)
    <3>1. i \in 1 .. Len(p) BY <1>1, <2>2
    <3>2. QED BY <1>1, <2>2, <3>1 DEF Through
  <2>3. CASE ~ (i <= Len(p))
    <3>1. i - Len(p) \in 1 .. Len(q) BY <1>1, <2>3
    <3>2. QED BY <1>1, <2>3, <3>1 DEF Through
  <2>4. QED BY <2>2, <2>3
<1>6. /\ Through(p, logs) \o Through(q, logs) \in Seq(S)
      /\ Len(Through(p, logs) \o Through(q, logs)) = Len(p) + Len(q)
      /\ \A i \in 1 .. Len(p) + Len(q) :
           (Through(p, logs) \o Through(q, logs))[i]
             = IF i <= Len(p) THEN Through(p, logs)[i] ELSE Through(q, logs)[i - Len(p)]
  <2> DEFINE u == Through(p, logs)
             v == Through(q, logs)
  <2> HIDE DEF u, v
  <2>1. u \in Seq(S) /\ v \in Seq(S) /\ Len(u) = Len(p) /\ Len(v) = Len(q)
    BY <1>3, <1>4 DEF u, v
  <2>2. /\ u \o v \in Seq(S)
        /\ Len(u \o v) = Len(p) + Len(q)
        /\ \A i \in 1 .. Len(p) + Len(q) : (u \o v)[i] = IF i <= Len(p) THEN u[i] ELSE v[i - Len(p)]
    <3>1. /\ u \o v \in Seq(S)
          /\ Len(u \o v) = Len(u) + Len(v)
          /\ \A i \in 1 .. Len(u) + Len(v) :
               (u \o v)[i] = IF i <= Len(u) THEN u[i] ELSE v[i - Len(u)]
      BY <2>1, Elementwise, Zenon
    <3>2. QED BY <2>1, <3>1
  <2>3. QED BY <2>2 DEF u, v
<1>7. \A i \in 1 .. Len(p) + Len(q) : logs[r[i]] \in S
  <2>1. TAKE i \in 1 .. Len(p) + Len(q)
  <2>2. (Through(p, logs) \o Through(q, logs))[i] \in S
    BY <1>1, <1>6, Elements
  <2>3. QED BY <1>5, <1>6, <2>2
<1>8. Through(r, logs) \in Seq(S) /\ Len(Through(r, logs)) = Len(p) + Len(q)
  <2>1. \A i \in DOMAIN r : logs[r[i]] \in S BY <1>1, <1>7
  <2>2. QED BY <1>2, <2>1, ThroughType
<1>9. \A i \in 1 .. Len(p) + Len(q) : Through(r, logs)[i] = logs[r[i]]
  BY <1>1 DEF Through
<1>10. Through(r, logs) = Through(p, logs) \o Through(q, logs)
  <2> DEFINE u == Through(r, logs)
             v == Through(p, logs) \o Through(q, logs)
  <2>1. u \in Seq(S) /\ v \in Seq(S) /\ Len(u) = Len(p) + Len(q) /\ Len(v) = Len(p) + Len(q)
    BY <1>6, <1>8
  <2>2. \A i \in 1 .. Len(p) + Len(q) : u[i] = v[i]
    BY <1>5, <1>6, <1>9, Zenon
  <2> HIDE DEF u, v
  <2>3. Len(u) = Len(v) /\ \A i \in 1 .. Len(u) : u[i] = v[i]
    BY <2>1, <2>2
  <2>4. u = v
    BY <2>1, <2>3, SeqEqual, Zenon
  <2>5. QED BY <2>4 DEF u, v
<1>11. QED BY <1>10 DEF r

LogsOf == Seq([block : Nat, pool : Pools])

PlacesIn(name, a, b) ==
  {n \in DOMAIN Created[name] : a <= Created[name][n].block /\ Created[name][n].block <= b}

\* The creation logs of a range, as the elements at the places of its blocks.
LEMMA CreatedThrough ==
  ASSUME NEW name, NEW a, NEW b
  PROVE  CreatedIn(name, a, b)
           = Through(InOrder(PlacesIn(name, a, b), Len(Created[name])), Created[name])
BY Zenon DEF CreatedIn, Select, Some, Through, PlacesIn

LEMMA LogsType ==
  ASSUME NEW name \in Names
  PROVE  /\ Created[name] \in LogsOf
         /\ DOMAIN Created[name] = 1 .. Len(Created[name]) /\ Len(Created[name]) \in Nat
         /\ \A n \in DOMAIN Created[name] : Created[name][n].block \in Nat
         /\ \A i, j \in DOMAIN Created[name] :
              i < j => Created[name][i].block <= Created[name][j].block
<1>1. Created[name] \in LogsOf
  BY DiscoveryAssumption DEF DiscoveryAssumption, LogsOf
<1>2. \A i, j \in DOMAIN Created[name] :
         i < j => Created[name][i].block <= Created[name][j].block
  BY DiscoveryAssumption DEF DiscoveryAssumption
<1> DEFINE logs == Created[name]
<1> HIDE DEF logs
<1>3. logs \in Seq([block : Nat, pool : Pools]) BY <1>1 DEF logs, LogsOf
<1>4. /\ DOMAIN logs = 1 .. Len(logs) /\ Len(logs) \in Nat
      /\ \A n \in DOMAIN logs : logs[n] \in [block : Nat, pool : Pools]
  BY <1>3, Elements
<1>5. QED BY <1>1, <1>2, <1>4 DEF logs

LEMMA CreatedType ==
  ASSUME NEW name \in Names, NEW a, NEW b
  PROVE  CreatedIn(name, a, b) \in LogsOf
<1> DEFINE K == PlacesIn(name, a, b)
           p == InOrder(K, Len(Created[name]))
<1>1. Created[name] \in LogsOf /\ Len(Created[name]) \in Nat /\ K \subseteq DOMAIN Created[name]
  BY LogsType DEF PlacesIn
<1>2. DOMAIN p = 1 .. Len(p) /\ Len(p) \in Nat /\ \A i \in DOMAIN p : p[i] \in K
  <2> HIDE DEF K
  <2>1. QED BY <1>1, InOrderBound
<1>9. p \in Seq(Nat) BY <1>1, InOrderInNat
<1>3. CreatedIn(name, a, b) = Through(p, Created[name]) BY CreatedThrough
<1> DEFINE logs == Created[name]
<1> HIDE DEF K, p, logs
<1>4. logs \in Seq([block : Nat, pool : Pools]) /\ \A i \in 1 .. Len(p) : p[i] \in DOMAIN logs
  BY <1>1, <1>2 DEF logs, LogsOf
<1>5. \A i \in 1 .. Len(p) : logs[p[i]] \in [block : Nat, pool : Pools]
  BY <1>4, Elements
<1>6. Through(p, logs) \in Seq([block : Nat, pool : Pools])
  BY <1>2, <1>5, <1>9, ThroughType
<1>7. QED BY <1>3, <1>6 DEF logs, LogsOf

\* A range is its two parts, one after the other.
LEMMA CreatedSplit ==
  ASSUME NEW name \in Names, NEW a \in Nat, NEW mid \in Int, NEW b \in Nat,
         a <= mid + 1, mid <= b
  PROVE  CreatedIn(name, a, b) = CreatedIn(name, a, mid) \o CreatedIn(name, mid + 1, b)
<1> DEFINE logs == Created[name]
           K == PlacesIn(name, a, mid)
           M == PlacesIn(name, mid + 1, b)
           n == Len(logs)
<1>1. /\ DOMAIN logs = 1 .. n /\ n \in Nat
      /\ \A i \in DOMAIN logs : logs[i].block \in Nat
      /\ \A i, j \in DOMAIN logs : i < j => logs[i].block <= logs[j].block
  BY LogsType
<1>2. PlacesIn(name, a, b) = K \cup M
  BY <1>1 DEF PlacesIn
<1>3. K \in SUBSET Nat /\ M \in SUBSET Nat
  BY <1>1 DEF PlacesIn
<1>4. \A i \in K, j \in M : i < j
  <2>1. TAKE i \in K, j \in M
  <2>2. i \in DOMAIN logs /\ j \in DOMAIN logs /\ logs[i].block < logs[j].block
    BY <1>1 DEF PlacesIn
  <2>3. i \in Nat /\ j \in Nat BY <1>3
  <2>4. i # j BY <1>1, <2>2
  <2>5. ~ j < i BY <1>1, <2>2
  <2>6. QED BY <2>3, <2>4, <2>5
<1>5. InOrder(PlacesIn(name, a, b), n) = InOrder(K, n) \o InOrder(M, n)
  <2> HIDE DEF K, M, n
  <2>1. InOrder(K \cup M, n) = InOrder(K, n) \o InOrder(M, n)
    BY <1>1, <1>3, <1>4, InOrderSplit, Zenon
  <2>2. QED BY <1>2, <2>1, Zenon
<1>6. InOrder(K, n) \in Seq(Nat) /\ InOrder(M, n) \in Seq(Nat)
  BY <1>1, InOrderInNat
<1>7. Through(InOrder(K, n) \o InOrder(M, n), logs)
        = Through(InOrder(K, n), logs) \o Through(InOrder(M, n), logs)
  BY <1>6, ThroughConcat, Zenon
<1>8. QED BY <1>5, <1>7, CreatedThrough, Zenon

\* The places of logs whose pools dex d may list.
Wanted(d, logs) == {n \in DOMAIN logs : d.kind = "v4" => PoolFromKey(logs[n].pool)}

DecodedAt(d, logs) == [n \in DOMAIN logs |-> Decoded(d, logs[n].pool)]

\* What a dex accepts of some logs, as the pools decoded at the wanted places.
LEMMA AcceptedThrough ==
  ASSUME NEW d, NEW logs \in LogsOf
  PROVE  Accepted(d, logs) = Through(InOrder(Wanted(d, logs), Len(logs)), DecodedAt(d, logs))
<1> DEFINE p == InOrder(Wanted(d, logs), Len(logs))
<1>1. Accepted(d, logs) = [m \in DOMAIN p |-> Decoded(d, logs[p[m]].pool)]
  BY Zenon DEF Accepted, Some, Wanted
<1>2. Len(logs) \in Nat BY DEF LogsOf
<1>3. \A m \in DOMAIN p : p[m] \in Wanted(d, logs)
  <2>1. \A K : \A n \in Nat : \A m \in DOMAIN InOrder(K, n) : InOrder(K, n)[m] \in K
    BY InOrderBound
  <2>2. QED BY <1>2, <2>1
<1>4. \A m \in DOMAIN p : p[m] \in DOMAIN logs BY <1>3 DEF Wanted
<1> HIDE DEF p
<1>5. \A m \in DOMAIN p : DecodedAt(d, logs)[p[m]] = Decoded(d, logs[p[m]].pool)
  BY <1>4, Zenon DEF DecodedAt
<1>6. Through(p, DecodedAt(d, logs)) = [m \in DOMAIN p |-> Decoded(d, logs[p[m]].pool)]
  BY <1>5, Zenon DEF Through
<1>7. QED BY <1>1, <1>6 DEF p

\* A dex accepts of two lists what it accepts of the first, then of the second.
LEMMA AcceptedConcat ==
  ASSUME NEW d, NEW s \in LogsOf, NEW t \in LogsOf
  PROVE  /\ s \o t \in LogsOf
         /\ Accepted(d, s \o t) = Accepted(d, s) \o Accepted(d, t)
<1> DEFINE R == [block : Nat, pool : Pools]
           r == s \o t
           K == Wanted(d, r)
           L == Wanted(d, t)
           n == Len(s)
           m == Len(t)
<1>1. s \in Seq(R) /\ t \in Seq(R) BY DEF LogsOf
<1> HIDE DEF R
<1>2. /\ n \in Nat /\ DOMAIN s = 1 .. n
      /\ m \in Nat /\ DOMAIN t = 1 .. m
      /\ r \in Seq(R) /\ Len(r) = n + m /\ DOMAIN r = 1 .. n + m
      /\ \A i \in 1 .. n : r[i] = s[i]
      /\ \A i \in 1 .. m : r[n + i] = t[i]
  BY <1>1
<1>3. r \in LogsOf BY <1>2 DEF R, LogsOf
<1> HIDE DEF r, n, m
<1>4. K \cap 1 .. n = Wanted(d, s) \cap 1 .. n
  BY <1>2 DEF Wanted
<1>5. \A j \in Nat \ {0} : j + n \in K <=> j \in L
  <2>1. TAKE j \in Nat \ {0}
  <2>2. CASE j \in 1 .. m
    <3>1. j + n \in 1 .. n + m /\ j + n = n + j BY <1>2, <2>2
    <3>2. r[j + n] = t[j] BY <1>2, <2>2, <3>1
    <3>3. QED BY <1>2, <2>2, <3>1, <3>2 DEF Wanted
  <2>3. CASE j \notin 1 .. m
    <3>1. j + n \notin 1 .. n + m BY <1>2, <2>3
    <3>2. QED BY <1>2, <2>3, <3>1 DEF Wanted
  <2>4. QED BY <2>2, <2>3
<1> DEFINE p == InOrder(Wanted(d, s), n)
           q == InOrder(L, m)
           v == Moved(q, n)
           f == DecodedAt(d, r)
<1>6. InOrder(K, n + m) = p \o v
  <2>1. InOrder(K, n) = p BY <1>2, <1>4, InOrderSame
  <2> HIDE DEF K, L, p, q, v
  <2>2. InOrder(K, n + m) = InOrder(K, n) \o Moved(InOrder(L, m), n)
    BY <1>2, <1>5, InOrderShift
  <2>3. QED BY <2>1, <2>2 DEF q, v
<1>7. p \in Seq(Nat) /\ q \in Seq(Nat)
  BY <1>2, InOrderInNat
<1>8. v \in Seq(Nat) BY <1>2, <1>7, MovedSteps
<1>9. \A i \in DOMAIN p : p[i] \in 1 .. n
  BY <1>2, InOrderBound
<1>10. \A i \in DOMAIN q : q[i] \in 1 .. m
  BY <1>2, InOrderBound
<1> HIDE DEF K, L, p, q
<1>11. DOMAIN v = DOMAIN q /\ \A i \in DOMAIN q : v[i] = n + q[i]
  <2>1. DOMAIN v = DOMAIN q /\ \A i \in DOMAIN q : v[i] = q[i] + n BY DEF Moved
  <2>2. \A i \in DOMAIN q : q[i] + n = n + q[i] BY <1>2, <1>10
  <2>3. QED BY <2>1, <2>2
<1> HIDE DEF v
<1>12. Through(p, f) = Through(p, DecodedAt(d, s))
  <2>1. \A i \in DOMAIN p : f[p[i]] = DecodedAt(d, s)[p[i]]
    BY <1>2, <1>9 DEF DecodedAt
  <2>2. QED BY <2>1, Zenon DEF Through
<1>13. Through(v, f) = Through(q, DecodedAt(d, t))
  <2>1. \A i \in DOMAIN q : f[v[i]] = DecodedAt(d, t)[q[i]]
    <3>1. TAKE i \in DOMAIN q
    <3>2. v[i] = n + q[i] /\ q[i] \in 1 .. m BY <1>10, <1>11
    <3>3. r[n + q[i]] = t[q[i]] /\ n + q[i] \in 1 .. n + m BY <1>2, <3>2
    <3>4. QED BY <1>2, <3>2, <3>3 DEF DecodedAt
  <2>2. QED BY <1>11, <2>1, Zenon DEF Through
<1>14. Accepted(d, r) = Through(p \o v, f)
  BY <1>2, <1>3, <1>6, AcceptedThrough DEF K
<1>15. Accepted(d, s) = Through(p, DecodedAt(d, s)) /\ Accepted(d, t) = Through(q, DecodedAt(d, t))
  BY AcceptedThrough DEF p, q, L, n, m
<1>16. Through(p \o v, f) = Through(p, f) \o Through(v, f)
  BY <1>7, <1>8, ThroughConcat
<1>17. Accepted(d, r) = Accepted(d, s) \o Accepted(d, t)
  BY <1>12, <1>13, <1>14, <1>15, <1>16, Zenon
<1>18. QED BY <1>3, <1>17 DEF r

-----------------------------------------------------------------------------
(* Fetch: halving a range that is refused.                                  *)

Mid(x, y) == x + (y - x) \div 2

\* An answer for each part makes one for the whole.
Joined(F, G) == {a \o b : a \in F, b \in G}

\* One unfolding of Fetch's recursion at <<x, y>>.
Halved(name, refused, f, x, y) ==
  IF <<x, y>> \notin refused THEN {CreatedIn(name, x, y)}
  ELSE IF x >= y THEN {}
  ELSE Joined(f[<<x, Mid(x, y)>>], f[<<Mid(x, y) + 1, y>>])

LEMMA MidBetween ==
  ASSUME NEW a \in Int, NEW b \in Int, NEW x \in a .. b, NEW y \in a .. b, x < y
  PROVE  /\ Mid(x, y) \in a .. b /\ Mid(x, y) + 1 \in a .. b
         /\ x <= Mid(x, y) /\ Mid(x, y) < y
BY DEF Mid

Halvings(name, refused, f, from, to) ==
  f = [r \in (from .. to) \X (from .. to) |->
        IF r \notin refused THEN {CreatedIn(name, r[1], r[2])}
        ELSE IF r[1] >= r[2] THEN {}
        ELSE Joined(f[<<r[1], Mid(r[1], r[2])>>], f[<<Mid(r[1], r[2]) + 1, r[2]>>])]

\* Equal on the ranges narrower than w.
Alike(f, g, from, to, w) == \A x, y \in from .. to : y < x + w => f[<<x, y>>] = g[<<x, y>>]

\* Solved for the ranges narrower than w.
Narrow(name, refused, f, from, to, w) ==
  \A x, y \in from .. to : y < x + w => f[<<x, y>>] = Halved(name, refused, f, x, y)

\* A range is answered from narrower ranges only.
LEMMA HalvedSame ==
  ASSUME NEW name, NEW refused, NEW from \in Nat, NEW to \in Nat, NEW w \in Nat, NEW f, NEW g,
         Alike(f, g, from, to, w),
         NEW x \in from .. to, NEW y \in from .. to, y <= x + w
  PROVE  Halved(name, refused, f, x, y) = Halved(name, refused, g, x, y)
<1>1. CASE x >= y BY <1>1 DEF Halved
<1>2. CASE x < y
  <2> DEFINE m == Mid(x, y)
  <2>1. m \in from .. to /\ m + 1 \in from .. to /\ x <= m /\ m < y BY <1>2 DEF Mid
  <2> HIDE DEF m
  <2>2. m < x + w /\ y < (m + 1) + w BY <2>1
  <2>3. f[<<x, m>>] = g[<<x, m>>] /\ f[<<m + 1, y>>] = g[<<m + 1, y>>]
    BY <2>1, <2>2 DEF Alike
  <2>4. ~ (x >= y) BY <1>2
  <2>5. Joined(f[<<x, m>>], f[<<m + 1, y>>]) = Joined(g[<<x, m>>], g[<<m + 1, y>>])
    BY <2>3, Zenon
  <2> USE DEF m
  <2>6. CASE <<x, y>> \in refused
    BY <2>4, <2>5, <2>6 DEF Halved
  <2>7. CASE <<x, y>> \notin refused
    BY <2>7 DEF Halved
  <2>8. QED BY <2>6, <2>7
<1>3. QED BY <1>1, <1>2

\* Solutions for ranges of growing width.
LEMMA NarrowExists ==
  ASSUME NEW name, NEW refused, NEW from \in Nat, NEW to \in Nat
  PROVE  \A w \in Nat : \E f : /\ DOMAIN f = (from .. to) \X (from .. to)
                               /\ f = [r \in DOMAIN f |-> f[r]]
                               /\ Narrow(name, refused, f, from, to, w)
<1> DEFINE D == (from .. to) \X (from .. to)
           IsFun(f) == DOMAIN f = D /\ f = [r \in DOMAIN f |-> f[r]]
           T == {w \in Nat : \E f : IsFun(f) /\ Narrow(name, refused, f, from, to, w)}
<1>1. 0 \in T
  <2> DEFINE f == [r \in D |-> IF r \notin refused THEN {CreatedIn(name, r[1], r[2])} ELSE {}]
  <2>1. IsFun(f) OBVIOUS
  <2>2. ASSUME NEW x \in from .. to, NEW y \in from .. to, y < x + 0
        PROVE  f[<<x, y>>] = Halved(name, refused, f, x, y)
    <3>1. x >= y BY <2>2
    <3>2. QED BY <3>1 DEF Halved
  <2>3. Narrow(name, refused, f, from, to, 0) BY <2>2, Zenon DEF Narrow
  <2>4. QED BY <2>1, <2>3
<1>2. ASSUME NEW w \in Nat, w \in T PROVE w + 1 \in T
  <2>1. PICK f : IsFun(f) /\ Narrow(name, refused, f, from, to, w) BY <1>2
  <2> DEFINE g == [r \in D |-> IF r[2] < r[1] + w THEN f[r] ELSE Halved(name, refused, f, r[1], r[2])]
  <2>2. IsFun(g) OBVIOUS
  <2>3. Alike(f, g, from, to, w) BY DEF Alike
  <2>4. ASSUME NEW x \in from .. to, NEW y \in from .. to, y < x + (w + 1)
        PROVE  g[<<x, y>>] = Halved(name, refused, g, x, y)
    <3>1. y <= x + w BY <2>4
    <3>2. g[<<x, y>>] = Halved(name, refused, f, x, y)
      <4>1. CASE y < x + w
        <5>1. g[<<x, y>>] = f[<<x, y>>] BY <4>1
        <5>2. QED BY <2>1, <4>1, <5>1 DEF Narrow
      <4>2. CASE ~ (y < x + w) BY <4>2
      <4>3. QED BY <4>1, <4>2
    <3> HIDE DEF g
    <3>3. Halved(name, refused, f, x, y) = Halved(name, refused, g, x, y)
      BY <2>3, <3>1, HalvedSame
    <3>4. QED BY <3>2, <3>3
  <2>5. Narrow(name, refused, g, from, to, w + 1) BY <2>4, Zenon DEF Narrow
  <2>6. QED BY <2>2, <2>5
<1>3. QED
  <2> HIDE DEF T
  <2>1. Nat \subseteq T BY <1>1, <1>2, Induction
  <2>2. QED BY <2>1 DEF T

\* get_logs_bisect's recursion ends on every range, whatever is refused.
LEMMA HalvingsExist ==
  ASSUME NEW name, NEW refused, NEW from \in Nat, NEW to \in Nat
  PROVE  \E f : Halvings(name, refused, f, from, to)
<1> DEFINE D == (from .. to) \X (from .. to)
<1>1. PICK f : /\ DOMAIN f = D /\ f = [r \in DOMAIN f |-> f[r]]
               /\ Narrow(name, refused, f, from, to, to + 1)
  <2>1. to + 1 \in Nat OBVIOUS
  <2>2. QED BY <2>1, NarrowExists, Zenon
<1>2. \A r \in D : f[r] = Halved(name, refused, f, r[1], r[2])
  <2>1. TAKE r \in D
  <2>2. r[1] \in from .. to /\ r[2] \in from .. to /\ r = <<r[1], r[2]>> OBVIOUS
  <2>3. r[2] < r[1] + (to + 1) BY <2>2
  <2>4. QED BY <1>1, <2>2, <2>3 DEF Narrow
<1>3. ASSUME NEW r \in D
      PROVE  f[r] = IF r \notin refused THEN {CreatedIn(name, r[1], r[2])}
                    ELSE IF r[1] >= r[2] THEN {}
                    ELSE Joined(f[<<r[1], Mid(r[1], r[2])>>], f[<<Mid(r[1], r[2]) + 1, r[2]>>])
  <2>1. r = <<r[1], r[2]>> OBVIOUS
  <2>2. r \in refused <=> <<r[1], r[2]>> \in refused BY <2>1
  <2>3. QED BY <1>2, <2>2 DEF Halved
<1>4. QED BY <1>1, <1>3, Zenon DEF Halvings

LEMMA FetchHalvings ==
  ASSUME NEW name, NEW refused, NEW from, NEW to
  PROVE  Fetch(name, from, to, refused)
           = (CHOOSE f : Halvings(name, refused, f, from, to))[<<from, to>>]
BY DEF Fetch, Halvings, Joined, Mid

LEMMA JoinedIn ==
  ASSUME NEW F, NEW G, NEW s, s \in Joined(F, G)
  PROVE  \E a \in F, b \in G : s = a \o b
BY DEF Joined

\* Whatever is refused, an answer is what the range has created.
LEMMA FetchIs ==
  ASSUME NEW name \in Names, NEW from \in Nat, NEW to \in Nat, from <= to, NEW refused,
         NEW logs \in Fetch(name, from, to, refused)
  PROVE  logs = CreatedIn(name, from, to)
<1> DEFINE f == CHOOSE f : Halvings(name, refused, f, from, to)
           T == {w \in Nat : \A x, y \in from .. to : y < x + w =>
                   \A s \in f[<<x, y>>] : s = CreatedIn(name, x, y)}
<1>1. Fetch(name, from, to, refused) = f[<<from, to>>]
  BY FetchHalvings, Zenon
<1>2. Halvings(name, refused, f, from, to) BY HalvingsExist, Zenon
<1> HIDE DEF f
<1>3. \A x, y \in from .. to : f[<<x, y>>] = Halved(name, refused, f, x, y)
  <2>1. ASSUME NEW x \in from .. to, NEW y \in from .. to
        PROVE  f[<<x, y>>] = Halved(name, refused, f, x, y)
    <3>1. <<x, y>> \in (from .. to) \X (from .. to) /\ <<x, y>>[1] = x /\ <<x, y>>[2] = y OBVIOUS
    <3>2. QED BY <1>2, <3>1 DEF Halvings, Halved
  <2>2. QED BY <2>1
<1>4. 0 \in T
  <2>1. ASSUME NEW x \in from .. to, NEW y \in from .. to, y < x + 0, NEW s \in f[<<x, y>>]
        PROVE  s = CreatedIn(name, x, y)
    <3>1. x >= y BY <2>1
    <3>2. s \in Halved(name, refused, f, x, y) BY <1>3
    <3>3. CASE <<x, y>> \in refused
      <4>1. Halved(name, refused, f, x, y) = {} BY <3>1, <3>3 DEF Halved
      <4>2. QED BY <3>2, <4>1
    <3>4. CASE <<x, y>> \notin refused
      <4>1. Halved(name, refused, f, x, y) = {CreatedIn(name, x, y)} BY <3>4 DEF Halved
      <4>2. QED BY <3>2, <4>1
    <3>5. QED BY <3>3, <3>4
  <2>2. QED BY <2>1
<1>5. ASSUME NEW w \in Nat, w \in T PROVE w + 1 \in T
  <2>1. ASSUME NEW x \in from .. to, NEW y \in from .. to, y < x + (w + 1), NEW s \in f[<<x, y>>]
        PROVE  s = CreatedIn(name, x, y)
    <3>1. s \in Halved(name, refused, f, x, y) BY <1>3, <2>1
    <3>2. CASE <<x, y>> \notin refused
      <4>1. Halved(name, refused, f, x, y) = {CreatedIn(name, x, y)} BY <3>2 DEF Halved
      <4>2. QED BY <3>1, <4>1
    <3>3. CASE <<x, y>> \in refused
      <4>1. x < y
        <5>1. ASSUME x >= y PROVE FALSE
          <6>1. Halved(name, refused, f, x, y) = {} BY <3>3, <5>1 DEF Halved
          <6>2. QED BY <3>1, <6>1
        <5>2. QED BY <5>1
      <4> DEFINE m == Mid(x, y)
      <4>2. m \in from .. to /\ m + 1 \in from .. to /\ x <= m /\ m < y BY <4>1, MidBetween
      <4>3. PICK a \in f[<<x, m>>], b \in f[<<m + 1, y>>] : s = a \o b
        <5>1. ~ (x >= y) BY <4>1
        <5>2. s \in Joined(f[<<x, m>>], f[<<m + 1, y>>])
          <6>1. Halved(name, refused, f, x, y) = Joined(f[<<x, m>>], f[<<m + 1, y>>])
            BY <3>3, <5>1 DEF Halved
          <6>2. QED BY <3>1, <6>1
        <5> DEFINE F == f[<<x, m>>]
                   G == f[<<m + 1, y>>]
        <5>3. s \in Joined(F, G) BY <5>2
        <5>4. \E a \in F, b \in G : s = a \o b
          <6> HIDE DEF F, G, T
          <6>1. QED BY <5>3, JoinedIn
        <5>5. QED BY <5>4
      <4> HIDE DEF m
      <4>4. m < x + w /\ y < (m + 1) + w BY <2>1, <4>2
      <4>5. a = CreatedIn(name, x, m) /\ b = CreatedIn(name, m + 1, y)
        BY <1>5, <4>2, <4>3, <4>4
      <4>6. x \in Nat /\ m \in Int /\ y \in Nat /\ x <= m + 1 /\ m <= y BY <4>2
      <4>7. CreatedIn(name, x, y) = CreatedIn(name, x, m) \o CreatedIn(name, m + 1, y)
        BY <4>6, CreatedSplit
      <4>8. QED BY <4>3, <4>5, <4>7
    <3>4. QED BY <3>2, <3>3
  <2>2. QED BY <2>1
<1>6. Nat \subseteq T
  <2> HIDE DEF T
  <2>1. QED BY <1>4, <1>5, Induction
<1>7. to + 1 \in T /\ from \in from .. to /\ to \in from .. to /\ to < from + (to + 1)
  <2> HIDE DEF T
  <2>1. QED BY <1>6
<1>8. QED BY <1>1, <1>7

LEMMA EmptyThrough ==
  ASSUME NEW logs
  PROVE  Through(<< >>, logs) = << >>
BY DEF Through

LEMMA NothingAccepted ==
  ASSUME NEW d
  PROVE  << >> \in LogsOf /\ Accepted(d, << >>) = << >>
<1>1. << >> \in LogsOf
  <2>1. \A U : << >> \in Seq(U) OBVIOUS
  <2>2. QED BY <2>1, Zenon DEF LogsOf
<1>2. Len(<< >>) = 0 OBVIOUS
<1>3. InOrder(Wanted(d, << >>), 0) = << >> BY InOrderSteps
<1>4. Accepted(d, << >>) = Through(<< >>, DecodedAt(d, << >>))
  BY <1>1, <1>2, <1>3, AcceptedThrough, Zenon
<1>5. QED BY <1>1, <1>4, EmptyThrough

LEMMA NothingCreated ==
  ASSUME NEW name \in Names, NEW a \in Nat, NEW b \in Int, b < a
  PROVE  CreatedIn(name, a, b) = << >>
<1>1. PlacesIn(name, a, b) = {} BY LogsType DEF PlacesIn
<1>2. Len(Created[name]) \in Nat BY LogsType
<1>3. {} \cap 1 .. Len(Created[name]) = {} OBVIOUS
<1>4. InOrder(PlacesIn(name, a, b), Len(Created[name])) = << >>
  BY <1>1, <1>2, <1>3, InOrderNone
<1>5. QED BY <1>4, CreatedThrough, EmptyThrough

LEMMA DexType ==
  ASSUME NEW j \in DOMAIN Dexes
  PROVE  /\ Dexes[j].name \in Names /\ Dexes[j].deploy \in Nat /\ Dexes[j].deploy >= 1
         /\ Dexes[j].deploy <= MaxBlock /\ MaxBlock \in Nat
BY DiscoveryAssumption DEF DiscoveryAssumption, Names

LEMMA DexDomain ==
  Len(Dexes) \in Nat /\ DOMAIN Dexes = 1 .. Len(Dexes)
BY DiscoveryAssumption, Elements DEF DiscoveryAssumption

\* Nothing is found before the block a dex is deployed in.
LEMMA FoundNone ==
  ASSUME NEW j \in DOMAIN Dexes, NEW b \in Int, b < Dexes[j].deploy
  PROVE  FoundBy(Dexes[j], b) = << >>
<1>1. CreatedIn(Dexes[j].name, Dexes[j].deploy, b) = << >> BY DexType, NothingCreated
<1>2. QED BY <1>1, NothingAccepted DEF FoundBy

\* A cache that ends just before a range, and what the range has created, are
\* what the dex has created up to its end.
LEMMA FoundStep ==
  ASSUME NEW j \in DOMAIN Dexes, NEW b \in Nat, NEW c \in Nat, Dexes[j].deploy <= b, b <= c + 1
  PROVE  FoundBy(Dexes[j], b - 1) \o Accepted(Dexes[j], CreatedIn(Dexes[j].name, b, c))
           = FoundBy(Dexes[j], c)
<1> DEFINE d == Dexes[j]
<1>1. d.name \in Names /\ d.deploy \in Nat BY DexType
<1>2. b - 1 \in Int /\ (b - 1) + 1 = b /\ d.deploy <= (b - 1) + 1 /\ b - 1 <= c OBVIOUS
<1> HIDE DEF d
<1>3. CreatedIn(d.name, d.deploy, c) = CreatedIn(d.name, d.deploy, b - 1) \o CreatedIn(d.name, b, c)
  <2>1. CreatedIn(d.name, d.deploy, c)
          = CreatedIn(d.name, d.deploy, b - 1) \o CreatedIn(d.name, (b - 1) + 1, c)
    BY <1>1, <1>2, CreatedSplit
  <2>2. QED BY <1>2, <2>1
<1>4. CreatedIn(d.name, d.deploy, b - 1) \in LogsOf /\ CreatedIn(d.name, b, c) \in LogsOf
  BY <1>1, CreatedType
<1>5. Accepted(d, CreatedIn(d.name, d.deploy, b - 1) \o CreatedIn(d.name, b, c))
        = Accepted(d, CreatedIn(d.name, d.deploy, b - 1)) \o Accepted(d, CreatedIn(d.name, b, c))
  BY <1>4, AcceptedConcat
<1>6. FoundBy(d, b - 1) \o Accepted(d, CreatedIn(d.name, b, c)) = FoundBy(d, c)
  BY <1>3, <1>5, Zenon DEF FoundBy
<1>7. QED BY <1>6 DEF d

LEMMA AcceptedType ==
  ASSUME NEW d, NEW logs \in LogsOf
  PROVE  Accepted(d, logs) \in Seq(Range(DecodedAt(d, logs)))
<1> DEFINE p == InOrder(Wanted(d, logs), Len(logs))
           S == Range(DecodedAt(d, logs))
<1>1. Len(logs) \in Nat BY DEF LogsOf
<1>2. p \in Seq(Nat) BY <1>1, InOrderInNat
<1>3. \A i \in DOMAIN p : DecodedAt(d, logs)[p[i]] \in S
  <2>1. \A i \in DOMAIN p : p[i] \in Wanted(d, logs) BY <1>1, InOrderBound
  <2> HIDE DEF p
  <2>2. \A i \in DOMAIN p : p[i] \in DOMAIN DecodedAt(d, logs)
    BY <2>1 DEF Wanted, DecodedAt
  <2>3. QED BY <2>2 DEF Range
<1> HIDE DEF p, S
<1>4. Through(p, DecodedAt(d, logs)) \in Seq(S) BY <1>2, <1>3, ThroughType
<1>5. QED BY <1>4, AcceptedThrough DEF p, S

LEMMA FoundType ==
  ASSUME NEW j \in DOMAIN Dexes, NEW b
  PROVE  \E S : FoundBy(Dexes[j], b) \in Seq(S)
BY DexType, CreatedType, AcceptedType DEF FoundBy

-----------------------------------------------------------------------------
(* The scan's invariant.                                                    *)

\* A cache: none, or what the dex has created up to the block it names.
CacheOK(d, c) ==
  /\ c.synced \in Nat
  /\ IF c.synced = 0 THEN c = NoCache
     ELSE c.synced >= d.deploy /\ c.pools = FoundBy(d, c.synced)

DiskOK ==
  /\ DOMAIN disk = Names
  /\ \A j \in DOMAIN Dexes : CacheOK(Dexes[j], disk[Dexes[j].name])

\* The cache in memory ends just before the next block to be asked for.
ScanOK ==
  pc = "scan" =>
    /\ k \in DOMAIN Dexes
    /\ next \in Nat /\ Dexes[k].deploy <= next /\ next <= head
    /\ cache.pools = FoundBy(Dexes[k], next - 1)

Reached(j) ==
  LET c == disk[Dexes[j].name] IN IF c.synced > head THEN c.synced ELSE head

Found(j) == FoundBy(Dexes[j], Reached(j))

\* The dexes before the k-th are through.
AllOK ==
  pc \in {"open", "scan"} =>
    /\ k \in 1 .. Len(Dexes) + 1
    /\ all = FlattenSeq([j \in 1 .. k - 1 |-> Found(j)])

ScanInv ==
  /\ head \in Nat
  /\ DiskOK
  /\ pc \in {"down", "boot"} => all = << >>
  /\ ScanOK
  /\ AllOK

\* The first k dexes, the k-th being one that has just been gone through.
LEMMA OneMore ==
  ASSUME NEW n \in DOMAIN Dexes, NEW f, DOMAIN f = 1 .. n - 1, f \in Seq(Range(f)),
         NEW g, DOMAIN g = 1 .. n, g \in Seq(Range(g)),
         \A j \in 1 .. n - 1 : f[j] = g[j], NEW b, g[n] = FoundBy(Dexes[n], b)
  PROVE  FlattenSeq(f) \o FoundBy(Dexes[n], b) = FlattenSeq(g)
<1> DEFINE m == n - 1
<1>1. m \in Nat /\ n = m + 1 BY DexDomain
<1>2. PICK S : FoundBy(Dexes[n], b) \in Seq(S) BY FoundType
<1>3. CASE m = 0
  <2>1. FlattenSeq(g) = g[1] BY <1>1, <1>3, FlattenSteps
  <2>2. FlattenSeq(f) = << >>
    <3>1. Len(f) = 0 BY <1>1, <1>3
    <3>2. f = << >> BY <3>1
    <3>3. QED BY <3>1, <3>2 DEF FlattenSeq
  <2>3. n = 1 BY <1>1, <1>3
  <2>4. << >> \o FoundBy(Dexes[n], b) = FoundBy(Dexes[n], b) BY <1>2, ConcatEmptySeq
  <2>5. QED BY <2>1, <2>2, <2>3, <2>4
<1>4. CASE m # 0
  <2> HIDE DEF m
  <2>1. DOMAIN g = 1 .. m + 1 /\ DOMAIN f = 1 .. m /\ \A i \in 1 .. m : f[i] = g[i]
    BY <1>1 DEF m
  <2>2. FlattenSeq(g) = FlattenSeq(f) \o g[m + 1]
    BY <1>1, <1>4, <2>1, FlattenSteps
  <2>3. QED BY <1>1, <2>2
<1>5. QED BY <1>3, <1>4

LEMMA FunctionIsSeq ==
  ASSUME NEW n \in Nat, NEW f, DOMAIN f = 1 .. n, f = [j \in DOMAIN f |-> f[j]]
  PROVE  f \in Seq(Range(f))
<1> DEFINE S == Range(f)
<1>1. \A j \in 1 .. n : f[j] \in S BY DEF Range
<1> HIDE DEF S
<1>2. [j \in 1 .. n |-> f[j]] \in Seq(S) BY <1>1
<1>3. f = [j \in 1 .. n |-> f[j]] OBVIOUS
<1>4. QED BY <1>2, <1>3 DEF S

LEMMA FoundSeq ==
  ASSUME NEW n \in Nat
  PROVE  /\ DOMAIN [j \in 1 .. n |-> Found(j)] = 1 .. n
         /\ [j \in 1 .. n |-> Found(j)] \in Seq(Range([j \in 1 .. n |-> Found(j)]))
<1> DEFINE f == [j \in 1 .. n |-> Found(j)]
<1>1. DOMAIN f = 1 .. n /\ f = [j \in DOMAIN f |-> f[j]] OBVIOUS
<1> HIDE DEF f
<1>2. f \in Seq(Range(f)) BY <1>1, FunctionIsSeq
<1>3. QED BY <1>1, <1>2 DEF f

\* The files a completed run leaves are good caches.
LEMMA FullCachesOK ==
  ASSUME NEW j \in DOMAIN Dexes
  PROVE  CacheOK(Dexes[j], FullCaches[Dexes[j].name])
<1> DEFINE d == CHOOSE x \in Range(Dexes) : x.name = Dexes[j].name
<1>1. Dexes[j] \in Range(Dexes) BY DEF Range
<1>2. d \in Range(Dexes) /\ d.name = Dexes[j].name
  <2>1. \E x \in Range(Dexes) : x.name = Dexes[j].name BY <1>1
  <2>2. QED BY <2>1
<1>3. d = Dexes[j]
  <2>1. PICK i \in DOMAIN Dexes : d = Dexes[i] BY <1>2 DEF Range
  <2>2. Dexes[i].name = Dexes[j].name BY <1>2, <2>1
  <2>3. i = j BY <2>2, DiscoveryAssumption DEF DiscoveryAssumption
  <2>4. QED BY <2>1, <2>3
<1>4. FullCaches[Dexes[j].name]
        = IF d.kind = "algebra" THEN NoCache
          ELSE [synced |-> MaxBlock,
                pools |-> Accepted(d, CreatedIn(Dexes[j].name, d.deploy, MaxBlock))]
  BY DexType DEF FullCaches
<1> HIDE DEF d
<1>5. CASE d.kind = "algebra"
  BY <1>4, <1>5 DEF CacheOK, NoCache
<1>6. CASE d.kind # "algebra"
  <2>1. FullCaches[Dexes[j].name]
          = [synced |-> MaxBlock, pools |-> FoundBy(Dexes[j], MaxBlock)]
    BY <1>3, <1>4, <1>6 DEF FoundBy
  <2>2. QED BY <2>1, DexType DEF CacheOK
<1>7. QED BY <1>5, <1>6

LEMMA ScanInit == StartupInit => ScanInv
<1> SUFFICES ASSUME StartupInit PROVE ScanInv OBVIOUS
<1>1. pc = "down" /\ head = 0 /\ all = << >> BY DEF StartupInit, Init
<1>2. disk \in {NoCaches, FullCaches} BY DEF StartupInit
<1>3. DiskOK
  <2>1. CASE disk = NoCaches
    BY <2>1, DexType DEF DiskOK, NoCaches, CacheOK, NoCache
  <2>2. CASE disk = FullCaches
    <3>1. DOMAIN disk = Names BY <2>2 DEF FullCaches
    <3>2. QED BY <2>2, <3>1, FullCachesOK DEF DiskOK
  <2>3. QED BY <1>2, <2>1, <2>2
<1>4. QED BY <1>1, <1>3 DEF ScanInv, ScanOK, AllOK

\* A cache that is read is scanned from the block after its checkpoint, or taken
\* as it is when it ends at the head.
LEMMA LoadCacheStep == ScanInv /\ LoadCache => ScanInv'
<1> SUFFICES ASSUME ScanInv, LoadCache PROVE ScanInv' OBVIOUS
<1> DEFINE d == Dexes[k]
           c == disk[d.name]
           start == ScanStart(c, d)
<1>1. /\ pc = "open" /\ k \in DOMAIN Dexes /\ head' = head /\ disk' = disk /\ head \in Nat
      /\ all = FlattenSeq([j \in 1 .. k - 1 |-> Found(j)])
  BY DexDomain DEF LoadCache, ScanInv, AllOK
<1>2. DiskOK' BY <1>1 DEF ScanInv, DiskOK
<1>3. CacheOK(d, c) BY <1>1 DEF ScanInv, DiskOK
<1>4. d.deploy \in Nat /\ d.deploy >= 1 /\ k \in 1 .. Len(Dexes) /\ Len(Dexes) \in Nat
  BY <1>1, DexType, DexDomain
<1>6. CASE start <= head
  <2>1. pc' = "scan" /\ cache' = c /\ next' = start /\ k' = k /\ all' = all
    BY <1>6 DEF LoadCache
  <2>2. start \in Nat /\ d.deploy <= start /\ c.pools = FoundBy(d, start - 1)
    <3>1. CASE c.synced = 0
      <4>1. start = d.deploy /\ start - 1 < d.deploy /\ start - 1 \in Int
        BY <1>4, <3>1 DEF ScanStart
      <4>2. FoundBy(d, start - 1) = << >> BY <1>1, <4>1, FoundNone
      <4>3. c.pools = << >> BY <1>3, <3>1 DEF CacheOK, NoCache
      <4>4. QED BY <1>4, <4>1, <4>2, <4>3
    <3>2. CASE c.synced # 0
      BY <1>3, <1>4, <3>2 DEF CacheOK, ScanStart
    <3>3. QED BY <3>1, <3>2
  <2> HIDE DEF c, start
  <2>3. ScanOK' BY <1>1, <1>6, <2>1, <2>2 DEF ScanOK
  <2>4. AllOK'
    <3>1. k' - 1 = k - 1 /\ k' \in 1 .. Len(Dexes) + 1 BY <1>4, <2>1
    <3>2. [j \in 1 .. k - 1 |-> Found(j)]' = [j \in 1 .. k - 1 |-> Found(j)]
      BY <1>1, <2>1 DEF Found, Reached
    <3>3. QED BY <1>1, <2>1, <3>1, <3>2 DEF AllOK
  <2>5. QED BY <1>1, <1>2, <2>1, <2>3, <2>4 DEF ScanInv
<1>7. CASE ~ (start <= head)
  <2>1. all' = all \o c.pools /\ k' = k + 1 /\ pc' = "open" /\ cache' = cache /\ next' = next
    BY <1>1, <1>7 DEF LoadCache, FromCache
  <2>2. c.pools = Found(k)
    <3>1. CASE c.synced = 0
      <4>1. head < d.deploy BY <1>1, <1>4, <1>7, <3>1 DEF ScanStart
      <4>2. Found(k) = FoundBy(d, head) BY <1>1, <3>1 DEF Found, Reached
      <4>3. FoundBy(d, head) = << >> BY <1>1, <4>1, FoundNone
      <4>4. c.pools = << >> BY <1>3, <3>1 DEF CacheOK, NoCache
      <4>5. QED BY <4>2, <4>3, <4>4
    <3>2. CASE c.synced # 0
      <4>1. c.synced \in Nat /\ c.synced >= head /\ c.pools = FoundBy(d, c.synced)
        BY <1>1, <1>3, <1>7, <3>2 DEF CacheOK, ScanStart
      <4>2. Reached(k) = c.synced BY <1>1, <4>1 DEF Reached
      <4>3. QED BY <4>1, <4>2 DEF Found
    <3>3. QED BY <3>1, <3>2
  <2>3. all' = FlattenSeq([j \in 1 .. k |-> Found(j)])
    <3> DEFINE f == [j \in 1 .. k - 1 |-> Found(j)]
               g == [j \in 1 .. k |-> Found(j)]
    <3>1. k - 1 \in Nat BY <1>1, DexDomain
    <3>2. /\ DOMAIN f = 1 .. k - 1 /\ f \in Seq(Range(f))
          /\ DOMAIN g = 1 .. k /\ g \in Seq(Range(g))
      BY <1>4, <3>1, FoundSeq
    <3>3. \A j \in 1 .. k - 1 : f[j] = g[j] BY <1>4
    <3>4. g[k] = FoundBy(Dexes[k], Reached(k)) BY <1>1, DexDomain DEF Found
    <3> HIDE DEF f, g, c
    <3>5. FlattenSeq(f) \o FoundBy(Dexes[k], Reached(k)) = FlattenSeq(g)
      <4>1. k \in DOMAIN Dexes BY <1>1
      <4>2. QED BY <3>2, <3>3, <3>4, <4>1, OneMore, ZenonT(60)
    <3>6. QED BY <1>1, <2>1, <2>2, <3>5 DEF f, g, Found
  <2>4. AllOK'
    <3>1. k' - 1 = k /\ k' \in 1 .. Len(Dexes) + 1 BY <1>4, <2>1
    <3>2. [j \in 1 .. k' - 1 |-> Found(j)'] = [j \in 1 .. k |-> Found(j)]
      BY <1>1, <3>1 DEF Found, Reached
    <3>3. QED BY <2>3, <3>1, <3>2 DEF AllOK
  <2>5. QED BY <1>1, <1>2, <2>1, <2>4 DEF ScanInv, ScanOK
<1>8. QED BY <1>6, <1>7

\* A chunk extends the cache in memory by what its range has created, and the
\* file where it is saved.
LEMMA ScanChunkStep ==
  ASSUME ScanInv, NEW refused, NEW save \in BOOLEAN, ScanChunk(refused, save)
  PROVE  ScanInv'
<1> DEFINE d == Dexes[k]
           end == EndOf(next)
<1>1. /\ pc = "scan" /\ head' = head /\ head \in Nat /\ k \in DOMAIN Dexes
      /\ next \in Nat /\ d.deploy <= next /\ next <= head
      /\ cache.pools = FoundBy(d, next - 1)
      /\ all = FlattenSeq([j \in 1 .. k - 1 |-> Found(j)])
      /\ DOMAIN disk = Names
  BY DEF ScanChunk, ScanInv, ScanOK, AllOK, DiskOK
<1>2. /\ d.name \in Names /\ d.deploy \in Nat /\ d.deploy >= 1
      /\ k \in 1 .. Len(Dexes) /\ Len(Dexes) \in Nat
  BY <1>1, DexType, DexDomain
<1>3. next <= end /\ end <= head /\ end \in Nat
  <2>1. Chunk \in Nat \ {0} BY DiscoveryAssumption DEF DiscoveryAssumption
  <2>2. QED BY <1>1, <2>1 DEF EndOf
<1>4. PICK logs \in Fetch(d.name, next, end, refused) :
        LET c == [synced |-> end, pools |-> cache.pools \o Accepted(d, logs)]
        IN /\ disk' = IF save THEN [disk EXCEPT ![d.name] = c] ELSE disk
           /\ IF end = head
              THEN /\ pc' = "open" /\ k' = k + 1 /\ all' = all \o c.pools
                   /\ cache' = NoCache /\ next' = 0
              ELSE /\ cache' = c /\ next' = end + 1
                   /\ UNCHANGED <<pc, k, all>>
  BY DEF ScanChunk
<1>5. save \/ end # head BY DEF ScanChunk
<1> DEFINE found == FoundBy(d, end)
           c == [synced |-> end, pools |-> found]
<1>6. cache.pools \o Accepted(d, logs) = found
  <2>1. logs = CreatedIn(d.name, next, end) BY <1>1, <1>2, <1>3, FetchIs
  <2>2. next <= end + 1 BY <1>1, <1>3
  <2>3. FoundBy(d, next - 1) \o Accepted(d, CreatedIn(d.name, next, end)) = FoundBy(d, end)
    BY <1>1, <1>3, <2>2, FoundStep
  <2>4. QED BY <1>1, <2>1, <2>3
<1>7. /\ disk' = IF save THEN [disk EXCEPT ![d.name] = c] ELSE disk
      /\ end = head => /\ pc' = "open" /\ k' = k + 1 /\ all' = all \o found
      /\ end # head => /\ cache' = c /\ next' = end + 1 /\ pc' = pc /\ k' = k /\ all' = all
  BY <1>4, <1>6
<1>8. CacheOK(d, c)
  BY <1>1, <1>2, <1>3 DEF CacheOK
<1>9. \A j \in DOMAIN Dexes : j # k => Dexes[j].name # d.name
  BY <1>1, DiscoveryAssumption DEF DiscoveryAssumption
<1>10. \A j \in DOMAIN Dexes : j # k => disk'[Dexes[j].name] = disk[Dexes[j].name]
  BY <1>1, <1>7, <1>9, DexType
<1>11. disk'[d.name] = IF save THEN c ELSE disk[d.name]
  BY <1>1, <1>2, <1>7
<1>12. DOMAIN disk' = Names BY <1>1, <1>7
<1> HIDE DEF c, found, end
<1>13. DiskOK'
  <2>1. \A j \in DOMAIN Dexes : CacheOK(Dexes[j], disk[Dexes[j].name]) BY DEF ScanInv, DiskOK
  <2>2. \A j \in DOMAIN Dexes : CacheOK(Dexes[j], disk'[Dexes[j].name])
    <3>1. CacheOK(d, disk'[d.name]) BY <1>1, <1>8, <1>11, <2>1
    <3>2. QED BY <1>10, <2>1, <3>1
  <2>3. QED BY <1>12, <2>2 DEF DiskOK, CacheOK
<1>14. \A j \in 1 .. k - 1 : Found(j)' = Found(j)
  <2>1. TAKE j \in 1 .. k - 1
  <2>2. j \in DOMAIN Dexes /\ j # k BY <1>2, DexDomain
  <2>3. disk'[Dexes[j].name] = disk[Dexes[j].name] BY <1>10, <2>2
  <2>4. QED BY <1>1, <2>3 DEF Found, Reached
<1>15. CASE end # head
  <2>1. ScanOK'
    <3>1. next' \in Nat /\ d.deploy <= next' /\ next' <= head /\ next' - 1 = end
      BY <1>1, <1>2, <1>3, <1>7, <1>15
    <3>2. cache'.pools = FoundBy(d, end) BY <1>7, <1>15 DEF c, found
    <3>3. QED BY <1>1, <1>7, <1>15, <3>1, <3>2 DEF ScanOK
  <2>2. AllOK'
    <3>1. [j \in 1 .. k - 1 |-> Found(j)'] = [j \in 1 .. k - 1 |-> Found(j)] BY <1>14
    <3>2. pc' \in {"open", "scan"} /\ k' = k /\ all' = all BY <1>1, <1>7, <1>15
    <3>3. k \in 1 .. Len(Dexes) + 1 BY <1>2
    <3>4. QED BY <1>1, <3>1, <3>2, <3>3 DEF AllOK
  <2>3. QED BY <1>1, <1>7, <1>13, <1>15, <2>1, <2>2 DEF ScanInv
<1>16. CASE end = head
  <2> DEFINE f == [j \in 1 .. k - 1 |-> Found(j)]
             g == [j \in 1 .. k |-> Found(j)']
  <2>1. save BY <1>5, <1>16
  <2>2. \A n \in {k} : Found(n)' = FoundBy(Dexes[n], head)
    <3>1. disk'[d.name].synced = head BY <1>11, <1>16, <2>1 DEF c
    <3>2. QED BY <1>1, <3>1 DEF Found, Reached
  <2>3. /\ DOMAIN f = 1 .. k - 1 /\ f \in Seq(Range(f))
    <3>1. k - 1 \in Nat BY <1>2
    <3>2. QED BY <3>1, FoundSeq
  <2>4. DOMAIN g = 1 .. k /\ g \in Seq(Range(g))
    <3>1. k \in Nat /\ DOMAIN g = 1 .. k /\ g = [j \in DOMAIN g |-> g[j]] BY <1>2
    <3> HIDE DEF g
    <3>2. QED BY <3>1, FunctionIsSeq
  <2>5. \A j \in 1 .. k - 1 : f[j] = g[j] BY <1>2, <1>14
  <2>6. g[k] = FoundBy(Dexes[k], head) BY <1>2, <2>2
  <2>7. FlattenSeq(f) \o FoundBy(Dexes[k], head) = FlattenSeq(g)
    <3>1. k \in DOMAIN Dexes BY <1>1
    <3> HIDE DEF f, g
    <3>2. QED BY <3>1, <2>3, <2>4, <2>5, <2>6, OneMore, ZenonT(60)
  <2>8. all' = FlattenSeq(g)
    BY <1>1, <1>7, <1>16, <2>7 DEF found
  <2>9. AllOK'
    <3>1. k' - 1 = k /\ k' \in 1 .. Len(Dexes) + 1 BY <1>2, <1>7, <1>16
    <3>2. [j \in 1 .. k' - 1 |-> Found(j)'] = g BY <3>1
    <3> HIDE DEF g
    <3>3. QED BY <2>8, <3>1, <3>2 DEF AllOK
  <2>10. QED BY <1>1, <1>7, <1>13, <1>16, <2>9 DEF ScanInv, ScanOK
<1>17. QED BY <1>15, <1>16

Scanning == {"down", "boot", "open", "scan"}

LEMMA HydrateLeaves ==
  Hydrate => disk' = disk /\ head' = head /\ setup' = setup /\ pc' \notin Scanning
<1> SUFFICES ASSUME Hydrate
    PROVE  disk' = disk /\ head' = head /\ setup' = setup /\ pc' \notin Scanning
  OBVIOUS
<1> USE DEF Scanning
<1>1. CASE LoadPins BY <1>1 DEF LoadPins
<1>2. CASE Dedupe BY <1>2 DEF Dedupe
<1>3. CASE HydrateV2 BY <1>3 DEF HydrateV2, HydrateStep
<1>4. CASE HydrateCl("v3", "v3", "algebra") BY <1>4, SMTT(40) DEF HydrateCl, HydrateStep
<1>5. CASE HydrateCl("algebra", "algebra", "v4") BY <1>5, SMTT(40) DEF HydrateCl, HydrateStep
<1>6. CASE HydrateV4 BY <1>6 DEF HydrateV4, HydrateStep
<1>7. CASE ReadBalances BY <1>7 DEF ReadBalances
<1>8. CASE \E t \in AllTokens : ProbeToken(t) BY <1>8 DEF ProbeToken, discoveryVars
<1>9. CASE SaveVerdicts BY <1>9 DEF SaveVerdicts
<1>10. CASE BuildEngine BY <1>10 DEF BuildEngine
<1>11. QED
  BY <1>1, <1>2, <1>3, <1>4, <1>5, <1>6, <1>7, <1>8, <1>9, <1>10 DEF Hydrate

LEMMA SameScan ==
  ASSUME ScanInv, UNCHANGED <<disk, pc, head, k, cache, next, all>>
  PROVE  ScanInv'
<1>1. DiskOK' BY DEF ScanInv, DiskOK
<1>2. ScanOK' BY DEF ScanInv, ScanOK
<1>3. AllOK'
  <2>1. [j \in 1 .. k - 1 |-> Found(j)]' = [j \in 1 .. k - 1 |-> Found(j)]
    BY DEF Found, Reached
  <2>2. QED BY <2>1 DEF ScanInv, AllOK
<1>4. QED BY <1>1, <1>2, <1>3 DEF ScanInv

LEMMA AwayFromScan ==
  ASSUME ScanInv, disk' = disk, head' = head, pc' \notin Scanning
  PROVE  ScanInv'
BY DEF ScanInv, DiskOK, ScanOK, AllOK, Scanning

LEMMA ForgetStep ==
  ASSUME Forget, DiskOK'
  PROVE  ScanInv'
BY DEF Forget, ScanInv, ScanOK, AllOK

\* A file torn in the middle of its write reads as no cache.
LEMMA TearCacheStep ==
  ASSUME ScanInv, TearCache
  PROVE  DiskOK'
<1>1. k \in DOMAIN Dexes /\ disk' = [disk EXCEPT ![Dexes[k].name] = NoCache]
  BY DEF TearCache, ScanInv, ScanOK
<1>2. \A j \in DOMAIN Dexes :
        \/ disk'[Dexes[j].name] = disk[Dexes[j].name]
        \/ disk'[Dexes[j].name] = NoCache
  BY <1>1, DexType DEF ScanInv, DiskOK
<1>3. \A j \in DOMAIN Dexes : CacheOK(Dexes[j], NoCache)
  BY DEF CacheOK, NoCache
<1>4. \A j \in DOMAIN Dexes : CacheOK(Dexes[j], disk'[Dexes[j].name])
  <2>1. \A j \in DOMAIN Dexes : CacheOK(Dexes[j], disk[Dexes[j].name]) BY DEF ScanInv, DiskOK
  <2>2. QED BY <1>2, <1>3, <2>1
<1>5. DOMAIN disk' = Names BY <1>1 DEF ScanInv, DiskOK
<1>6. QED BY <1>4, <1>5 DEF DiskOK, CacheOK

LEMMA DiscoverStep == ScanInv /\ Discover => ScanInv'
<1> SUFFICES ASSUME ScanInv, Discover PROVE ScanInv' OBVIOUS
<1>1. CASE DiscoverAll
  <2>1. /\ disk' = disk /\ all = << >> /\ all' = all /\ k' = 1 /\ pc' = "open"
    BY <1>1 DEF DiscoverAll, ScanInv
  <2>2. head' \in Nat
    BY <1>1 DEF DiscoverAll
  <2>3. FlattenSeq([j \in 1 .. k' - 1 |-> Found(j)']) = << >>
    <3> DEFINE f == [j \in 1 .. k' - 1 |-> Found(j)']
    <3>1. DOMAIN f = {} BY <2>1
    <3> HIDE DEF f
    <3>2. f = << >> /\ Len(f) = 0
      <4>1. f = [j \in {} |-> 0] BY <3>1 DEF f
      <4>2. QED BY <4>1
    <3>3. FlattenSeq(f) = << >> BY <3>2 DEF FlattenSeq
    <3>4. QED BY <3>3 DEF f
  <2>4. AllOK' BY <2>1, <2>3, DexDomain DEF AllOK
  <2>5. QED BY <2>1, <2>2, <2>4 DEF ScanInv, DiskOK, ScanOK
<1>2. CASE LoadCache BY <1>2, LoadCacheStep
<1>3. CASE \E refused \in SUBSET RangesOf(next, EndOf(next)), save \in BOOLEAN :
             ScanChunk(refused, save)
  BY <1>3, ScanChunkStep
<1>4. CASE Discovered
  <2>1. disk' = disk /\ head' = head /\ pc' \notin Scanning BY <1>4 DEF Discovered, Scanning
  <2>2. QED BY <2>1, AwayFromScan
<1>5. QED BY <1>1, <1>2, <1>3, <1>4 DEF Discover

LEMMA ScanStep == ScanInv /\ [Next]_vars => ScanInv'
<1> SUFFICES ASSUME ScanInv, [Next]_vars PROVE ScanInv' OBVIOUS
<1>1. CASE Mine BY <1>1, SameScan DEF Mine
<1>2. CASE Start
  BY <1>2 DEF Start, ScanInv, DiskOK, ScanOK, AllOK
<1>3. CASE Discover BY <1>3, DiscoverStep
<1>4. CASE Hydrate BY <1>4, HydrateLeaves, AwayFromScan
<1>5. CASE Layout /\ UNCHANGED <<tip, disk, head, k, cache, next, all, hydrationVars, verifyVars>>
  <2>1. pc' \notin Scanning
    BY <1>5 DEF Layout, BeginLayouts, BuildPlans, ProbeKind, Scanning
  <2>2. QED BY <1>5, <2>1, AwayFromScan
<1>6. CASE UNCHANGED discoveryVars BY <1>6, SameScan DEF discoveryVars
<1>7. CASE Stop BY <1>7, ForgetStep DEF Stop, ForgetAll, ScanInv, DiskOK
<1>8. CASE StopInWrite BY <1>8, ForgetStep, TearCacheStep DEF StopInWrite, ForgetAll
<1>9. CASE StopInVerdicts BY <1>9, ForgetStep DEF StopInVerdicts, ForgetAll, ScanInv, DiskOK
<1>10. QED
  BY <1>1, <1>2, <1>3, <1>4, <1>5, <1>6, <1>7, <1>8, <1>9 DEF Next, vars

\* The scan's invariant holds in every behaviour: over requests that are
\* refused and halved, chunks that fail, saves that fail or are torn, and
\* restarts from the files of any earlier run (discovery.rs, multicall.rs).
THEOREM ScanInvariant == Spec => []ScanInv
<1>1. QED BY ScanInit, ScanStep, PTL DEF Spec

\* A cache file lists exactly the pools its dex created up to the checkpoint it
\* names, in their order and each once: no crash, failed request or restart of
\* scan_factory_incremental makes a file claim blocks it did not scan.
THEOREM CacheFilesAreExact == Spec => []CheckpointExact
<1>1. ScanInv => CheckpointExact
  BY DEF ScanInv, DiskOK, CacheOK, CheckpointExact
<1>2. QED BY <1>1, ScanInvariant, PTL

\* When the scan is over, the list handed to hydration has every pool of every
\* dex up to the head of the start, or up to its checkpoint if that is later:
\* what discover_all takes from caches and what it scans leave no gap and no
\* overlap between them.
THEOREM NothingLeftOut == Spec => []AllDiscovered
<1>1. ScanInv => AllDiscovered
  <2> SUFFICES ASSUME ScanInv, pc = "open", k > Len(Dexes)
      PROVE  all = FlattenSeq([j \in DOMAIN Dexes |->
                LET c == disk[Dexes[j].name]
                IN FoundBy(Dexes[j], IF c.synced > head THEN c.synced ELSE head)])
    BY DEF AllDiscovered
  <2>1. k - 1 = Len(Dexes) /\ all = FlattenSeq([j \in 1 .. k - 1 |-> Found(j)])
    BY DexDomain DEF ScanInv, AllOK
  <2>2. 1 .. k - 1 = DOMAIN Dexes BY <2>1, DexDomain
  <2>3. QED BY <2>1, <2>2 DEF Found, Reached
<1>2. QED BY <1>1, ScanInvariant, PTL

-----------------------------------------------------------------------------
(* The comparison of a pool with the chain.                                 *)

Attempt == {"words", "words2", "call", "call2", "recheck"}

\* As long as the tip read before is the tip, nothing has changed the pool since.
OneBlock ==
  t0 = block /\ "no words" \notin cause =>
    /\ seen = IF vpc = "words" THEN {} ELSE {value}
    /\ got \subseteq {0, value}
    /\ vpc \in {"words", "words2", "call"} => got = {}
    /\ vpc = "recheck" => got # {}

AuditInv ==
  /\ block \in Nat /\ block >= 1
  /\ vpc # "idle" => report = "none"
  /\ vpc \in Attempt =>
       /\ t0 \in 0 .. block
       /\ t0 = 0 => "no tip" \in cause
       /\ OneBlock
  /\ AuditTrue

LEMMA AuditBegins ==
  ASSUME NEW at \in {"idle", "tip"}, Begin(at)
  PROVE  AuditInv'
BY DEF Begin, AuditInv, AuditTrue, Attempt

LEMMA AuditSame ==
  ASSUME AuditInv, UNCHANGED verifyVars, setup' = setup
  PROVE  AuditInv'
BY DEF AuditInv, AuditTrue, OneBlock, verifyVars

\* A block mined under a check moves the tip away from the first one read.
LEMMA MineDuringStep ==
  ASSUME AuditInv, NEW changes \in BOOLEAN, MineDuring(changes), setup' = setup
  PROVE  AuditInv'
<1>1. /\ block' = block + 1 /\ vpc' = vpc /\ t0' = t0 /\ report' = report /\ cause' = cause
      /\ block \in Nat /\ block >= 1
  BY DEF MineDuring, AuditInv
<1>2. block' \in Nat /\ block' >= 1 BY <1>1
<1>3. vpc \in Attempt => t0 \in 0 .. block BY DEF AuditInv
<1>4. vpc \in Attempt => t0' \in 0 .. block' /\ t0' # block' BY <1>1, <1>3
<1>5. QED BY <1>1, <1>2, <1>4 DEF AuditInv, AuditTrue, OneBlock

LEMMA ReadTipStep ==
  ASSUME AuditInv, ReadTip, setup' = setup
  PROVE  AuditInv'
<1>1. /\ vpc = "tip" /\ vpc' = "words" /\ t0' \in {block, 0} /\ seen' = {} /\ got' = {}
      /\ cause' = (IF t0' = 0 THEN {"no tip"} ELSE {})
      /\ block' = block /\ report' = "none" /\ block \in Nat /\ block >= 1
  BY DEF ReadTip, Step, AuditInv
<1>2. t0' \in 0 .. block' /\ (t0' = 0 => "no tip" \in cause')
  <2>1. t0' = 0 => "no tip" \in cause' BY <1>1
  <2>2. t0' \in 0 .. block'
    <3>1. \A b \in Nat : b \in 0 .. b /\ 0 \in 0 .. b OBVIOUS
    <3>2. QED BY <1>1, <3>1
  <2>3. QED BY <2>1, <2>2
<1>3. OneBlock' BY <1>1 DEF OneBlock
<1>4. QED BY <1>1, <1>2, <1>3 DEF AuditInv, AuditTrue

LEMMA PrefetchStep ==
  ASSUME AuditInv, PrefetchPlan, setup' = setup
  PROVE  AuditInv'
<1>1. /\ (vpc = "words" /\ vpc' = "words2") \/ (vpc = "words2" /\ vpc' = "call")
      /\ block' = block /\ value' = value /\ t0' = t0 /\ got' = got /\ report' = report
      /\ \/ seen' = seen \cup {value} /\ cause' = cause
         \/ cause' = cause \cup {"no words"}
  BY DEF PrefetchPlan, Step
<1>2. vpc \in Attempt /\ vpc' \in Attempt /\ report' = "none" BY <1>1 DEF AuditInv, Attempt
<1>3. t0' \in 0 .. block' /\ (t0' = 0 => "no tip" \in cause') BY <1>1, <1>2 DEF AuditInv
<1>4. OneBlock' BY <1>1, <1>2 DEF OneBlock, AuditInv
<1>5. QED BY <1>1, <1>2, <1>3, <1>4 DEF AuditInv, AuditTrue

LEMMA AskChainStep ==
  ASSUME AuditInv, AskChain, setup' = setup
  PROVE  AuditInv'
<1>1. /\ (vpc = "call" /\ vpc' = "call2") \/ (vpc = "call2" /\ vpc' = "recheck")
      /\ block' = block /\ value' = value /\ t0' = t0 /\ seen' = seen /\ report' = report
      /\ got' \in {got \cup {value}, got \cup {0}} /\ cause' = cause
  BY DEF AskChain, Step
<1>2. vpc \in Attempt /\ vpc' \in Attempt /\ report' = "none" BY <1>1 DEF AuditInv, Attempt
<1>3. t0' \in 0 .. block' /\ (t0' = 0 => "no tip" \in cause') BY <1>1, <1>2 DEF AuditInv
<1>4. OneBlock' BY <1>1, <1>2 DEF OneBlock, AuditInv
<1>5. QED BY <1>1, <1>2, <1>3, <1>4 DEF AuditInv, AuditTrue

\* The tip is read again: the audit counts what was measured on one block, as
\* far as the tip tells, and tries again or leaves unverified what was not.
LEMMA RecheckStep ==
  ASSUME AuditInv, Recheck, setup' = setup
  PROVE  AuditInv'
<1>1. /\ vpc = "recheck" /\ block' = block /\ value' = value /\ t0' = t0 /\ seen' = seen /\ got' = got
      /\ block \in Nat /\ block >= 1 /\ report = "none"
      /\ t0 = 0 => "no tip" \in cause
      /\ OneBlock
  BY DEF Recheck, AuditInv, Attempt
<1>2. PICK t1 \in {block, 0} :
       IF Settled(t1) THEN
         /\ report' = Outcome /\ vpc' = "idle"
         /\ cause' = cause \cup (IF setup.cmd = "verify-quote" THEN {"not checked"} ELSE {})
                           \cup (IF t1 = 0 THEN {"no tip after"} ELSE {})
         /\ UNCHANGED try
       ELSE IF try < Tries THEN
         /\ try' = try + 1 /\ vpc' = "tip"
         /\ UNCHANGED <<report, cause>>
       ELSE
         /\ report' = IF setup.cmd = "verify-math" THEN Outcome ELSE "unverified"
         /\ cause' = cause \cup {"moved"} /\ vpc' = "idle"
         /\ UNCHANGED try
  BY DEF Recheck
<1>3. vpc' = "idle" \/ (vpc' = "tip" /\ report' = "none") BY <1>1, <1>2
<1>4. AuditTrue'
  <2> SUFFICES ASSUME setup.cmd = "verify-state", report' = "mismatch", "no words" \notin cause'
      PROVE  {"no tip", "no tip after"} \subseteq cause'
    BY DEF AuditTrue
  <2>1. Settled(t1) /\ report' = Outcome /\ Outcome = "mismatch" /\ t1 = t0
    BY <1>1, <1>2 DEF Settled
  <2>2. cause' = cause \cup (IF t1 = 0 THEN {"no tip after"} ELSE {})
    BY <1>2, <2>1
  <2>3. CASE t1 = 0 BY <1>1, <2>1, <2>2, <2>3
  <2>4. CASE t1 = block
    <3>1. t0 = block /\ "no words" \notin cause BY <2>1, <2>2, <2>4
    <3>2. seen = {value} /\ got \subseteq {0, value} /\ got # {} BY <1>1, <3>1 DEF OneBlock
    <3>3. 0 \notin got BY <2>1 DEF Outcome
    <3>4. got = {value} BY <3>2, <3>3
    <3>5. Cardinality(got) = 1 BY <3>4, FS_Singleton
    <3>6. Outcome = "match" BY <3>2, <3>3, <3>4, <3>5 DEF Outcome
    <3>7. QED BY <2>1, <3>6
  <2>5. QED BY <2>3, <2>4
<1>5. QED BY <1>1, <1>3, <1>4 DEF AuditInv, Attempt

LEMMA AuditStep == AuditInv /\ [Next]_vars => AuditInv'
<1> SUFFICES ASSUME AuditInv, [Next]_vars PROVE AuditInv' OBVIOUS
<1>1. CASE UNCHANGED verifyVars /\ setup' = setup BY <1>1, AuditSame
<1>2. CASE Audit /\ UNCHANGED <<discoveryVars, hydrationVars, layoutVars>>
  <2>1. setup' = setup BY <1>2 DEF hydrationVars
  <2>2. CASE \E changes \in BOOLEAN : MineDuring(changes) BY <2>1, <2>2, MineDuringStep
  <2>3. CASE NextPool BY <2>3, AuditBegins DEF NextPool
  <2>4. CASE ReadTip BY <2>1, <2>4, ReadTipStep
  <2>5. CASE PrefetchPlan BY <2>1, <2>5, PrefetchStep
  <2>6. CASE AskChain BY <2>1, <2>6, AskChainStep
  <2>7. CASE Recheck BY <2>1, <2>7, RecheckStep
  <2>8. QED BY <1>2, <2>2, <2>3, <2>4, <2>5, <2>6, <2>7 DEF Audit
<1>3. CASE ForgetAll BY <1>3, AuditBegins DEF ForgetAll
<1>4. CASE Hydrate /\ UNCHANGED <<layoutVars, verifyVars>>
  BY <1>1, <1>4, HydrateLeaves
<1>5. QED
  BY <1>1, <1>2, <1>3, <1>4
     DEF Next, vars, Start, Stop, StopInWrite, StopInVerdicts, hydrationVars

\* The audit of the plans reports a mismatch of a pool whose plan is right only
\* when it was blind, without the pool's words or without the tip before and
\* after: whatever blocks are mined between its reads, whichever of these fail
\* and however often it tries again (verify_state).
THEOREM MismatchesHaveACause == Spec => []AuditTrue
<1>1. StartupInit => AuditInv
  BY DEF StartupInit, VerifyInit, AuditInv, AuditTrue, Attempt
<1>2. AuditInv => AuditTrue BY DEF AuditInv
<1>3. QED BY <1>1, <1>2, AuditStep, PTL DEF Spec

-----------------------------------------------------------------------------
(* Lists, and what is picked from them in order.                            *)

IsList(s) == s \in Seq(Range(s))

LEMMA ListFacts ==
  ASSUME NEW s, IsList(s)
  PROVE  DOMAIN s = 1 .. Len(s) /\ Len(s) \in Nat
BY DEF IsList

LEMMA ListFrom ==
  ASSUME NEW S, NEW s \in Seq(S)
  PROVE  IsList(s)
<1>1. DOMAIN s = 1 .. Len(s) /\ Len(s) \in Nat /\ s = [j \in DOMAIN s |-> s[j]] OBVIOUS
<1>2. QED BY <1>1, FunctionIsSeq DEF IsList

LEMMA EmptyList == IsList(<< >>) /\ DOMAIN << >> = {} /\ Len(<< >>) = 0
<1>1. << >> \in Seq({}) /\ DOMAIN << >> = {} /\ Len(<< >>) = 0 OBVIOUS
<1>2. QED BY <1>1, ListFrom

LEMMA ListConcat ==
  ASSUME NEW s, NEW t, IsList(s), IsList(t)
  PROVE  /\ IsList(s \o t)
         /\ Len(s \o t) = Len(s) + Len(t)
         /\ DOMAIN (s \o t) = 1 .. Len(s) + Len(t)
         /\ \A i \in DOMAIN s : (s \o t)[i] = s[i]
         /\ \A i \in DOMAIN (s \o t) :
              \/ i \in DOMAIN s /\ (s \o t)[i] = s[i]
              \/ i - Len(s) \in DOMAIN t /\ i > Len(s) /\ (s \o t)[i] = t[i - Len(s)]
<1> DEFINE S == Range(s) \cup Range(t)
<1>1. Range(s) \subseteq S /\ Range(t) \subseteq S OBVIOUS
<1> HIDE DEF S
<1>2. s \in Seq(S) /\ t \in Seq(S) BY <1>1, SeqMonotonic DEF IsList
<1>3. s \o t \in Seq(S) BY <1>2
<1>4. IsList(s \o t) BY <1>3, ListFrom
<1>5. /\ DOMAIN s = 1 .. Len(s) /\ Len(s) \in Nat /\ DOMAIN t = 1 .. Len(t) /\ Len(t) \in Nat
      /\ Len(s \o t) = Len(s) + Len(t) /\ DOMAIN (s \o t) = 1 .. Len(s) + Len(t)
      /\ \A i \in 1 .. Len(s) + Len(t) : (s \o t)[i] = IF i <= Len(s) THEN s[i] ELSE t[i - Len(s)]
  BY <1>2
<1>6. \A i \in DOMAIN s : (s \o t)[i] = s[i] BY <1>5
<1>7. \A i \in DOMAIN (s \o t) :
        \/ i \in DOMAIN s /\ (s \o t)[i] = s[i]
        \/ i - Len(s) \in DOMAIN t /\ i > Len(s) /\ (s \o t)[i] = t[i - Len(s)]
  BY <1>5
<1>8. QED BY <1>4, <1>5, <1>6, <1>7

LEMMA Picked ==
  ASSUME NEW n \in Nat, NEW K
  PROVE  /\ IsList(InOrder(K, n))
         /\ DOMAIN InOrder(K, n) = 1 .. Len(InOrder(K, n)) /\ Len(InOrder(K, n)) \in Nat
         /\ \A i \in DOMAIN InOrder(K, n) : InOrder(K, n)[i] \in K /\ InOrder(K, n)[i] \in 1 .. n
         /\ \A i, j \in DOMAIN InOrder(K, n) : i < j => InOrder(K, n)[i] < InOrder(K, n)[j]
         /\ \A i, j \in DOMAIN InOrder(K, n) : InOrder(K, n)[i] = InOrder(K, n)[j] => i = j
<1> DEFINE p == InOrder(K, n)
<1>1. /\ p \in Seq(K \cap 1 .. n)
      /\ \A i \in DOMAIN p : p[i] \in K /\ p[i] \in 1 .. n
      /\ DOMAIN p = 1 .. Len(p) /\ Len(p) \in Nat
  BY InOrderBound
<1>2. IsList(p) BY <1>1, ListFrom
<1>3. \A i, j \in DOMAIN p : i < j => p[i] < p[j] BY InOrderType
<1> HIDE DEF p
<1>4. \A i, j \in DOMAIN p : p[i] = p[j] => i = j
  <2>1. TAKE i, j \in DOMAIN p
  <2>2. i \in Nat /\ j \in Nat /\ p[i] \in Nat /\ p[j] \in Nat BY <1>1
  <2>3. CASE i < j BY <1>3, <2>2, <2>3
  <2>4. CASE j < i BY <1>3, <2>2, <2>4
  <2>5. QED BY <2>2, <2>3, <2>4
<1>5. QED BY <1>1, <1>2, <1>3, <1>4 DEF p

\* A function on a list's places is a list.
LEMMA ListThrough ==
  ASSUME NEW p, IsList(p), NEW f
  PROVE  IsList(Through(p, f)) /\ DOMAIN Through(p, f) = DOMAIN p /\ Len(Through(p, f)) = Len(p)
<1> DEFINE s == Through(p, f)
<1>1. DOMAIN p = 1 .. Len(p) /\ Len(p) \in Nat BY ListFacts
<1>2. DOMAIN s = 1 .. Len(p) /\ s = [j \in DOMAIN s |-> s[j]] BY <1>1 DEF Through
<1> HIDE DEF s
<1>3. IsList(s) BY <1>1, <1>2, FunctionIsSeq DEF IsList
<1>4. Len(s) = Len(p) BY <1>1, <1>2, <1>3, ListFacts
<1>5. QED BY <1>1, <1>2, <1>3, <1>4 DEF s

-----------------------------------------------------------------------------
(* What discovery hands over.                                               *)

\* A tag stands for contracts of the pool's kind.
RightKind(e) == e.tag # "v4" => KindOf(e.tag) = KindOf(Info[e.pool].tag)

\* A fee or a spacing that is known before hydration is the pool's.
IsEntry(e) ==
  /\ e.pool \in Pools /\ e.tag \in Tags /\ RightKind(e)
  /\ e.fee \subseteq {Info[e.pool].fee}
  /\ e.spacing \subseteq {Info[e.pool].spacing}
  /\ e.tag = "v4" => e.spacing # {}

Entries(s) == IsList(s) /\ \A n \in DOMAIN s : IsEntry(s[n])

LEMMA EntriesConcat ==
  ASSUME NEW s, NEW t, Entries(s), Entries(t)
  PROVE  Entries(s \o t)
<1>1. IsList(s) /\ IsList(t) BY DEF Entries
<1>2. QED BY <1>1, ListConcat DEF Entries

\* What a dex accepts are entries of its pools.
LEMMA AcceptedEntries ==
  ASSUME NEW j \in DOMAIN Dexes, NEW a, NEW b
  PROVE  Entries(Accepted(Dexes[j], CreatedIn(Dexes[j].name, a, b)))
<1> DEFINE d == Dexes[j]
           logs == Created[d.name]
           p == InOrder(PlacesIn(d.name, a, b), Len(logs))
           found == CreatedIn(d.name, a, b)
           q == InOrder(Wanted(d, found), Len(found))
<1>1. d.name \in Names /\ Len(logs) \in Nat /\ DOMAIN logs = 1 .. Len(logs)
  BY DexType, LogsType
<1>2. \A n \in DOMAIN logs :
        /\ logs[n].pool \in Pools /\ Info[logs[n].pool].tag \in Tags
        /\ Info[logs[n].pool].tag = "v2" => d.fee \subseteq {Info[logs[n].pool].fee}
  <2>1. TAKE n \in DOMAIN logs
  <2>2. logs[n] \in [block : Nat, pool : Pools]
    BY <1>1, LogsType, Elements DEF LogsOf
  <2>3. Info[logs[n].pool].factory = d.name BY HydrationAssumption DEF HydrationAssumption
  <2>4. QED BY <2>2, <2>3, HydrationAssumption DEF HydrationAssumption, KindOf
<1>3. /\ found = Through(p, logs) /\ found \in LogsOf /\ Len(found) \in Nat
      /\ DOMAIN found = 1 .. Len(found)
  <2>1. found = Through(p, logs) BY CreatedThrough
  <2>2. found \in LogsOf BY <1>1, CreatedType
  <2> HIDE DEF found
  <2>3. Len(found) \in Nat /\ DOMAIN found = 1 .. Len(found) BY <2>2, Elements DEF LogsOf
  <2>4. QED BY <2>1, <2>2, <2>3
<1>4. \A i \in DOMAIN p : p[i] \in DOMAIN logs
  BY <1>1, Picked
<1> HIDE DEF p
<1>5. \A i \in DOMAIN found : \E n \in DOMAIN logs : found[i] = logs[n]
  BY <1>3, <1>4 DEF Through
<1>6. \A i \in DOMAIN q : q[i] \in DOMAIN found
  BY <1>3, Picked
<1>7. IsList(q) BY <1>3, Picked
<1>8. Accepted(d, found) = Through(q, DecodedAt(d, found))
  BY <1>3, AcceptedThrough
<1>9. ASSUME NEW i \in DOMAIN found PROVE IsEntry(DecodedAt(d, found)[i])
  <2>1. PICK n \in DOMAIN logs : found[i] = logs[n] BY <1>5
  <2> DEFINE x == logs[n].pool
  <2>2. DecodedAt(d, found)[i] = Decoded(d, x) BY <2>1 DEF DecodedAt
  <2>3. x \in Pools /\ Info[x].tag \in Tags /\ (Info[x].tag = "v2" => d.fee \subseteq {Info[x].fee})
    BY <1>2
  <2> HIDE DEF x, d
  <2>4. QED BY <2>2, <2>3 DEF Decoded, IsEntry, RightKind
<1> HIDE DEF q, found, logs, d
<1>10. Entries(Through(q, DecodedAt(d, found)))
  <2>1. IsList(Through(q, DecodedAt(d, found))) BY <1>7, ListThrough
  <2>2. \A i \in DOMAIN q : Through(q, DecodedAt(d, found))[i] = DecodedAt(d, found)[q[i]]
    BY DEF Through
  <2>3. DOMAIN Through(q, DecodedAt(d, found)) = DOMAIN q BY DEF Through
  <2>4. QED BY <1>6, <1>9, <2>1, <2>2, <2>3 DEF Entries
<1>11. QED BY <1>8, <1>10 DEF found, d

-----------------------------------------------------------------------------
(* Lists of calls and their answers.                                        *)

\* An answer is what the chain says, or nothing.
LEMMA AnswerAt ==
  ASSUME NEW ps, IsList(ps), NEW kinds, NEW per \in {1, 2, 3, 6}, Len(kinds) = per,
         NEW bad, NEW n \in DOMAIN ps, NEW j \in 1 .. per
  PROVE  Ask(Calls(ps, kinds), bad)[At(n, j, per)] \subseteq Chain(ps[n], kinds[j])
<1> DEFINE c == At(n, j, per)
<1>1. Len(ps) \in Nat /\ n \in 1 .. Len(ps) BY ListFacts
<1>2. c \in 1 .. Len(ps) * per /\ (c - 1) \div per + 1 = n /\ ((c - 1) % per) + 1 = j
  <2>1. \A m \in Nat : n \in 1 .. m =>
          /\ c \in 1 .. m * per /\ (c - 1) \div per + 1 = n /\ ((c - 1) % per) + 1 = j
    <3>1. CASE per = 1 BY <3>1 DEF At
    <3>2. CASE per = 2 BY <3>2 DEF At
    <3>3. CASE per = 3
      <4>1. TAKE m \in Nat
      <4>2. HAVE n \in 1 .. m
      <4>3. c = (n - 1) * 3 + j /\ j \in 1 .. 3 BY <3>3 DEF At
      <4>4. n - 1 \in Nat /\ n \in Nat /\ n - 1 <= m - 1 BY <4>2
      <4>5. c \in 1 .. m * 3 BY <4>3, <4>4
      <4>6. (c - 1) \div 3 = n - 1 /\ (c - 1) % 3 = j - 1
        <5>1. \A a \in Nat : (a * 3 + 0) \div 3 = a /\ (a * 3 + 0) % 3 = 0 OBVIOUS
        <5>2. \A a \in Nat : (a * 3 + 1) \div 3 = a /\ (a * 3 + 1) % 3 = 1 OBVIOUS
        <5>3. \A a \in Nat : (a * 3 + 2) \div 3 = a /\ (a * 3 + 2) % 3 = 2 OBVIOUS
        <5> HIDE DEF c
        <5>4. CASE j = 1
          <6>1. c - 1 = (n - 1) * 3 + 0 BY <4>3, <4>4, <5>4
          <6>2. QED BY <4>4, <5>1, <5>4, <6>1
        <5>5. CASE j = 2
          <6>1. c - 1 = (n - 1) * 3 + 1 BY <4>3, <4>4, <5>5
          <6>2. QED BY <4>4, <5>2, <5>5, <6>1
        <5>6. CASE j = 3
          <6>1. c - 1 = (n - 1) * 3 + 2 BY <4>3, <4>4, <5>6
          <6>2. QED BY <4>4, <5>3, <5>6, <6>1
        <5>7. QED BY <4>3, <5>4, <5>5, <5>6
      <4> HIDE DEF c
      <4>7. QED BY <3>3, <4>3, <4>4, <4>5, <4>6
    <3>4. CASE per = 6 BY <3>4 DEF At
    <3>5. QED BY <3>1, <3>2, <3>3, <3>4
  <2> HIDE DEF c
  <2>2. QED BY <1>1, <2>1, Zenon
<1> HIDE DEF c
<1>3. c \in DOMAIN Calls(ps, kinds) /\ Calls(ps, kinds)[c] = <<ps[n], kinds[j]>>
  BY <1>2 DEF Calls
<1>4. Ask(Calls(ps, kinds), bad)[c] \in {{}, Chain(ps[n], kinds[j])}
  BY <1>3 DEF Ask
<1>5. QED BY <1>4 DEF c

LEMMA ChainSays ==
  ASSUME NEW p
  PROVE  /\ Chain(p, "fee") \subseteq {Info[p].fee}
         /\ Chain(p, "tickSpacing") \subseteq {Info[p].spacing}
         /\ \A tag \in {"volatile", "stable"} :
              Chain(p, FeeCall(tag))
                \subseteq {Info[p].fee} \cup (IF tag = Info[p].tag THEN {} ELSE {Info[p].crossFee})
         /\ Chain(p, "factory") \subseteq {Info[p].factory}
         /\ Chain(p, "stable") \subseteq {"stable", "volatile"}
BY DEF Chain, FeeCall

LEMMA PinAnswers ==
  ASSUME NEW ps, IsList(ps), NEW bad, NEW n \in DOMAIN ps
  PROVE  /\ Ask(Calls(ps, PinCalls), bad)[At(n, 3, 6)] \subseteq {Info[ps[n]].factory}
         /\ Ask(Calls(ps, PinCalls), bad)[At(n, 4, 6)] \subseteq {Info[ps[n]].spacing}
         /\ Ask(Calls(ps, PinCalls), bad)[At(n, 5, 6)] \subseteq {Info[ps[n]].fee}
         /\ Ask(Calls(ps, PinCalls), bad)[At(n, 6, 6)] \subseteq {"stable", "volatile"}
<1>1. /\ Len(PinCalls) = 6 /\ PinCalls[3] = "factory" /\ PinCalls[4] = "tickSpacing"
      /\ PinCalls[5] = "fee" /\ PinCalls[6] = "stable"
  BY DEF PinCalls
<1>2. Ask(Calls(ps, PinCalls), bad)[At(n, 3, 6)] \subseteq Chain(ps[n], PinCalls[3])
  BY <1>1, AnswerAt
<1>3. Ask(Calls(ps, PinCalls), bad)[At(n, 5, 6)] \subseteq Chain(ps[n], PinCalls[5])
  BY <1>1, AnswerAt
<1>4. Ask(Calls(ps, PinCalls), bad)[At(n, 6, 6)] \subseteq Chain(ps[n], PinCalls[6])
  BY <1>1, AnswerAt
<1>5. Ask(Calls(ps, PinCalls), bad)[At(n, 4, 6)] \subseteq Chain(ps[n], PinCalls[4])
  BY <1>1, AnswerAt
<1>6. QED BY <1>1, <1>2, <1>3, <1>4, <1>5, ChainSays

\* The first option there is, or the default.
LEMMA OneOfIn ==
  ASSUME NEW options, NEW default
  PROVE  IF options = {} THEN OneOf(options, default) = default ELSE OneOf(options, default) \in options
BY DEF OneOf

\* What a pool is pinned as is an entry for it.
LEMMA PinnedIsEntry ==
  ASSUME NEW x \in Pools, NEW d, d \in DexOf(Info[x].factory), d.kind # "v4",
         NEW spacing, spacing \subseteq {Info[x].spacing},
         NEW fee, fee \subseteq {Info[x].fee}, NEW stable, stable \subseteq {"stable", "volatile"}
  PROVE  IsEntry(PinnedAs(d, x, spacing, fee, stable))
<1>1. PICK i \in DOMAIN Dexes : d = Dexes[i] /\ Dexes[i].name = Info[x].factory
  BY DEF DexOf
<1>2. /\ d.kind \in {"v2", "aero", "v3", "algebra"} /\ KindOf(Info[x].tag) = d.kind
      /\ d.kind = "v2" => d.fee \subseteq {Info[x].fee}
  BY <1>1, HydrationAssumption DEF HydrationAssumption
<1>3. OneOf(stable, "volatile") \in {"stable", "volatile"}
  BY OneOfIn
<1>4. /\ PinnedAs(d, x, spacing, fee, stable).tag \in Tags \ {"v4"}
      /\ KindOf(PinnedAs(d, x, spacing, fee, stable).tag) = d.kind
  BY <1>2, <1>3 DEF PinnedAs, Tags, KindOf
<1>5. PinnedAs(d, x, spacing, fee, stable).fee \subseteq {Info[x].fee}
  BY <1>2 DEF PinnedAs
<1>6. /\ PinnedAs(d, x, spacing, fee, stable).pool = x
      /\ PinnedAs(d, x, spacing, fee, stable).spacing \subseteq {Info[x].spacing}
  BY DEF PinnedAs
<1>7. QED BY <1>2, <1>4, <1>5, <1>6 DEF IsEntry, RightKind

\* A list picked from another has only elements of that one.
LEMMA SelectIs ==
  ASSUME NEW s, NEW K, NEW t, IsList(s),
         t = [m \in DOMAIN InOrder(K, Len(s)) |-> s[InOrder(K, Len(s))[m]]]
  PROVE  /\ IsList(t) /\ DOMAIN t = DOMAIN InOrder(K, Len(s))
         /\ \A m \in DOMAIN t : \E n \in DOMAIN s : n \in K /\ t[m] = s[n]
<1> DEFINE p == InOrder(K, Len(s))
<1>1. Len(s) \in Nat /\ DOMAIN s = 1 .. Len(s) BY ListFacts
<1>2. IsList(p) /\ \A i \in DOMAIN p : p[i] \in K /\ p[i] \in 1 .. Len(s) BY <1>1, Picked
<1> HIDE DEF p
<1>3. t = Through(p, s) BY DEF Through, p
<1>4. IsList(t) /\ DOMAIN t = DOMAIN p BY <1>2, <1>3, ListThrough
<1>5. \A m \in DOMAIN t : t[m] = s[p[m]] BY <1>3, <1>4 DEF Through
<1>6. QED BY <1>1, <1>2, <1>4, <1>5 DEF p

\* A pool pinned by its address is listed as what it answered.
LEMMA AddressPinsEntries ==
  ASSUME NEW pins, IsList(pins), \A n \in DOMAIN pins : pins[n].pool \in Pools, NEW bad
  PROVE  Entries(AddressPins(pins, Ask(Calls(PoolsOf(pins), PinCalls), bad)))
<1> DEFINE ans == Ask(Calls(PoolsOf(pins), PinCalls), bad)
           A(n, j) == ans[At(n, j, Len(PinCalls))]
           dex(n) == UNION {DexOf(f) : f \in A(n, 3)}
           K == {n \in DOMAIN pins : /\ A(n, 1) # {} /\ A(n, 2) # {} /\ dex(n) # {}
                                     /\ \A d \in dex(n) : d.kind # "v4"}
           p == InOrder(K, Len(pins))
           made(n) == PinnedAs(CHOOSE d \in dex(n) : TRUE, pins[n].pool,
                              A(n, 4), A(n, 5), A(n, 6))
<1>1. Len(pins) \in Nat /\ DOMAIN pins = 1 .. Len(pins) BY ListFacts
<1>2. AddressPins(pins, ans) = [m \in DOMAIN p |-> made(p[m])]
  BY Zenon DEF AddressPins, Some
<1>3. IsList(PoolsOf(pins)) /\ DOMAIN PoolsOf(pins) = DOMAIN pins
  <2> DEFINE s == PoolsOf(pins)
  <2>1. DOMAIN s = 1 .. Len(pins) /\ s = [j \in DOMAIN s |-> s[j]] BY <1>1 DEF PoolsOf
  <2> HIDE DEF s
  <2>2. QED BY <1>1, <2>1, FunctionIsSeq DEF IsList, s
<1>4. ASSUME NEW n \in K PROVE IsEntry(made(n))
  <2>1. n \in DOMAIN pins /\ pins[n].pool \in Pools /\ PoolsOf(pins)[n] = pins[n].pool
    BY DEF PoolsOf
  <2>2. /\ ans[At(n, 3, 6)] \subseteq {Info[pins[n].pool].factory}
        /\ ans[At(n, 4, 6)] \subseteq {Info[pins[n].pool].spacing}
        /\ ans[At(n, 5, 6)] \subseteq {Info[pins[n].pool].fee}
        /\ ans[At(n, 6, 6)] \subseteq {"stable", "volatile"}
    <3>1. n \in DOMAIN PoolsOf(pins) BY <1>3, <2>1
    <3>2. QED BY <1>3, <2>1, <3>1, PinAnswers
  <2>3. Len(PinCalls) = 6 BY DEF PinCalls
  <2>4. dex(n) # {} /\ (\A d \in dex(n) : d.kind # "v4") OBVIOUS
  <2> HIDE DEF ans, K
  <2>5. \A d \in dex(n) : d \in DexOf(Info[pins[n].pool].factory)
    BY <2>2, <2>3
  <2>6. \A d \in dex(n) : IsEntry(PinnedAs(d, pins[n].pool, A(n, 4), A(n, 5), A(n, 6)))
    BY <2>1, <2>2, <2>3, <2>4, <2>5, PinnedIsEntry
  <2>7. (CHOOSE d \in dex(n) : TRUE) \in dex(n) BY <2>4
  <2>8. QED BY <2>6, <2>7
<1>5. IsList(p) /\ \A m \in DOMAIN p : p[m] \in K BY <1>1, Picked
<1> HIDE DEF p, K, made, ans
<1> DEFINE t == [m \in DOMAIN p |-> made(p[m])]
<1>6. Len(p) \in Nat /\ DOMAIN p = 1 .. Len(p) BY <1>5, ListFacts
<1>7. DOMAIN t = 1 .. Len(p) /\ t = [m \in DOMAIN t |-> t[m]] /\ \A m \in DOMAIN t : IsEntry(t[m])
  BY <1>4, <1>5, <1>6
<1> HIDE DEF t
<1>8. Entries(t) BY <1>6, <1>7, FunctionIsSeq DEF Entries, IsList
<1>9. QED BY <1>2, <1>8 DEF t, ans

LEMMA V4CandidatesEntries ==
  ASSUME NEW pins, IsList(pins), \A n \in DOMAIN pins : pins[n].pool \in Pools
  PROVE  Entries(V4Candidates(pins))
<1> DEFINE K == {n \in DOMAIN pins :
                   /\ DexOf(pins[n].dex) # {}
                   /\ \/ pins[n].by = "key" /\ PoolFromKey(pins[n].pool)
                      \/ pins[n].by = "id"
                           /\ {i \in DOMAIN disk[pins[n].dex].pools :
                                 disk[pins[n].dex].pools[i].pool = pins[n].pool} # {}}
           p == InOrder(K, Len(pins))
           made == [n \in DOMAIN pins |->
                      [pool |-> pins[n].pool, tag |-> "v4", fee |-> {Info[pins[n].pool].fee},
                       spacing |-> {Info[pins[n].pool].spacing}]]
<1>1. Len(pins) \in Nat /\ DOMAIN pins = 1 .. Len(pins) BY ListFacts
<1>2. V4Candidates(pins)
        = [m \in DOMAIN p |-> [pool |-> pins[p[m]].pool, tag |-> "v4",
                               fee |-> {Info[pins[p[m]].pool].fee},
                               spacing |-> {Info[pins[p[m]].pool].spacing}]]
  BY Zenon DEF V4Candidates, Some
<1>3. IsList(p) /\ \A m \in DOMAIN p : p[m] \in DOMAIN pins BY <1>1, Picked
<1> HIDE DEF p, K
<1>4. V4Candidates(pins) = Through(p, made)
  BY <1>2, <1>3 DEF Through
<1>5. \A n \in DOMAIN pins : IsEntry(made[n])
  BY DEF IsEntry, RightKind, Tags
<1> HIDE DEF made
<1>6. IsList(Through(p, made)) /\ DOMAIN Through(p, made) = DOMAIN p BY <1>3, ListThrough
<1>7. \A m \in DOMAIN p : Through(p, made)[m] = made[p[m]] BY DEF Through
<1>8. QED BY <1>3, <1>4, <1>5, <1>6, <1>7 DEF Entries

\* pools.toml gives entries of its pools.
LEMMA LoadPinsEntries ==
  ASSUME LoadPins, setup \in Setups
  PROVE  Entries(all')
<1> DEFINE byAddress == Select(setup.pins, LAMBDA n : setup.pins[n].by = "address")
           others == Select(setup.pins, LAMBDA n : setup.pins[n].by # "address")
           v4 == V4Candidates(others)
           calls == Calls(PoolsOf(byAddress), PinCalls)
           probes == Calls(PoolsOf(v4), <<"price">>)
<1>1. IsList(setup.pins) /\ \A n \in DOMAIN setup.pins : setup.pins[n].pool \in Pools
  BY HydrationAssumption DEF HydrationAssumption, IsList
<1>2. IsList(byAddress) /\ \A n \in DOMAIN byAddress : byAddress[n].pool \in Pools
  <2> DEFINE K == {n \in DOMAIN setup.pins : setup.pins[n].by = "address"}
  <2>1. byAddress = [m \in DOMAIN InOrder(K, Len(setup.pins)) |->
                       setup.pins[InOrder(K, Len(setup.pins))[m]]]
    BY Zenon DEF Select, Some
  <2> HIDE DEF K, byAddress
  <2>2. IsList(byAddress) /\ \A m \in DOMAIN byAddress : \E n \in DOMAIN setup.pins :
          n \in K /\ byAddress[m] = setup.pins[n]
    BY <1>1, <2>1, SelectIs
  <2>3. QED BY <1>1, <2>2
<1>3. IsList(others) /\ \A n \in DOMAIN others : others[n].pool \in Pools
  <2> DEFINE K == {n \in DOMAIN setup.pins : setup.pins[n].by # "address"}
  <2>1. others = [m \in DOMAIN InOrder(K, Len(setup.pins)) |->
                       setup.pins[InOrder(K, Len(setup.pins))[m]]]
    BY ZenonT(40) DEF Select, Some
  <2> HIDE DEF K, others
  <2>2. IsList(others) /\ \A m \in DOMAIN others : \E n \in DOMAIN setup.pins :
          n \in K /\ others[m] = setup.pins[n]
    BY <1>1, <2>1, SelectIs, SMTT(40)
  <2>3. QED BY <1>1, <2>2
<1>4. PICK bad \in Failures(DOMAIN calls), dead \in SUBSET DOMAIN probes :
        all' = AddressPins(byAddress, Ask(calls, bad))
                 \o Some(v4, LAMBDA n : Ask(probes, dead)[n] = {1}, LAMBDA n : v4[n])
  BY DEF LoadPins
<1> HIDE DEF byAddress, others
<1>5. Entries(AddressPins(byAddress, Ask(calls, bad)))
  BY <1>2, AddressPinsEntries
<1>6. Entries(v4) BY <1>3, V4CandidatesEntries
<1> HIDE DEF v4
<1> DEFINE t == Some(v4, LAMBDA n : Ask(probes, dead)[n] = {1}, LAMBDA n : v4[n])
<1>7. Entries(t)
  <2> DEFINE K == {n \in DOMAIN v4 : Ask(probes, dead)[n] = {1}}
  <2>1. t = [m \in DOMAIN InOrder(K, Len(v4)) |-> v4[InOrder(K, Len(v4))[m]]]
    BY Zenon DEF Some
  <2>2. IsList(v4) BY <1>6 DEF Entries
  <2> HIDE DEF K, t
  <2>3. IsList(t) /\ \A m \in DOMAIN t : \E n \in DOMAIN v4 : n \in K /\ t[m] = v4[n]
    BY <2>1, <2>2, SelectIs
  <2>4. QED BY <1>6, <2>3 DEF Entries
<1> HIDE DEF t
<1>8. all' = AddressPins(byAddress, Ask(calls, bad)) \o t BY <1>4 DEF t
<1>9. QED BY <1>5, <1>7, <1>8, EntriesConcat

\* Each pool once.
Distinct(s) == \A i, j \in DOMAIN s : s[i].pool = s[j].pool => i = j

\* Deduplication leaves each pool once, and nothing that was not there.
LEMMA FirstOfEachIs ==
  ASSUME NEW s, IsList(s)
  PROVE  /\ IsList(FirstOfEach(s)) /\ Distinct(FirstOfEach(s))
         /\ \A m \in DOMAIN FirstOfEach(s) : \E n \in DOMAIN s : FirstOfEach(s)[m] = s[n]
<1> DEFINE K == {n \in DOMAIN s : \A i \in 1 .. n - 1 : s[i].pool # s[n].pool}
           p == InOrder(K, Len(s))
           t == FirstOfEach(s)
<1>1. t = [m \in DOMAIN p |-> s[p[m]]] BY Zenon DEF FirstOfEach, Select, Some
<1>2. DOMAIN s = 1 .. Len(s) /\ Len(s) \in Nat BY ListFacts
<1>3. /\ \A i \in DOMAIN p : p[i] \in K
      /\ \A i, j \in DOMAIN p : i < j => p[i] < p[j]
      /\ DOMAIN p = 1 .. Len(p) /\ Len(p) \in Nat
  BY <1>2, Picked
<1>4. IsList(t) /\ DOMAIN t = DOMAIN p /\ \A m \in DOMAIN t : \E n \in DOMAIN s : n \in K /\ t[m] = s[n]
  <2> HIDE DEF t, K
  <2>1. QED BY <1>1, SelectIs
<1>5. ASSUME NEW i \in DOMAIN p, NEW j \in DOMAIN p, i < j PROVE t[i].pool # t[j].pool
  <2>1. p[i] < p[j] /\ p[i] \in K /\ p[j] \in K BY <1>3, <1>5
  <2>2. p[i] \in 1 .. p[j] - 1 BY <1>2, <2>1
  <2>3. s[p[i]].pool # s[p[j]].pool BY <2>1, <2>2
  <2>4. QED BY <1>1, <2>3
<1>6. Distinct(t)
  <2> HIDE DEF t, p
  <2>1. \A i, j \in DOMAIN p : i # j => i < j \/ j < i BY <1>3
  <2>2. QED BY <1>4, <1>5, <2>1 DEF Distinct
<1>7. QED BY <1>4, <1>6

-----------------------------------------------------------------------------
(* What is registered.                                                      *)

Hydrating == {"v2", "v3", "algebra", "v4", "gate", "probe", "filter"}

\* The tags of the pools that have been read when the process is at s.
ReadAt(s) ==
  CASE s = "v3" -> {"v2", "volatile", "stable"}
    [] s = "algebra" -> {"v2", "volatile", "stable", "v3"}
    [] s = "v4" -> {"v2", "volatile", "stable", "v3", "algebra"}
    [] s \in {"gate", "probe", "filter"} -> Tags
    [] OTHER -> {}

\* What a pool may be seen to hold of an anchor, without the decimals of missed.
HeldBy(p, a, missed) == IF a \in missed THEN Info[p].misread[a] ELSE Info[p].depth[a]

Held(r, a, missed) ==
  CASE r.tag \in {"v3", "algebra"} -> {0, Info[r.pool].depth[a]}
    [] r.tag = "v4" -> {HeldBy(r.pool, a, missed) \div 2}
    [] OTHER -> {HeldBy(r.pool, a, missed)}

LEMMA HeldIs ==
  /\ \A p, a : Scaled(p, a) = HeldBy(p, a, unscaled)
  /\ \A r, a : DepthsOf(r, a) = Held(r, a, unscaled)
BY DEF DepthsOf, Held, Scaled, HeldBy

Fields(r) ==
  r = [pool |-> r.pool, tag |-> r.tag, fee |-> r.fee, spacing |-> r.spacing, gate |-> r.gate]

IsReg(r, missed) ==
  /\ Fields(r) /\ r.pool \in Pools
  /\ r.fee \in FeesOf(r) /\ r.spacing \in SpacingsOf(r)
  /\ r.gate = {} => r.tag \in {"v3", "algebra"}
  /\ \A depth \in r.gate : \A a \in Anchors : depth[a] \in Held(r, a, missed)

\* Registrations of some of the entries of s that have one of the tags, each once.
RegsOK(rs, s, tags, missed) ==
  /\ IsList(rs) /\ Distinct(rs)
  /\ \A n \in DOMAIN rs :
       /\ IsReg(rs[n], missed) /\ rs[n].tag \in tags
       /\ \E m \in DOMAIN s : s[m].pool = rs[n].pool /\ s[m].tag = rs[n].tag

EngineOK ==
  \A n \in DOMAIN engine :
    /\ engine[n].idx = n - 1
    /\ \A m \in DOMAIN engine : engine[m].pool = engine[n].pool => m = n

RegInv ==
  /\ setup \in Setups
  /\ Entries(all)
  /\ pc \in Hydrating => Distinct(all)
  /\ RegsOK(regs, all, ReadAt(pc), unscaled)
  /\ pc # "panicked"
  /\ pc = "built" => EngineOK

\* What is made of some elements of a list, one pool to each, has each pool once.
LEMMA PickedOnce ==
  ASSUME NEW s, IsList(s), Distinct(s), NEW K, NEW made, NEW t,
         t = [m \in DOMAIN InOrder(K, Len(s)) |-> made[InOrder(K, Len(s))[m]]],
         \A n \in DOMAIN s : n \in K => made[n].pool = s[n].pool
  PROVE  /\ IsList(t) /\ Distinct(t)
         /\ \A m \in DOMAIN t : \E n \in DOMAIN s : n \in K /\ t[m] = made[n]
<1> DEFINE p == InOrder(K, Len(s))
<1>1. Len(s) \in Nat /\ DOMAIN s = 1 .. Len(s) BY ListFacts
<1>2. /\ IsList(p) /\ \A i \in DOMAIN p : p[i] \in K /\ p[i] \in DOMAIN s
      /\ \A i, j \in DOMAIN p : p[i] = p[j] => i = j
  BY <1>1, Picked
<1> HIDE DEF p
<1>3. t = Through(p, made) BY DEF Through, p
<1>4. IsList(t) /\ DOMAIN t = DOMAIN p BY <1>2, <1>3, ListThrough
<1>5. \A m \in DOMAIN t : t[m] = made[p[m]] BY <1>3, <1>4 DEF Through
<1>6. \A m \in DOMAIN t : t[m].pool = s[p[m]].pool BY <1>2, <1>4, <1>5
<1>7. Distinct(t)
  <2>1. \A i, j \in DOMAIN t : s[p[i]].pool = s[p[j]].pool => p[i] = p[j]
    BY <1>2, <1>4 DEF Distinct
  <2>2. QED BY <1>2, <1>4, <1>6, <2>1 DEF Distinct
<1>8. QED BY <1>2, <1>4, <1>5, <1>7

\* The entries of one family are entries, each pool once.
LEMMA OfIs ==
  ASSUME Entries(all), Distinct(all), NEW tags
  PROVE  /\ Entries(Of(tags)) /\ Distinct(Of(tags))
         /\ \A n \in DOMAIN Of(tags) :
              Of(tags)[n].tag \in tags /\ \E m \in DOMAIN all : all[m] = Of(tags)[n]
<1> DEFINE K == {n \in DOMAIN all : all[n].tag \in tags}
           t == Of(tags)
<1>1. t = [m \in DOMAIN InOrder(K, Len(all)) |-> all[InOrder(K, Len(all))[m]]]
  BY Zenon DEF Of, Select, Some
<1>2. IsList(all) BY DEF Entries
<1>3. IsList(t) /\ Distinct(t) /\ \A m \in DOMAIN t : \E n \in DOMAIN all : n \in K /\ t[m] = all[n]
  <2> HIDE DEF K, t
  <2>1. \A n \in DOMAIN all : n \in K => all[n].pool = all[n].pool OBVIOUS
  <2>2. QED BY <1>1, <1>2, <2>1, PickedOnce
<1>4. \A m \in DOMAIN t : t[m].tag \in tags BY <1>3
<1> HIDE DEF K, t
<1>5. Entries(t) BY <1>3 DEF Entries
<1>6. QED BY <1>3, <1>4, <1>5 DEF t

\* What is made of the elements of ps whose places are in K, each a good registration.
NewFrom(new, ps, K, made, missed) ==
  /\ new = [m \in DOMAIN InOrder(K, Len(ps)) |-> made[InOrder(K, Len(ps))[m]]]
  /\ \A n \in DOMAIN ps : n \in K =>
       IsReg(made[n], missed) /\ made[n].pool = ps[n].pool /\ made[n].tag = ps[n].tag

\* What is made of the entries of some tags are registrations of those tags.
LEMMA NewRegs ==
  ASSUME Entries(all), Distinct(all), NEW tags, NEW ps, ps = Of(tags),
         NEW K, NEW made, NEW new, NEW missed, NewFrom(new, ps, K, made, missed)
  PROVE  RegsOK(new, all, tags, missed)
<1>1. /\ IsList(ps) /\ Distinct(ps)
      /\ \A n \in DOMAIN ps : ps[n].tag \in tags /\ \E m \in DOMAIN all : all[m] = ps[n]
  BY OfIs DEF Entries
<1>2. \A n \in DOMAIN ps : n \in K => made[n].pool = ps[n].pool BY DEF NewFrom
<1>3. /\ IsList(new) /\ Distinct(new)
      /\ \A m \in DOMAIN new : \E n \in DOMAIN ps : n \in K /\ new[m] = made[n]
  BY <1>1, <1>2, PickedOnce DEF NewFrom
<1>4. ASSUME NEW m \in DOMAIN new
      PROVE  /\ IsReg(new[m], missed) /\ new[m].tag \in tags
             /\ \E i \in DOMAIN all : all[i].pool = new[m].pool /\ all[i].tag = new[m].tag
  <2>1. PICK n \in DOMAIN ps : n \in K /\ new[m] = made[n] BY <1>3
  <2>2. IsReg(made[n], missed) /\ made[n].pool = ps[n].pool /\ made[n].tag = ps[n].tag
    BY <2>1 DEF NewFrom
  <2>3. ps[n].tag \in tags /\ \E i \in DOMAIN all : all[i] = ps[n] BY <1>1
  <2>4. QED BY <2>1, <2>2, <2>3
<1>5. QED BY <1>3, <1>4 DEF RegsOK

\* Registrations of disjoint families may be appended.
LEMMA RegsConcat ==
  ASSUME NEW s, Distinct(s), NEW r1, NEW T1, NEW missed, RegsOK(r1, s, T1, missed), NEW r2, NEW T2, RegsOK(r2, s, T2, missed),
         T1 \cap T2 = {}
  PROVE  RegsOK(r1 \o r2, s, T1 \cup T2, missed)
<1> DEFINE r == r1 \o r2
<1>1. IsList(r1) /\ IsList(r2) BY DEF RegsOK
<1>2. /\ IsList(r)
      /\ \A i \in DOMAIN r :
           \/ i \in DOMAIN r1 /\ r[i] = r1[i]
           \/ i - Len(r1) \in DOMAIN r2 /\ i > Len(r1) /\ r[i] = r2[i - Len(r1)]
      /\ DOMAIN r = 1 .. Len(r1) + Len(r2)
  BY <1>1, ListConcat
<1>3. /\ Len(r1) \in Nat /\ DOMAIN r1 = 1 .. Len(r1)
      /\ Len(r2) \in Nat /\ DOMAIN r2 = 1 .. Len(r2)
  BY <1>1, ListFacts
<1> HIDE DEF r
<1>4. \A i \in DOMAIN r :
        /\ IsReg(r[i], missed) /\ r[i].tag \in T1 \cup T2
        /\ \E m \in DOMAIN s : s[m].pool = r[i].pool /\ s[m].tag = r[i].tag
  BY <1>2 DEF RegsOK
<1>5. \A i \in DOMAIN r1, j \in DOMAIN r2 : r1[i].pool # r2[j].pool
  <2>1. TAKE i \in DOMAIN r1, j \in DOMAIN r2
  <2>2. PICK m \in DOMAIN s : s[m].pool = r1[i].pool /\ s[m].tag = r1[i].tag BY DEF RegsOK
  <2>3. PICK n \in DOMAIN s : s[n].pool = r2[j].pool /\ s[n].tag = r2[j].tag BY DEF RegsOK
  <2>4. r1[i].tag \in T1 /\ r2[j].tag \in T2 BY DEF RegsOK
  <2>5. QED BY <2>2, <2>3, <2>4 DEF Distinct
<1>6. Distinct(r)
  <2> SUFFICES ASSUME NEW i \in DOMAIN r, NEW j \in DOMAIN r, r[i].pool = r[j].pool PROVE i = j
    BY DEF Distinct
  <2>1. i \in Nat /\ j \in Nat BY <1>2
  <2>2. CASE i \in DOMAIN r1 /\ r[i] = r1[i] /\ j \in DOMAIN r1 /\ r[j] = r1[j]
    BY <2>2 DEF RegsOK, Distinct
  <2>3. CASE i \in DOMAIN r1 /\ r[i] = r1[i] /\ j - Len(r1) \in DOMAIN r2 /\ r[j] = r2[j - Len(r1)]
    BY <1>5, <2>3
  <2>4. CASE i - Len(r1) \in DOMAIN r2 /\ r[i] = r2[i - Len(r1)] /\ j \in DOMAIN r1 /\ r[j] = r1[j]
    BY <1>5, <2>4
  <2>5. CASE /\ i - Len(r1) \in DOMAIN r2 /\ r[i] = r2[i - Len(r1)]
             /\ j - Len(r1) \in DOMAIN r2 /\ r[j] = r2[j - Len(r1)]
    <3>1. i - Len(r1) = j - Len(r1) BY <2>5 DEF RegsOK, Distinct
    <3>2. QED BY <1>3, <2>1, <3>1
  <2>6. QED BY <1>2, <2>2, <2>3, <2>4, <2>5
<1>7. QED BY <1>2, <1>4, <1>6 DEF RegsOK, r

LEMMA RegFields ==
  ASSUME NEW r, NEW e, NEW fee, NEW gate, r = Reg(e, fee, gate)
  PROVE  /\ r.pool = e.pool /\ r.tag = e.tag /\ r.fee = fee /\ r.gate = gate
         /\ r.spacing = SpacingOf(e) /\ Fields(r)
BY DEF Reg, Fields

\* An entry's spacing is its pool's, or 60 where a call may have failed.
LEMMA SpacingIsRead ==
  ASSUME NEW e, IsEntry(e), NEW r, r.pool = e.pool, r.tag = e.tag
  PROVE  SpacingOf(e) \in SpacingsOf(r)
<1>1. e.spacing \subseteq {Info[e.pool].spacing} /\ (e.tag = "v4" => e.spacing # {})
  BY DEF IsEntry
<1>2. OneOf(e.spacing, 60) \in {Info[e.pool].spacing, 60}
      /\ (e.spacing # {} => OneOf(e.spacing, 60) = Info[e.pool].spacing)
  BY <1>1, OneOfIn
<1>3. QED BY <1>1, <1>2 DEF SpacingOf, SpacingsOf

\* What is registered for an entry, with a fee and a gate of its own.
LEMMA IsRegOf ==
  ASSUME NEW e, IsEntry(e), NEW fee, NEW gate, NEW missed, NEW r, r = Reg(e, fee, gate),
         gate = {} => e.tag \in {"v3", "algebra"},
         \A x : x.pool = e.pool /\ x.tag = e.tag =>
           /\ fee \in FeesOf(x)
           /\ \A depth \in gate : \A a \in Anchors : depth[a] \in Held(x, a, missed)
  PROVE  IsReg(r, missed) /\ r.pool = e.pool /\ r.tag = e.tag
<1>1. /\ r.pool = e.pool /\ r.tag = e.tag /\ r.fee = fee /\ r.gate = gate
      /\ r.spacing = SpacingOf(e) /\ Fields(r)
  BY RegFields
<1>2. r.spacing \in SpacingsOf(r) BY <1>1, SpacingIsRead
<1>3. r.pool \in Pools BY <1>1 DEF IsEntry
<1>4. r.fee \in FeesOf(r) BY <1>1
<1>5. \A depth \in r.gate : \A a \in Anchors : depth[a] \in Held(r, a, missed) BY <1>1
<1>6. r.gate = {} => r.tag \in {"v3", "algebra"} BY <1>1
<1>7. QED BY <1>1, <1>2, <1>3, <1>4, <1>5, <1>6 DEF IsReg

\* A stage of hydration appends the registrations of its family, or fails.
LEMMA HydrateStepRegs ==
  ASSUME RegInv, NEW from \in Hydrating, NEW to, NEW failed, NEW new, NEW tags,
         HydrateStep(from, to, failed, new), to \in Hydrating, RegsOK(new, all, tags, unscaled),
         ReadAt(to) = ReadAt(from) \cup tags, ReadAt(from) \cap tags = {}
  PROVE  RegInv'
<1>1. /\ pc = from /\ pc' = to /\ regs' = regs \o new /\ all' = all /\ setup' = setup
      /\ engine' = engine /\ unscaled' = unscaled
  BY DEF HydrateStep
<1>2. /\ setup \in Setups /\ Entries(all) /\ Distinct(all) /\ RegsOK(regs, all, ReadAt(from), unscaled)
  BY <1>1 DEF RegInv
<1>3. RegsOK(regs \o new, all, ReadAt(to), unscaled) BY <1>2, RegsConcat
<1>4. to # "panicked" /\ to # "built" BY DEF Hydrating
<1>5. Entries(all') BY <1>1, <1>2
<1>6. Distinct(all') BY <1>1, <1>2
<1>7. RegsOK(regs', all', ReadAt(pc'), unscaled') BY <1>1, <1>3
<1>8. setup' \in Setups /\ pc' # "panicked" /\ pc' # "built" BY <1>1, <1>2, <1>4
<1>9. QED BY <1>5, <1>6, <1>7, <1>8 DEF RegInv

\* V3 and Algebra pools: three answers to a pool, read by position.
LEMMA HydrateClStep ==
  ASSUME RegInv, NEW tag \in {"v3", "algebra"}, NEW to,
         to = IF tag = "v3" THEN "algebra" ELSE "v4", HydrateCl(tag, tag, to)
  PROVE  RegInv'
<1> DEFINE ps == Of({tag})
           kinds == <<"price", "liquidity", "fee">>
           calls == Calls(PoolsOf(ps), kinds)
<1>1. PICK bad \in Failures(DOMAIN calls) :
        LET A(n, j) == Ask(calls, bad)[At(n, j, 3)]
        IN HydrateStep(tag, to, bad,
             Some(ps,
                  LAMBDA n : /\ A(n, 1) # {} /\ A(n, 2) # {}
                             /\ tag = "algebra" => A(n, 1) # {0},
                  LAMBDA n : Reg(ps[n], OneOf(IF ps[n].fee # {} THEN ps[n].fee ELSE A(n, 3), 3000),
                                 {})))
  BY DEF HydrateCl
<1> DEFINE A(n, j) == Ask(calls, bad)[At(n, j, 3)]
           K == {n \in DOMAIN ps : /\ A(n, 1) # {} /\ A(n, 2) # {}
                                   /\ tag = "algebra" => A(n, 1) # {0}}
           fee(n) == OneOf(IF ps[n].fee # {} THEN ps[n].fee ELSE A(n, 3), 3000)
           made == [n \in DOMAIN ps |-> Reg(ps[n], fee(n), {})]
           p == InOrder(K, Len(ps))
           new == [m \in DOMAIN p |-> Reg(ps[p[m]], fee(p[m]), {})]
<1>2. HydrateStep(tag, to, bad, new) BY <1>1, Zenon DEF Some
<1>3. Entries(all) /\ Distinct(all)
  BY <1>1 DEF RegInv, HydrateStep, Hydrating
<1>4. Entries(ps) /\ \A n \in DOMAIN ps : ps[n].tag = tag
  BY <1>3, OfIs
<1>5. IsList(ps) /\ Len(ps) \in Nat /\ DOMAIN ps = 1 .. Len(ps) BY <1>4, ListFacts DEF Entries
<1>6. IsList(PoolsOf(ps)) /\ DOMAIN PoolsOf(ps) = DOMAIN ps
  <2> DEFINE s == PoolsOf(ps)
  <2> HIDE DEF ps
  <2>1. DOMAIN s = 1 .. Len(ps) /\ s = [j \in DOMAIN s |-> s[j]] BY <1>5 DEF PoolsOf
  <2> HIDE DEF s
  <2>2. QED BY <1>5, <2>1, FunctionIsSeq DEF IsList, s
<1>7. ASSUME NEW n \in DOMAIN ps PROVE A(n, 3) \subseteq {Info[ps[n].pool].fee}
  <2> HIDE DEF ps
  <2>1. PoolsOf(ps)[n] = ps[n].pool /\ n \in DOMAIN PoolsOf(ps) BY <1>6 DEF PoolsOf
  <2>2. Len(kinds) = 3 /\ kinds[3] = "fee" OBVIOUS
  <2>3. Ask(calls, bad)[At(n, 3, 3)] \subseteq Chain(PoolsOf(ps)[n], kinds[3])
    <3> HIDE DEF kinds
    <3>1. QED BY <1>6, <2>1, <2>2, AnswerAt
  <2>4. QED BY <2>1, <2>2, <2>3, ChainSays
<1>8. ASSUME NEW n \in DOMAIN ps
      PROVE  IsReg(made[n], unscaled) /\ made[n].pool = ps[n].pool /\ made[n].tag = ps[n].tag
  <2>1. IsEntry(ps[n]) /\ ps[n].fee \subseteq {Info[ps[n].pool].fee} /\ ps[n].tag = tag
    BY <1>4 DEF Entries, IsEntry
  <2>2. fee(n) \in {Info[ps[n].pool].fee, 3000}
    <3> DEFINE options == IF ps[n].fee # {} THEN ps[n].fee ELSE A(n, 3)
    <3>1. options \subseteq {Info[ps[n].pool].fee} BY <1>7, <2>1
    <3>2. fee(n) = OneOf(options, 3000) OBVIOUS
    <3> HIDE DEF options, fee, ps
    <3>3. QED BY <3>1, <3>2 DEF OneOf
  <2>3. made[n] = Reg(ps[n], fee(n), {}) OBVIOUS
  <2> HIDE DEF fee, ps, made
  <2>4. \A x : x.pool = ps[n].pool /\ x.tag = ps[n].tag => fee(n) \in FeesOf(x)
    BY <2>1, <2>2 DEF FeesOf
  <2>5. QED BY <2>1, <2>3, <2>4, IsRegOf
<1>9. \A n \in DOMAIN ps : n \in K =>
        IsReg(made[n], unscaled) /\ made[n].pool = ps[n].pool /\ made[n].tag = ps[n].tag
  <2> HIDE DEF K, made, ps
  <2>1. QED BY <1>8
<1>10. new = [m \in DOMAIN p |-> made[p[m]]]
  <2>1. \A m \in DOMAIN p : p[m] \in DOMAIN ps
    <3> HIDE DEF K, ps
    <3>1. QED BY <1>5, Picked
  <2> HIDE DEF p, fee, ps
  <2>2. QED BY <2>1
<1>11. RegsOK(new, all, {tag}, unscaled)
  <2>1. ps = Of({tag}) OBVIOUS
  <2> HIDE DEF new, made, K, ps
  <2>2. NewFrom(new, ps, K, made, unscaled) BY <1>9, <1>10 DEF NewFrom, p
  <2> HIDE DEF p
  <2>3. QED BY <1>3, <2>1, <2>2, NewRegs, Zenon
<1> HIDE DEF new
<1>12. CASE tag = "v3"
  <2>1. ReadAt(to) = ReadAt(tag) \cup {tag} /\ ReadAt(tag) \cap {tag} = {}
        /\ tag \in Hydrating /\ to \in Hydrating
    BY <1>12 DEF ReadAt, Hydrating
  <2>2. QED BY <1>2, <1>11, <2>1, HydrateStepRegs
<1>13. CASE tag = "algebra"
  <2>1. ReadAt(to) = ReadAt(tag) \cup {tag} /\ ReadAt(tag) \cap {tag} = {}
        /\ tag \in Hydrating /\ to \in Hydrating
    BY <1>13 DEF ReadAt, Hydrating
  <2>2. QED BY <1>2, <1>11, <2>1, HydrateStepRegs
<1>14. QED BY <1>12, <1>13

\* V4 pools: the answers of the state view, by position.
LEMMA HydrateV4Step ==
  ASSUME RegInv, HydrateV4
  PROVE  RegInv'
<1> DEFINE ps == Of({"v4"})
           calls == Calls(PoolsOf(ps), <<"price", "liquidity">>)
<1>1. PICK bad \in Failures(DOMAIN calls) :
        LET A(n, j) == Ask(calls, bad)[At(n, j, 2)]
        IN HydrateStep("v4", "gate", bad,
             Some(ps,
                  LAMBDA n : LET p == ps[n].pool
                             IN /\ A(n, 1) = {1} /\ A(n, 2) # {}
                                /\ ~ Info[p].protocolFee
                                /\ {Info[p].lpFee} = ps[n].fee,
                  LAMBDA n : Reg(ps[n], OneOf(ps[n].fee, 0),
                                 {[a \in Anchors |-> Scaled(ps[n].pool, a) \div 2]})))
  BY DEF HydrateV4
<1> DEFINE A(n, j) == Ask(calls, bad)[At(n, j, 2)]
           K == {n \in DOMAIN ps :
                   LET q == ps[n].pool
                   IN /\ A(n, 1) = {1} /\ A(n, 2) # {}
                      /\ ~ Info[q].protocolFee
                      /\ {Info[q].lpFee} = ps[n].fee}
           gate(n) == {[a \in Anchors |-> Scaled(ps[n].pool, a) \div 2]}
           made == [n \in DOMAIN ps |-> Reg(ps[n], OneOf(ps[n].fee, 0), gate(n))]
           p == InOrder(K, Len(ps))
           new == [m \in DOMAIN p |-> Reg(ps[p[m]], OneOf(ps[p[m]].fee, 0), gate(p[m]))]
<1>2. HydrateStep("v4", "gate", bad, new) BY <1>1, ZenonT(40) DEF Some
<1>3. Entries(all) /\ Distinct(all)
  BY <1>1 DEF RegInv, HydrateStep, Hydrating
<1>4. ps = Of({"v4"}) /\ Entries(ps) BY <1>3, OfIs
<1>11. \A n \in DOMAIN ps : ps[n].tag = "v4" BY <1>3, OfIs
<1>5. \A n \in K : {Info[ps[n].pool].lpFee} = ps[n].fee OBVIOUS
<1>6. \A n \in DOMAIN ps : made[n] = Reg(ps[n], OneOf(ps[n].fee, 0), gate(n)) OBVIOUS
<1>7. new = [m \in DOMAIN p |-> made[p[m]]]
  <2>1. IsList(ps) /\ Len(ps) \in Nat /\ DOMAIN ps = 1 .. Len(ps) BY <1>4, ListFacts DEF Entries
  <2>2. \A m \in DOMAIN p : p[m] \in DOMAIN ps
    <3> HIDE DEF K, ps
    <3>1. QED BY <2>1, Picked
  <2> HIDE DEF p, gate, ps
  <2>3. QED BY <2>2
<1> HIDE DEF ps, K, made, new
<1>8. ASSUME NEW n \in DOMAIN ps, n \in K
      PROVE  IsReg(made[n], unscaled) /\ made[n].pool = ps[n].pool /\ made[n].tag = ps[n].tag
  <2>1. IsEntry(ps[n]) /\ ps[n].fee \subseteq {Info[ps[n].pool].fee} /\ ps[n].tag = "v4"
    BY <1>4, <1>11 DEF Entries, IsEntry
  <2>2. ps[n].fee # {} BY <1>5, <1>8
  <2>3. OneOf(ps[n].fee, 0) = Info[ps[n].pool].fee BY <2>1, <2>2 DEF OneOf
  <2>4. \A depth \in gate(n) : \A a \in Anchors :
          depth[a] = HeldBy(ps[n].pool, a, unscaled) \div 2
    BY HeldIs
  <2> DEFINE held == gate(n)
  <2>5. made[n] = Reg(ps[n], OneOf(ps[n].fee, 0), held) BY <1>6
  <2>6. held # {}
        /\ \A depth \in held : \A a \in Anchors : depth[a] = HeldBy(ps[n].pool, a, unscaled) \div 2
    BY <2>4
  <2> HIDE DEF held, gate
  <2>7. \A x : x.pool = ps[n].pool /\ x.tag = ps[n].tag =>
          /\ OneOf(ps[n].fee, 0) \in FeesOf(x)
          /\ \A depth \in held : \A a \in Anchors : depth[a] \in Held(x, a, unscaled)
    BY <2>1, <2>3, <2>6 DEF FeesOf, Held
  <2>8. QED BY <2>1, <2>5, <2>6, <2>7, IsRegOf
<1>9. NewFrom(new, ps, K, made, unscaled) BY <1>7, <1>8 DEF NewFrom
<1>10. RegsOK(new, all, {"v4"}, unscaled) BY <1>3, <1>4, <1>9, NewRegs, Zenon
<1>12. ReadAt("gate") = ReadAt("v4") \cup {"v4"} /\ ReadAt("v4") \cap {"v4"} = {}
       /\ "v4" \in Hydrating /\ "gate" \in Hydrating
  BY DEF ReadAt, Hydrating, Tags
<1>13. QED BY <1>2, <1>10, <1>12, HydrateStepRegs, SMTT(40)

LEMMA OneCallEach ==
  ASSUME NEW ps, IsList(ps), NEW kinds, Len(kinds) = 1
  PROVE  IsList(Calls(ps, kinds)) /\ Len(Calls(ps, kinds)) = Len(ps)
<1> DEFINE calls == Calls(ps, kinds)
<1>1. Len(ps) \in Nat BY ListFacts
<1>2. 1 .. Len(ps) * Len(kinds) = 1 .. Len(ps) BY <1>1
<1>3. DOMAIN calls = 1 .. Len(ps) BY <1>2, Zenon DEF Calls
<1>4. calls = [c \in DOMAIN calls |-> calls[c]] BY Zenon DEF Calls
<1> HIDE DEF calls
<1>5. IsList(calls) BY <1>1, <1>3, <1>4, FunctionIsSeq DEF IsList
<1>6. QED BY <1>1, <1>3, <1>5, ListFacts DEF calls

\* The fees of the Aerodrome pools are asked for after everybody's reserves.
LEMMA SecondList ==
  ASSUME NEW ps, IsList(ps), NEW feeCalls, IsList(feeCalls), NEW bad, NEW m \in DOMAIN feeCalls,
         NEW q, NEW what, feeCalls[m] = <<q, what>>
  PROVE  LET calls == Calls(ps, <<"reserves">>)
             ans == Ask(calls \o feeCalls, bad)
         IN SubSeq(ans, Len(calls) + 1, Len(ans))[m] \subseteq Chain(q, what)
<1> DEFINE calls == Calls(ps, <<"reserves">>)
           both == calls \o feeCalls
           ans == Ask(both, bad)
<1>1. /\ Len(ps) \in Nat /\ DOMAIN ps = 1 .. Len(ps)
      /\ Len(feeCalls) \in Nat /\ DOMAIN feeCalls = 1 .. Len(feeCalls)
  BY ListFacts
<1>2. IsList(calls) /\ Len(calls) = Len(ps)
  <2> DEFINE one == <<"reserves">>
  <2>1. Len(one) = 1 OBVIOUS
  <2> HIDE DEF one
  <2>2. QED BY <2>1, OneCallEach
<1> HIDE DEF calls
<1>4. /\ DOMAIN both = 1 .. Len(ps) + Len(feeCalls)
      /\ \A i \in DOMAIN both :
           \/ i \in DOMAIN calls /\ both[i] = calls[i]
           \/ i - Len(calls) \in DOMAIN feeCalls /\ i > Len(calls)
                /\ both[i] = feeCalls[i - Len(calls)]
  BY <1>1, <1>2, ListConcat
<1>5. DOMAIN calls = 1 .. Len(ps) BY <1>1, <1>2, ListFacts
<1>6. both[Len(ps) + m] = <<q, what>>
  <2>1. Len(ps) + m \in DOMAIN both /\ Len(ps) + m \notin 1 .. Len(ps) /\ Len(ps) + m - Len(ps) = m
    BY <1>1, <1>4
  <2>2. both[Len(ps) + m] = feeCalls[Len(ps) + m - Len(calls)] BY <1>4, <1>5, <2>1
  <2>3. QED BY <1>2, <2>1, <2>2
<1> HIDE DEF both
<1>7. ans[Len(ps) + m] \subseteq Chain(q, what)
  <2>1. Len(ps) + m \in DOMAIN both BY <1>1, <1>4
  <2>2. QED BY <1>6, <2>1 DEF Ask
<1>8. DOMAIN ans = 1 .. Len(ps) + Len(feeCalls) /\ ans = [i \in DOMAIN ans |-> ans[i]]
  BY <1>4 DEF Ask
<1> HIDE DEF ans
<1>9. IsList(ans) BY <1>1, <1>8, FunctionIsSeq DEF IsList
<1>10. Len(ans) = Len(ps) + Len(feeCalls) BY <1>1, <1>8, <1>9, ListFacts
<1>11. SubSeq(ans, Len(calls) + 1, Len(ans))[m] = ans[Len(ps) + m]
  <2>1. SubSeq(ans, Len(ps) + 1, Len(ps) + Len(feeCalls))
          = [i \in 1 .. Len(ps) + Len(feeCalls) - Len(ps) |-> ans[Len(ps) + i]]
    <3>1. \A i \in 1 .. Len(feeCalls) : Len(ps) + 1 + i - 1 = Len(ps) + i BY <1>1
    <3>2. QED BY <1>1, <1>9, <3>1 DEF IsList
  <2>2. QED BY <1>1, <1>2, <1>10, <2>1
<1>12. QED BY <1>7, <1>11 DEF ans, both, calls

LEMMA PoolsOfIs ==
  ASSUME NEW s, IsList(s)
  PROVE  /\ IsList(PoolsOf(s)) /\ DOMAIN PoolsOf(s) = DOMAIN s
         /\ \A n \in DOMAIN s : PoolsOf(s)[n] = s[n].pool
<1> DEFINE t == PoolsOf(s)
<1>1. Len(s) \in Nat /\ DOMAIN s = 1 .. Len(s) BY ListFacts
<1>2. DOMAIN t = 1 .. Len(s) /\ t = [j \in DOMAIN t |-> t[j]] /\ \A n \in DOMAIN s : t[n] = s[n].pool
  BY <1>1 DEF PoolsOf
<1> HIDE DEF t
<1>3. IsList(t) BY <1>1, <1>2, FunctionIsSeq DEF IsList
<1>4. QED BY <1>1, <1>2, <1>3 DEF t

\* V2 and Aerodrome pools: reserves of all, then the fees of the latter.
LEMMA HydrateV2Step ==
  ASSUME RegInv, HydrateV2
  PROVE  RegInv'
<1> DEFINE tags == {"v2", "volatile", "stable"}
           ps == Of(tags)
           aeroPools == Of({"volatile", "stable"})
           calls == Calls(PoolsOf(ps), <<"reserves">>)
           feeCalls == [m \in DOMAIN aeroPools |->
                          <<aeroPools[m].pool, FeeCall(aeroPools[m].tag)>>]
           feeAt(e, fees) == UNION {fees[m] : m \in {i \in DOMAIN aeroPools : aeroPools[i] = e}}
           fee(e, fees) == CASE e.tag = "v2" -> OneOf(e.fee, 30)
                             [] e.tag = "volatile" -> OneOf(feeAt(e, fees), 30)
                             [] OTHER -> OneOf(feeAt(e, fees), 5)
<1>1. PICK bad \in Failures(1 .. Len(calls) + Len(feeCalls)) :
        LET ans == Ask(calls \o feeCalls, bad)
            fees == SubSeq(ans, Len(calls) + 1, Len(ans))
        IN HydrateStep("v2", "v3", bad,
             Some(ps, LAMBDA n : ans[n] # {},
                  LAMBDA n : LET e == ps[n] IN Reg(e,
                    CASE e.tag = "v2" -> OneOf(e.fee, 30)
                      [] e.tag = "volatile" -> OneOf(feeAt(e, fees), 30)
                      [] OTHER -> OneOf(feeAt(e, fees), 5),
                    {[a \in Anchors |-> Scaled(e.pool, a)]})))
  BY DEF HydrateV2
<1> DEFINE ans == Ask(calls \o feeCalls, bad)
           fees == SubSeq(ans, Len(calls) + 1, Len(ans))
           K == {n \in DOMAIN ps : ans[n] # {}}
           f(n) == fee(ps[n], fees)
           gate(n) == {[a \in Anchors |-> Scaled(ps[n].pool, a)]}
           made == [n \in DOMAIN ps |-> Reg(ps[n], f(n), gate(n))]
           p == InOrder(K, Len(ps))
           new == [m \in DOMAIN p |-> Reg(ps[p[m]], f(p[m]), gate(p[m]))]
<1>2. HydrateStep("v2", "v3", bad, new) BY <1>1, Zenon DEF Some
<1>3. Entries(all) /\ Distinct(all)
  BY <1>1 DEF RegInv, HydrateStep, Hydrating
<1>4. ps = Of(tags) /\ Entries(ps) /\ \A n \in DOMAIN ps : ps[n].tag \in tags BY <1>3, OfIs
<1>5. IsList(aeroPools) /\ \A m \in DOMAIN aeroPools : aeroPools[m].tag \in {"volatile", "stable"}
  BY <1>3, OfIs DEF Entries
<1>6. \A n \in DOMAIN ps : made[n] = Reg(ps[n], f(n), gate(n)) OBVIOUS
<1>7. \A m \in DOMAIN aeroPools :
        fees[m] \subseteq {Info[aeroPools[m].pool].fee}
          \cup (IF aeroPools[m].tag = Info[aeroPools[m].pool].tag THEN {}
                ELSE {Info[aeroPools[m].pool].crossFee})
  <2>1. IsList(ps) BY <1>4 DEF Entries
  <2>2. IsList(feeCalls) /\ DOMAIN feeCalls = DOMAIN aeroPools
    <3> HIDE DEF aeroPools
    <3>1. DOMAIN aeroPools = 1 .. Len(aeroPools) /\ Len(aeroPools) \in Nat BY <1>5, ListFacts
    <3>2. DOMAIN feeCalls = 1 .. Len(aeroPools) /\ feeCalls = [m \in DOMAIN feeCalls |-> feeCalls[m]]
      BY <3>1
    <3> HIDE DEF feeCalls
    <3>3. QED BY <3>1, <3>2, FunctionIsSeq DEF IsList
  <2>3. \A m \in DOMAIN aeroPools : feeCalls[m] = <<aeroPools[m].pool, FeeCall(aeroPools[m].tag)>>
    OBVIOUS
  <2> HIDE DEF ps, aeroPools, feeCalls, K, f, gate, made, p, new, feeAt, fee
  <2>4. IsList(PoolsOf(ps)) BY <2>1, PoolsOfIs
  <2>5. \A m \in DOMAIN aeroPools :
          fees[m] \subseteq Chain(aeroPools[m].pool, FeeCall(aeroPools[m].tag))
    BY <2>2, <2>3, <2>4, SecondList
  <2> HIDE DEF fees
  <2>6. QED BY <1>5, <2>5, ChainSays
<1>8. \A n \in DOMAIN ps :
        feeAt(ps[n], fees) \subseteq {Info[ps[n].pool].fee}
          \cup (IF ps[n].tag = Info[ps[n].pool].tag THEN {} ELSE {Info[ps[n].pool].crossFee})
  <2> HIDE DEF fees, ps, aeroPools
  <2>1. QED BY <1>7
<1>9. new = [m \in DOMAIN p |-> made[p[m]]]
  <2>1. IsList(ps) /\ Len(ps) \in Nat /\ DOMAIN ps = 1 .. Len(ps) BY <1>4, ListFacts DEF Entries
  <2>2. \A m \in DOMAIN p : p[m] \in DOMAIN ps
    <3> HIDE DEF K, ps
    <3>1. QED BY <2>1, Picked
  <2> HIDE DEF p, ps, f, gate
  <2>3. QED BY <2>2
<1>10. ASSUME NEW n \in DOMAIN ps, NEW x, x.pool = ps[n].pool, x.tag = ps[n].tag
       PROVE  f(n) \in FeesOf(x)
  <2>1. ps[n].fee \subseteq {Info[ps[n].pool].fee} /\ ps[n].tag \in tags BY <1>4 DEF Entries, IsEntry
  <2>2. feeAt(ps[n], fees) \subseteq {Info[ps[n].pool].fee}
          \cup (IF ps[n].tag = Info[ps[n].pool].tag THEN {} ELSE {Info[ps[n].pool].crossFee})
    BY <1>8
  <2> HIDE DEF fees, ps, feeAt
  <2>3. CASE ps[n].tag = "v2" BY <1>10, <2>1, <2>3 DEF OneOf, FeesOf
  <2>4. CASE ps[n].tag = "volatile" BY <1>10, <2>2, <2>4 DEF OneOf, FeesOf
  <2>5. CASE ps[n].tag = "stable" BY <1>10, <2>2, <2>5 DEF OneOf, FeesOf
  <2>6. QED BY <2>1, <2>3, <2>4, <2>5
<1>11. ASSUME NEW n \in DOMAIN ps
       PROVE  IsReg(made[n], unscaled) /\ made[n].pool = ps[n].pool /\ made[n].tag = ps[n].tag
  <2> DEFINE held == gate(n)
             charged == f(n)
  <2>1. IsEntry(ps[n]) /\ ps[n].tag \in tags BY <1>4 DEF Entries
  <2>2. held # {} /\ \A depth \in held : \A a \in Anchors : depth[a] = HeldBy(ps[n].pool, a, unscaled)
    BY HeldIs
  <2>3. made[n] = Reg(ps[n], charged, held) BY <1>6
  <2>4. \A x : x.pool = ps[n].pool /\ x.tag = ps[n].tag => charged \in FeesOf(x) BY <1>10
  <2> HIDE DEF held, charged, made, f, gate, ps
  <2>5. \A x : x.pool = ps[n].pool /\ x.tag = ps[n].tag =>
          \A depth \in held : \A a \in Anchors : depth[a] \in Held(x, a, unscaled)
    <3>1. ps[n].tag \in {"v2", "volatile", "stable"} BY <2>1
    <3>2. \A x : x.pool = ps[n].pool /\ x.tag = ps[n].tag => \A a \in Anchors :
            Held(x, a, unscaled) = {HeldBy(ps[n].pool, a, unscaled)}
      BY <3>1 DEF Held
    <3> SUFFICES ASSUME NEW x, x.pool = ps[n].pool, x.tag = ps[n].tag,
                        NEW depth \in held, NEW a \in Anchors
                 PROVE  depth[a] \in Held(x, a, unscaled)
      OBVIOUS
    <3>3. Held(x, a, unscaled) = {HeldBy(ps[n].pool, a, unscaled)} BY <3>2
    <3>4. depth[a] = HeldBy(ps[n].pool, a, unscaled) BY <2>2
    <3>5. QED BY <3>3, <3>4
  <2>6. \A x : x.pool = ps[n].pool /\ x.tag = ps[n].tag =>
          /\ charged \in FeesOf(x)
          /\ \A depth \in held : \A a \in Anchors : depth[a] \in Held(x, a, unscaled)
    BY <2>4, <2>5
  <2>7. QED BY <2>1, <2>2, <2>3, <2>6, IsRegOf
<1> HIDE DEF ps, K, made, new, f, gate
<1>12. NewFrom(new, ps, K, made, unscaled) BY <1>9, <1>11 DEF NewFrom
<1>13. RegsOK(new, all, tags, unscaled)
  <2> HIDE DEF tags
  <2>1. QED BY <1>3, <1>4, <1>12, NewRegs, Zenon
<1>14. ReadAt("v3") = ReadAt("v2") \cup tags /\ ReadAt("v2") \cap tags = {}
       /\ "v2" \in Hydrating /\ "v3" \in Hydrating
  BY DEF ReadAt, Hydrating
<1>15. QED
  <2> HIDE DEF tags
  <2>1. QED BY <1>2, <1>13, <1>14, HydrateStepRegs

LEMMA NoRegs ==
  ASSUME NEW rs, NEW s, NEW missed, RegsOK(rs, s, {}, missed), NEW t, NEW others
  PROVE  RegsOK(rs, t, {}, others)
BY DEF RegsOK

LEMMA NothingYet ==
  ASSUME NEW s, NEW tags, NEW missed
  PROVE  Entries(<< >>) /\ Distinct(<< >>) /\ RegsOK(<< >>, s, tags, missed)
BY EmptyList DEF Entries, Distinct, RegsOK

LEMMA DedupeStep ==
  ASSUME RegInv, Dedupe
  PROVE  RegInv'
<1>1. /\ pc = "hydrate" /\ pc' = "v2" /\ all' = FirstOfEach(all) /\ setup' = setup
      /\ regs' = regs
  BY DEF Dedupe
<1>2. IsList(all) /\ setup \in Setups /\ Entries(all) /\ RegsOK(regs, all, {}, unscaled)
  BY <1>1 DEF RegInv, Entries, ReadAt
<1>3. /\ IsList(FirstOfEach(all)) /\ Distinct(FirstOfEach(all))
      /\ \A m \in DOMAIN FirstOfEach(all) : \E n \in DOMAIN all : FirstOfEach(all)[m] = all[n]
  BY <1>2, FirstOfEachIs
<1>4. Entries(FirstOfEach(all)) BY <1>2, <1>3 DEF Entries
<1>5. RegsOK(regs, FirstOfEach(all), {}, unscaled') BY <1>2, NoRegs
<1>6. ReadAt("v2") = {} BY DEF ReadAt
<1>7. Entries(all') BY <1>1, <1>4
<1>8. Distinct(all') BY <1>1, <1>3
<1>9. RegsOK(regs', all', ReadAt(pc'), unscaled') BY <1>1, <1>5, <1>6
<1>10. setup' \in Setups /\ pc' = "v2" BY <1>1, <1>2
<1>11. QED BY <1>7, <1>8, <1>9, <1>10 DEF RegInv

\* The balances of the gate, by position.
LEMMA ReadBalancesStep ==
  ASSUME RegInv, ReadBalances
  PROVE  RegInv'
<1> DEFINE targets == {c \in (DOMAIN regs) \X Anchors :
                         regs[c[1]].gate = {} /\ c[2] \in Tokens(regs[c[1]].pool)}
<1>1. PICK bad \in Failures(targets) :
        regs' = [n \in DOMAIN regs |->
                  IF regs[n].gate # {} THEN regs[n]
                  ELSE [regs[n] EXCEPT !.gate =
                         {[a \in Anchors |-> IF <<n, a>> \in targets \ bad
                                             THEN Info[regs[n].pool].depth[a] ELSE 0]}]]
  BY DEF ReadBalances
<1> DEFINE T == targets \ bad
<1>2. /\ pc = "gate" /\ pc' = "probe" /\ all' = all /\ setup' = setup /\ unscaled' = unscaled
  BY DEF ReadBalances
<1>3. setup \in Setups /\ Entries(all) /\ Distinct(all) /\ RegsOK(regs, all, Tags, unscaled)
  BY <1>2 DEF RegInv, Hydrating, ReadAt
<1>4. IsList(regs) /\ Len(regs) \in Nat /\ DOMAIN regs = 1 .. Len(regs)
  BY <1>3, ListFacts DEF RegsOK
<1> HIDE DEF targets
<1>5. \A n \in DOMAIN regs :
        regs'[n] = IF regs[n].gate # {} THEN regs[n]
                   ELSE [regs[n] EXCEPT !.gate =
                          {[a \in Anchors |-> IF <<n, a>> \in T THEN Info[regs[n].pool].depth[a] ELSE 0]}]
  BY <1>1
<1>6. DOMAIN regs' = DOMAIN regs /\ regs' = [n \in DOMAIN regs' |-> regs'[n]] BY <1>1
<1> HIDE DEF T
<1>7. ASSUME NEW n \in DOMAIN regs
      PROVE  IsReg(regs'[n], unscaled) /\ regs'[n].pool = regs[n].pool /\ regs'[n].tag = regs[n].tag
  <2> DEFINE r == regs[n]
             s == regs'[n]
             depth == [a \in Anchors |-> IF <<n, a>> \in T THEN Info[regs[n].pool].depth[a] ELSE 0]
  <2>1. IsReg(r, unscaled) /\ r.tag \in Tags BY <1>3 DEF RegsOK
  <2>2. s = IF r.gate # {} THEN r ELSE [r EXCEPT !.gate = {depth}] BY <1>5
  <2>3. \A a \in Anchors : depth[a] \in {0, Info[r.pool].depth[a]}
    OBVIOUS
  <2> HIDE DEF r, s, depth
  <2>4. CASE r.gate # {} BY <2>1, <2>2, <2>4 DEF r, s
  <2>5. CASE r.gate = {}
    <3>1. s = [r EXCEPT !.gate = {depth}] BY <2>2, <2>5
    <3>2. r = [pool |-> r.pool, tag |-> r.tag, fee |-> r.fee, spacing |-> r.spacing, gate |-> r.gate]
      BY <2>1 DEF IsReg, Fields
    <3>3. s = [pool |-> r.pool, tag |-> r.tag, fee |-> r.fee, spacing |-> r.spacing, gate |-> {depth}]
      BY <3>1, <3>2
    <3>4. /\ s.pool = r.pool /\ s.tag = r.tag /\ s.fee = r.fee /\ s.spacing = r.spacing
          /\ s.gate = {depth} /\ Fields(s)
      BY <3>3 DEF Fields
    <3>5. r.tag \in {"v3", "algebra"} BY <2>1, <2>5 DEF IsReg
    <3>6. s.fee \in FeesOf(s) /\ s.spacing \in SpacingsOf(s)
      BY <2>1, <3>4 DEF IsReg, FeesOf, SpacingsOf
    <3>7. \A a \in Anchors : depth[a] \in Held(s, a, unscaled) BY <2>3, <3>4, <3>5 DEF Held
    <3>8. IsReg(s, unscaled) BY <2>1, <3>4, <3>5, <3>6, <3>7 DEF IsReg
    <3>9. QED BY <3>4, <3>8 DEF r, s
  <2>6. QED BY <2>4, <2>5
<1>8. IsList(regs') BY <1>4, <1>6, FunctionIsSeq DEF IsList
<1>9. Distinct(regs') BY <1>3, <1>6, <1>7 DEF RegsOK, Distinct
<1>10. RegsOK(regs', all, Tags, unscaled) BY <1>3, <1>6, <1>7, <1>8, <1>9 DEF RegsOK
<1>11. Entries(all') BY <1>2, <1>3
<1>12. Distinct(all') BY <1>2, <1>3
<1>13. ReadAt("probe") = Tags BY DEF ReadAt
<1>14. RegsOK(regs', all', ReadAt(pc'), unscaled') BY <1>2, <1>10, <1>13
<1>15. setup' \in Setups /\ pc' = "probe" BY <1>2, <1>3
<1>16. QED BY <1>11, <1>12, <1>14, <1>15 DEF RegInv

\* Engine::new registers what the filter kept, under its place in the list.
LEMMA BuildEngineStep ==
  ASSUME RegInv, BuildEngine
  PROVE  RegInv'
<1> DEFINE kept == Select(regs, LAMBDA n : Kept(regs[n]))
           K == {n \in DOMAIN regs : Kept(regs[n])}
<1>1. /\ pc = "filter" /\ all' = << >> /\ regs' = << >> /\ setup' = setup
      /\ pc' = IF \E i, j \in DOMAIN kept : i < j /\ kept[i].pool = kept[j].pool
               THEN "panicked" ELSE "built"
      /\ engine' = [n \in DOMAIN kept |->
                     [idx |-> n - 1, pool |-> kept[n].pool, tag |-> kept[n].tag, fee |-> kept[n].fee]]
  BY DEF BuildEngine
<1>2. setup \in Setups /\ IsList(regs) /\ Distinct(regs) BY DEF RegInv, RegsOK
<1>3. kept = [m \in DOMAIN InOrder(K, Len(regs)) |-> regs[InOrder(K, Len(regs))[m]]]
  BY Zenon DEF Select, Some
<1>4. \A n \in DOMAIN regs : n \in K => regs[n].pool = regs[n].pool OBVIOUS
<1> HIDE DEF kept, K
<1>5. IsList(kept) /\ Distinct(kept) BY <1>2, <1>3, <1>4, PickedOnce
<1>6. Len(kept) \in Nat /\ DOMAIN kept = 1 .. Len(kept) BY <1>5, ListFacts
<1>7. ~ \E i, j \in DOMAIN kept : i < j /\ kept[i].pool = kept[j].pool
  BY <1>5, <1>6 DEF Distinct
<1>8. pc' = "built" BY <1>1, <1>7
<1>9. EngineOK'
  <2>1. DOMAIN engine' = DOMAIN kept BY <1>1
  <2>2. \A n \in DOMAIN kept : engine'[n].idx = n - 1 /\ engine'[n].pool = kept[n].pool
    BY <1>1
  <2>3. QED BY <1>5, <2>1, <2>2 DEF EngineOK, Distinct
<1>10. Entries(all') /\ RegsOK(regs', all', ReadAt(pc'), unscaled') BY <1>1, NothingYet
<1>11. QED BY <1>1, <1>2, <1>8, <1>9, <1>10 DEF RegInv, Hydrating

LEMMA LoadCacheEntries ==
  ASSUME ScanInv, Entries(all), LoadCache
  PROVE  Entries(all')
<1> DEFINE c == disk[Dexes[k].name]
<1>1. pc = "open" /\ k <= Len(Dexes) BY DEF LoadCache
<1>2. k \in DOMAIN Dexes BY <1>1, DexDomain DEF ScanInv, AllOK
<1>3. CacheOK(Dexes[k], c) BY <1>2 DEF ScanInv, DiskOK
<1>4. Entries(c.pools)
  <2>1. CASE c.synced = 0
    <3>1. c.pools = << >> BY <1>3, <2>1 DEF CacheOK, NoCache
    <3>2. QED BY <3>1, NothingYet
  <2>2. CASE c.synced # 0
    <3>1. c.pools = Accepted(Dexes[k], CreatedIn(Dexes[k].name, Dexes[k].deploy, c.synced))
      BY <1>3, <2>2 DEF CacheOK, FoundBy
    <3>2. QED BY <1>2, <3>1, AcceptedEntries
  <2>3. QED BY <2>1, <2>2
<1>5. all' = all \/ all' = all \o c.pools BY DEF LoadCache, FromCache
<1>6. QED BY <1>4, <1>5, EntriesConcat

LEMMA ScanChunkEntries ==
  ASSUME ScanInv, Entries(all), NEW refused, NEW save \in BOOLEAN, ScanChunk(refused, save)
  PROVE  Entries(all')
<1> DEFINE d == Dexes[k]
           end == EndOf(next)
<1>1. /\ k \in DOMAIN Dexes /\ head \in Nat /\ next \in Nat /\ d.deploy <= next /\ next <= head
      /\ cache.pools = Accepted(d, CreatedIn(d.name, d.deploy, next - 1))
  BY DEF ScanChunk, ScanInv, ScanOK, FoundBy
<1>2. d.name \in Names BY <1>1, DexType
<1>3. next <= end /\ end <= head /\ end \in Nat
  <2>1. Chunk \in Nat \ {0} BY DiscoveryAssumption DEF DiscoveryAssumption
  <2>2. QED BY <1>1, <2>1 DEF EndOf
<1>4. PICK logs \in Fetch(d.name, next, end, refused) :
        all' = all \/ all' = all \o (cache.pools \o Accepted(d, logs))
  BY DEF ScanChunk
<1>5. logs = CreatedIn(d.name, next, end) BY <1>1, <1>2, <1>3, FetchIs
<1>6. Entries(cache.pools) BY <1>1, AcceptedEntries
<1>7. Entries(Accepted(d, logs)) BY <1>1, <1>5, AcceptedEntries
<1>8. Entries(cache.pools \o Accepted(d, logs)) BY <1>6, <1>7, EntriesConcat
<1>9. QED BY <1>4, <1>8, EntriesConcat

\* Where nothing is registered yet, a step that only adds to the pools found.
LEMMA BeforeHydration ==
  ASSUME RegInv, ReadAt(pc) = {}, Entries(all'), regs' = regs, setup' = setup,
         pc' \in {"boot", "pins", "open", "scan", "hydrate"}
  PROVE  RegInv'
<1>1. setup \in Setups /\ RegsOK(regs, all, {}, unscaled) BY DEF RegInv
<1>2. RegsOK(regs, all', {}, unscaled') BY <1>1, NoRegs
<1>3. ReadAt(pc') = {} BY DEF ReadAt
<1>4. RegsOK(regs', all', ReadAt(pc'), unscaled') BY <1>2, <1>3
<1>5. pc' \notin Hydrating /\ pc' # "panicked" /\ pc' # "built" BY DEF Hydrating
<1>6. QED BY <1>1, <1>4, <1>5 DEF RegInv

LEMMA DiscoverRegs ==
  ASSUME ScanInv, RegInv, Discover, regs' = regs, setup' = setup
  PROVE  RegInv'
<1>1. Entries(all) BY DEF RegInv
<1>2. CASE DiscoverAll
  BY <1>1, <1>2, BeforeHydration DEF DiscoverAll, ReadAt
<1>3. CASE LoadCache
  <2>1. Entries(all') BY <1>1, <1>3, LoadCacheEntries
  <2>2. pc = "open" /\ pc' \in {"open", "scan"} BY <1>3 DEF LoadCache
  <2>3. ReadAt(pc) = {} BY <2>2 DEF ReadAt
  <2>4. QED BY <2>1, <2>2, <2>3, BeforeHydration
<1>4. CASE \E refused \in SUBSET RangesOf(next, EndOf(next)), save \in BOOLEAN :
             ScanChunk(refused, save)
  <2>1. PICK refused \in SUBSET RangesOf(next, EndOf(next)), save \in BOOLEAN :
          ScanChunk(refused, save)
    BY <1>4
  <2>2. Entries(all') BY <1>1, <2>1, ScanChunkEntries
  <2>3. pc = "scan" /\ pc' \in {"open", "scan"} BY <2>1 DEF ScanChunk
  <2>4. ReadAt(pc) = {} BY <2>3 DEF ReadAt
  <2>5. QED BY <2>2, <2>3, <2>4, BeforeHydration
<1>5. CASE Discovered
  BY <1>1, <1>5, BeforeHydration DEF Discovered, ReadAt
<1>6. QED BY <1>2, <1>3, <1>4, <1>5 DEF Discover

\* A step that leaves what there is alone, and says no more of it.
LEMMA SameRegs ==
  ASSUME RegInv, UNCHANGED <<all, setup>>,
         \/ regs' = regs /\ unscaled' = unscaled /\ ReadAt(pc') = ReadAt(pc) /\ (pc' \in Hydrating => pc \in Hydrating)
         \/ regs' = << >> /\ pc' \notin Hydrating,
         pc' # "panicked", pc' = "built" => pc = "built" /\ engine' = engine
  PROVE  RegInv'
<1>1. setup' \in Setups /\ Entries(all') BY DEF RegInv
<1>2. pc' \in Hydrating => Distinct(all') BY DEF RegInv
<1>3. RegsOK(regs', all', ReadAt(pc'), unscaled')
  <2>1. CASE regs' = regs /\ unscaled' = unscaled /\ ReadAt(pc') = ReadAt(pc) BY <2>1 DEF RegInv
  <2>2. CASE regs' = << >> BY <2>2, NothingYet
  <2>3. QED BY <2>1, <2>2
<1>4. pc' = "built" => EngineOK' BY DEF RegInv, EngineOK
<1>5. QED BY <1>1, <1>2, <1>3, <1>4 DEF RegInv

LEMMA HydrateRegs ==
  ASSUME RegInv, Hydrate
  PROVE  RegInv'
<1>1. CASE LoadPins
  <2>1. setup \in Setups BY DEF RegInv
  <2>2. Entries(all') BY <1>1, <2>1, LoadPinsEntries, SMTT(40)
  <2>3. pc = "pins" /\ pc' = "hydrate" /\ regs' = regs /\ setup' = setup BY <1>1 DEF LoadPins
  <2>4. ReadAt(pc) = {} BY <2>3 DEF ReadAt
  <2>5. QED BY <2>2, <2>3, <2>4, BeforeHydration
<1>2. CASE Dedupe BY <1>2, DedupeStep
<1>3. CASE HydrateV2 BY <1>3, HydrateV2Step
<1>4. CASE HydrateCl("v3", "v3", "algebra") BY <1>4, HydrateClStep
<1>5. CASE HydrateCl("algebra", "algebra", "v4") BY <1>5, HydrateClStep
<1>6. CASE HydrateV4 BY <1>6, HydrateV4Step
<1>7. CASE ReadBalances BY <1>7, ReadBalancesStep
<1>8. CASE \E t \in AllTokens : ProbeToken(t)
  <2>1. /\ pc = "probe" /\ UNCHANGED <<pc, all, setup, unscaled, regs, engine>>
    BY <1>8 DEF ProbeToken, discoveryVars
  <2>2. QED BY <2>1, SameRegs
<1>9. CASE SaveVerdicts
  <2>1. pc = "probe" /\ pc' = "filter" /\ UNCHANGED <<all, setup, unscaled, regs, engine>>
    BY <1>9 DEF SaveVerdicts
  <2>2. ReadAt(pc') = ReadAt(pc) /\ pc \in Hydrating BY <2>1 DEF ReadAt, Hydrating
  <2>3. QED BY <2>1, <2>2, SameRegs
<1>10. CASE BuildEngine BY <1>10, BuildEngineStep
<1>11. QED
  BY <1>1, <1>2, <1>3, <1>4, <1>5, <1>6, <1>7, <1>8, <1>9, <1>10 DEF Hydrate

LEMMA ForgottenRegs ==
  ASSUME RegInv, Forget, ForgetPools, setup' = setup
  PROVE  RegInv'
<1>1. pc' = "down" /\ all' = << >> /\ regs' = << >> BY DEF Forget, ForgetPools
<1>2. Entries(all') /\ RegsOK(regs', all', ReadAt(pc'), unscaled') BY <1>1, NothingYet
<1>3. QED BY <1>1, <1>2 DEF RegInv, Hydrating

LEMMA RegInit == StartupInit => RegInv
<1> SUFFICES ASSUME StartupInit PROVE RegInv OBVIOUS
<1>1. pc = "down" /\ all = << >> /\ regs = << >> /\ setup \in Setups
  BY DEF StartupInit, Init, HydrationInit
<1>2. Entries(all) /\ RegsOK(regs, all, ReadAt(pc), unscaled) BY <1>1, NothingYet
<1>3. QED BY <1>1, <1>2 DEF RegInv, Hydrating

\* RegInv is inductive, next to ScanInv.
LEMMA RegStep == ScanInv /\ RegInv /\ [Next]_vars => RegInv'
<1> SUFFICES ASSUME ScanInv, RegInv, [Next]_vars PROVE RegInv' OBVIOUS
<1>1. CASE UNCHANGED <<pc, all, setup, unscaled, regs, engine>>
  BY <1>1, SameRegs DEF RegInv
<1>2. CASE Mine /\ UNCHANGED hydrationVars
  BY <1>1, <1>2 DEF Mine, hydrationVars
<1>3. CASE Start
  <2>1. ReadAt(pc) = {} BY <1>3 DEF Start, ReadAt
  <2>2. pc' \in {"boot", "pins"} BY <1>3 DEF Start
  <2>3. Entries(all') BY <1>3 DEF Start, RegInv
  <2>4. QED BY <1>3, <2>1, <2>2, <2>3, BeforeHydration DEF Start, hydrationVars
<1>4. CASE Discover /\ UNCHANGED hydrationVars
  BY <1>4, DiscoverRegs DEF hydrationVars
<1>5. CASE Hydrate BY <1>5, HydrateRegs
<1>6. CASE Layout /\ UNCHANGED <<tip, disk, head, k, cache, next, all, hydrationVars, verifyVars>>
  <2>1. \/ pc \in {"built", "layouts"} /\ pc' \in {"layouts", "planned"}
        \/ UNCHANGED pc
    BY <1>6 DEF Layout, BeginLayouts, BuildPlans, ProbeKind
  <2>2. CASE pc \in {"built", "layouts"} /\ pc' \in {"layouts", "planned"}
    <3>1. ReadAt(pc') = ReadAt(pc) /\ pc' \notin Hydrating /\ pc' # "panicked" /\ pc' # "built"
      BY <2>2 DEF ReadAt, Hydrating
    <3>2. UNCHANGED <<all, setup, unscaled, regs>> BY <1>6 DEF hydrationVars
    <3>3. QED BY <3>1, <3>2, SameRegs
  <2>3. CASE UNCHANGED pc BY <1>1, <1>6, <2>3 DEF hydrationVars
  <2>4. QED BY <2>1, <2>2, <2>3
<1>7. CASE Audit /\ UNCHANGED <<discoveryVars, hydrationVars, layoutVars>>
  BY <1>1, <1>7 DEF discoveryVars, hydrationVars
<1>8. CASE ForgetAll BY <1>8, ForgottenRegs DEF ForgetAll
<1>9. CASE UNCHANGED vars BY <1>1, <1>9 DEF vars, discoveryVars, hydrationVars
<1>10. QED
  BY <1>2, <1>3, <1>4, <1>5, <1>6, <1>7, <1>8, <1>9
     DEF Next, Stop, StopInWrite, StopInVerdicts

\* The invariant of hydration: every registration is that of an entry of the
\* list, which has each pool once, as its own answers made it.
THEOREM RegistrationInvariant == Spec => []RegInv
<1>1. QED BY RegInit, RegStep, ScanInvariant, PTL DEF Spec

\* Every pool of the engine is registered under its own id, once, with what the
\* chain answered for it, and where calls failed, whichever and however many, with
\* what stands in for them: the default fee of its kind or that of the other kind
\* of Aerodrome pool, the spacing 60, no depth, or the depth that 18 decimals give
\* (bootstrap.rs, loader.rs).
THEOREM RegistrationsAreTheirPools == Spec => []RegisteredAsRead
<1>1. RegInv => RegisteredAsRead
  <2> SUFFICES ASSUME RegInv PROVE RegisteredAsRead OBVIOUS
  <2>1. pc # "panicked" BY DEF RegInv
  <2>2. \A n \in DOMAIN regs : IsReg(regs[n], unscaled) BY DEF RegInv, RegsOK
  <2>3. \A n \in DOMAIN regs : \A depth \in regs[n].gate : \A a \in Anchors :
          depth[a] \in DepthsOf(regs[n], a)
    BY <2>2, HeldIs DEF IsReg
  <2>4. \A n \in DOMAIN regs :
          regs[n].fee \in FeesOf(regs[n]) /\ regs[n].spacing \in SpacingsOf(regs[n])
    BY <2>2 DEF IsReg
  <2>5. pc = "built" => EngineOK BY DEF RegInv
  <2>6. QED BY <2>1, <2>3, <2>4, <2>5 DEF RegisteredAsRead, EngineOK
<1>2. QED BY <1>1, RegistrationInvariant, PTL

-----------------------------------------------------------------------------
(* Tokens that arrive short.                                                *)

\* What has been heard is in the verdicts, and what is being probed is still open.
ShortInv ==
  /\ DOMAIN verdict = AllTokens /\ DOMAIN feeDisk = AllTokens
  /\ pc \in {"probe", "filter"} => \A t \in heard : t \in AllTokens /\ verdict[t] = "short"
  /\ pc = "probe" => heard \cap todo = {}
  /\ NoShortToken

LEMMA ProbeTokenShort ==
  ASSUME ShortInv, NEW t \in AllTokens, ProbeToken(t)
  PROVE  ShortInv'
<1>1. /\ pc = "probe" /\ pc' = "probe" /\ t \in todo /\ todo' = todo \ {t} /\ feeDisk' = feeDisk
  BY DEF ProbeToken, discoveryVars
<1>2. PICK told \in SUBSET DOMAIN Holders(t) :
        /\ verdict' = [verdict EXCEPT ![t] = Verdict(t, told)]
        /\ heard' = heard \cup {u \in {t} : \E n \in told : <<u, Holders(u)[n].pool>> \in ShortFrom}
  BY DEF ProbeToken
<1>3. /\ \A u \in heard : u \in AllTokens /\ verdict[u] = "short"
      /\ heard \cap todo = {} /\ DOMAIN verdict = AllTokens
  BY <1>1 DEF ShortInv
<1>4. \A u \in AllTokens : u # t => verdict'[u] = verdict[u] BY <1>2, <1>3
<1>5. t \in heard' => verdict'[t] = "short"
  <2>1. ASSUME t \in heard' PROVE \E n \in told : <<t, Holders(t)[n].pool>> \in ShortFrom
    BY <1>1, <1>2, <1>3, <2>1
  <2>2. verdict'[t] = Verdict(t, told) BY <1>2, <1>3
  <2>3. QED BY <2>1, <2>2 DEF Verdict
<1>6. \A u \in heard' : u = t \/ u \in heard BY <1>2
<1>7. \A u \in heard' : u \in AllTokens /\ verdict'[u] = "short"
  BY <1>3, <1>4, <1>5, <1>6
<1>8. heard' \cap todo' = {} BY <1>1, <1>3, <1>6
<1>9. DOMAIN verdict' = AllTokens /\ DOMAIN feeDisk' = AllTokens
  BY <1>1, <1>2, <1>3 DEF ShortInv
<1>10. QED BY <1>1, <1>7, <1>8, <1>9 DEF ShortInv, NoShortToken

LEMMA BuildEngineShort ==
  ASSUME RegInv, ShortInv, BuildEngine
  PROVE  ShortInv'
<1> DEFINE kept == Select(regs, LAMBDA n : Kept(regs[n]))
           K == {n \in DOMAIN regs : Kept(regs[n])}
<1>1. /\ pc = "filter" /\ pc' \in {"built", "panicked"} /\ heard' = heard /\ feeDisk' = feeDisk
      /\ verdict' = NoVerdict
      /\ engine' = [n \in DOMAIN kept |->
                     [idx |-> n - 1, pool |-> kept[n].pool, tag |-> kept[n].tag, fee |-> kept[n].fee]]
  BY DEF BuildEngine
<1>2. kept = [m \in DOMAIN InOrder(K, Len(regs)) |-> regs[InOrder(K, Len(regs))[m]]]
  BY Zenon DEF Select, Some
<1>3. IsList(regs) BY DEF RegInv, RegsOK
<1>4. \A m \in DOMAIN kept : \E n \in DOMAIN regs : n \in K /\ kept[m] = regs[n]
  <2> HIDE DEF kept, K
  <2>1. QED BY <1>2, <1>3, SelectIs
<1>5. \A m \in DOMAIN kept : Tokens(kept[m].pool) \cap Unwanted = {}
  <2>1. \A n \in K : Tokens(regs[n].pool) \cap Unwanted = {} BY DEF Kept
  <2> HIDE DEF kept, K
  <2>2. QED BY <1>4, <2>1
<1>6. heard \subseteq Unwanted BY <1>1 DEF ShortInv, Unwanted
<1> HIDE DEF kept
<1>7. \A n \in DOMAIN engine' : Tokens(engine'[n].pool) \cap heard = {}
  BY <1>1, <1>5, <1>6
<1>8. NoShortToken' BY <1>1, <1>7 DEF NoShortToken
<1>9. DOMAIN verdict' = AllTokens /\ DOMAIN feeDisk' = AllTokens
  BY <1>1 DEF ShortInv, NoVerdict
<1>10. QED BY <1>1, <1>8, <1>9 DEF ShortInv

LEMMA SameShort ==
  ASSUME ShortInv, UNCHANGED <<feeDisk, verdict, heard, todo, engine>>,
         pc' = pc \/ pc' \notin {"probe", "filter", "built"}
  PROVE  ShortInv'
BY DEF ShortInv, NoShortToken

LEMMA HydrateShort ==
  ASSUME RegInv, ShortInv, Hydrate
  PROVE  ShortInv'
<1>1. CASE LoadPins
  <2>1. pc' = "hydrate" /\ UNCHANGED <<feeDisk, verdict, heard, todo, engine>>
    BY <1>1, Zenon DEF LoadPins
  <2>2. QED BY <2>1, SameShort
<1>2. CASE Dedupe
  <2>1. pc' = "v2" /\ UNCHANGED <<feeDisk, verdict, heard, todo, engine>>
    BY <1>2, Zenon DEF Dedupe
  <2>2. pc' \notin {"probe", "filter", "built"} BY <2>1
  <2>3. QED BY <2>1, <2>2, SameShort
<1>3. CASE HydrateV2
  <2>1. pc' = "v3" /\ UNCHANGED <<feeDisk, verdict, heard, todo, engine>>
    BY <1>3, Zenon DEF HydrateV2, HydrateStep
  <2>2. pc' \notin {"probe", "filter", "built"} BY <2>1
  <2>3. QED BY <2>1, <2>2, SameShort
<1>4. CASE HydrateCl("v3", "v3", "algebra") BY <1>4, SameShort, SMTT(40) DEF HydrateCl, HydrateStep
<1>5. CASE HydrateCl("algebra", "algebra", "v4") BY <1>5, SameShort, SMTT(40) DEF HydrateCl, HydrateStep
<1>6. CASE HydrateV4 BY <1>6, SameShort DEF HydrateV4, HydrateStep
<1>7. CASE ReadBalances
  <2>1. /\ verdict' = feeDisk /\ feeDisk' = feeDisk /\ pc' = "probe"
        /\ heard' = {t \in AllTokens : feeDisk[t] = "short"}
        /\ \A t \in todo' : feeDisk[t] = "none"
    BY <1>7 DEF ReadBalances
  <2>2. QED BY <2>1 DEF ShortInv, NoShortToken
<1>8. CASE \E t \in AllTokens : ProbeToken(t) BY <1>8, ProbeTokenShort
<1>9. CASE SaveVerdicts
  <2>1. /\ pc = "probe" /\ pc' = "filter" /\ feeDisk' \in {verdict, feeDisk, NoVerdict}
        /\ UNCHANGED <<verdict, heard>>
    BY <1>9 DEF SaveVerdicts
  <2>2. DOMAIN feeDisk' = AllTokens BY <2>1 DEF ShortInv, NoVerdict
  <2>3. QED BY <2>1, <2>2 DEF ShortInv, NoShortToken
<1>10. CASE BuildEngine BY <1>10, BuildEngineShort
<1>11. QED
  BY <1>1, <1>2, <1>3, <1>4, <1>5, <1>6, <1>7, <1>8, <1>9, <1>10, SMTT(40) DEF Hydrate

LEMMA ShortStep == RegInv /\ ShortInv /\ [Next]_vars => ShortInv'
<1> SUFFICES ASSUME RegInv, ShortInv, [Next]_vars PROVE ShortInv' OBVIOUS
<1>1. CASE UNCHANGED <<pc, hydrationVars>>
  BY <1>1, SameShort DEF hydrationVars
<1>2. CASE Mine /\ UNCHANGED hydrationVars BY <1>1, <1>2 DEF Mine
<1>3. CASE Start BY <1>3, SameShort DEF Start, hydrationVars
<1>4. CASE Discover /\ UNCHANGED hydrationVars
  <2>1. pc' \in {"open", "scan", "hydrate"}
    BY <1>4 DEF Discover, DiscoverAll, LoadCache, ScanChunk, Discovered
  <2>2. QED BY <1>4, <2>1, SameShort DEF hydrationVars
<1>5. CASE Hydrate BY <1>5, HydrateShort
<1>6. CASE Layout /\ UNCHANGED <<tip, disk, head, k, cache, next, all, hydrationVars, verifyVars>>
  <2>1. pc' \in {"layouts", "planned"} \/ UNCHANGED pc
    BY <1>6 DEF Layout, BeginLayouts, BuildPlans, ProbeKind
  <2>2. QED BY <1>6, <2>1, SameShort DEF hydrationVars
<1>7. CASE Audit /\ UNCHANGED <<discoveryVars, hydrationVars, layoutVars>>
  BY <1>1, <1>7 DEF discoveryVars
<1>8. CASE ForgetAll /\ feeDisk' \in {feeDisk, NoVerdict}
  <2>1. pc' = "down" /\ verdict' = NoVerdict BY <1>8 DEF ForgetAll, Forget, ForgetPools
  <2>2. DOMAIN feeDisk' = AllTokens /\ DOMAIN verdict' = AllTokens
    BY <1>8, <2>1 DEF ShortInv, NoVerdict
  <2>3. QED BY <2>1, <2>2 DEF ShortInv, NoShortToken
<1>9. CASE UNCHANGED vars BY <1>1, <1>9 DEF vars, discoveryVars
<1>10. QED
  BY <1>2, <1>3, <1>4, <1>5, <1>6, <1>7, <1>8, <1>9
     DEF Next, Stop, StopInWrite, StopInVerdicts

\* No pool of the engine has a token of which the probe heard that a transfer
\* arrives short, in this run or in one whose fee_probe.json it read, although the
\* answers of the holders come in any order and some not at all (fee_probe.rs).
THEOREM ShortTokensStayOut == Spec => []NoShortToken
<1>1. StartupInit => ShortInv
  BY DEF StartupInit, Init, HydrationInit, ShortInv, NoShortToken, NoVerdict
<1>2. ShortInv => NoShortToken BY DEF ShortInv
<1>3. QED BY <1>1, <1>2, ShortStep, RegistrationInvariant, PTL DEF Spec

-----------------------------------------------------------------------------
(* What the plans read.                                                     *)

\* The least of some slots is one of them.
LEMMA FirstIn ==
  ASSUME NEW S \in SUBSET Nat
  PROVE  First(S) \subseteq S /\ (S # {} => Min(S) \in S)
<1>1. ASSUME S # {} PROVE Min(S) \in S
  BY <1>1, LeastNumber DEF Min
<1>2. QED BY <1>1 DEF First

\* A layout that reads from every pool of a fork what is its own.
ReadsFork(fork, l) == \A p \in Pools : Fork(p) = fork => ReadsIts(p, l)

\* What one sample gives away is right for all pools of its fork.
LEMMA SampleTellsAll ==
  ASSUME OneHome, NEW p \in Pools, Info[p].tag \in Kinds, NEW lay \in DiscoverOne(p)
  PROVE  ReadsFork(Fork(p), lay)
<1> DEFINE tag == Info[p].tag
           fork == Fork(p)
<1>1. PICK s \in Slots, l \in Slots, o \in {0, 48} : Home(fork, s, l, o)
  BY DEF OneHome
<1>0. \A q \in Pools : Fork(q) = fork =>
        KindOf(Info[q].tag) = KindOf(tag) /\ Info[q].factory = Info[p].factory
  BY DEF Fork
<1>2. Slots \subseteq Nat
  BY SlotLayoutsAssumption DEF Slots, SlotLayoutsAssumption
<1>3. Alive(p) /\ tag \in {"v2", "volatile", "stable", "v3", "algebra"}
  BY DEF DiscoverOne, Kinds
<1>4. Owns(p)[1] # 0 /\ (Offsets(p) # {} => Owns(p)[2] # 0)
  BY <1>3 DEF Alive, Owns, Offsets
<1>5. \A i \in Slots :
        /\ LikeState(p, i) => i = s
        /\ \A x \in Offsets(p) : Words[p][i][x] = View[p].liquidity => <<i, x>> = <<l, o>>
  BY <1>1, <1>4 DEF Home
<1>6. CASE tag = "v2"
  <2>1. lay \in PackedLayout(p) BY <1>3, <1>6 DEF DiscoverOne
  <2>2. lay = [state |-> s]
    <3> DEFINE S == {i \in Slots : Words[p][i][0] = <<View[p].r0, View[p].r1>>}
    <3>1. First(S) \subseteq S BY <1>2, FirstIn
    <3>2. \A i \in S : i = s BY <1>5, <1>6 DEF LikeState
    <3>3. lay \in {[state |-> i] : i \in First(S)} BY <2>1 DEF PackedLayout
    <3> HIDE DEF S
    <3>4. QED BY <3>1, <3>2, <3>3
  <2>3. \A q \in Pools : Fork(q) = fork => Info[q].tag = "v2"
    BY <1>0, <1>6 DEF KindOf
  <2>4. QED BY <1>1, <2>2, <2>3 DEF ReadsFork, ReadsIts, Offsets, Home, ReadBy
<1>7. CASE tag \in {"volatile", "stable"}
  <2>1. lay \in TwoSlotLayout(p) BY <1>3, <1>7 DEF DiscoverOne
  <2>2. lay = [state |-> s]
    <3> DEFINE S == {i \in Slots \ {ScanSlots - 1} :
                      Words[p][i][0] = View[p].r0 /\ Words[p][i + 1][0] = View[p].r1}
    <3>1. First(S) \subseteq S BY <1>2, FirstIn
    <3>2. \A i \in S : i = s BY <1>5, <1>7 DEF LikeState
    <3>3. lay \in {[state |-> i] : i \in First(S)} BY <2>1 DEF TwoSlotLayout
    <3> HIDE DEF S
    <3>4. QED BY <3>1, <3>2, <3>3
  <2>3. \A q \in Pools : Fork(q) = fork => Info[q].tag \in {"volatile", "stable"}
    BY <1>0, <1>7, HydrationAssumption DEF KindOf, HydrationAssumption, Tags
  <2>4. QED BY <1>1, <2>2, <2>3 DEF ReadsFork, ReadsIts, Offsets, Home, ReadBy
<1>8. CASE tag \in {"v3", "algebra"}
  <2>1. StateSlot(p) \subseteq {s}
    <3> DEFINE S == {i \in Slots : Words[p][i][0] = View[p].state}
    <3>1. First(S) \subseteq S BY <1>2, FirstIn
    <3>2. \A i \in S : i = s BY <1>5, <1>8 DEF LikeState
    <3>3. QED BY <3>1, <3>2 DEF StateSlot
  <2>2. lay.state = s /\ lay.liquidity = l /\ lay.shift = o
    <3>1. CASE tag = "v3"
      <4>1. lay \in V3Layout(p) BY <1>3, <3>1 DEF DiscoverOne
      <4> DEFINE S == {i \in Slots : Words[p][i][0] = View[p].liquidity}
      <4>2. First(S) \subseteq S BY <1>2, FirstIn
      <4>3. Offsets(p) = {0} BY <3>1 DEF Offsets
      <4>4. \A i \in S : i = l /\ o = 0 BY <1>5, <4>3
      <4>5. lay.state \in StateSlot(p) /\ lay.liquidity \in First(S) /\ lay.shift = 0
        BY <4>1 DEF V3Layout, V3LiquiditySlot
      <4>6. QED BY <2>1, <4>2, <4>4, <4>5
    <3>2. CASE tag = "algebra"
      <4>1. lay \in AlgebraLayout(p) BY <1>3, <3>2 DEF DiscoverOne
      <4> DEFINE S == {i \in Slots \ StateSlot(p) : LiquidityIn(p, i) # {}}
      <4>2. First(S) \subseteq S BY <1>2, FirstIn
      <4>3. /\ lay.state \in StateSlot(p) /\ lay.liquidity \in First(S)
            /\ lay.shift = Min(LiquidityIn(p, lay.liquidity))
        BY <4>1 DEF AlgebraLayout, AlgebraLiquiditySlot
      <4>4. lay.liquidity \in Slots /\ LiquidityIn(p, lay.liquidity) # {} BY <4>2, <4>3
      <4>5. LiquidityIn(p, lay.liquidity) \in SUBSET Nat BY DEF LiquidityIn
      <4>6. /\ lay.shift \in {0, 48}
            /\ Words[p][lay.liquidity][lay.shift] = View[p].liquidity
        <5>1. lay.shift \in LiquidityIn(p, lay.liquidity)
          BY <4>3, <4>4, <4>5, FirstIn, ZenonT(60)
        <5>2. QED BY <5>1 DEF LiquidityIn
      <4>7. Offsets(p) = {0, 48} BY <3>2 DEF Offsets
      <4>8. QED BY <1>5, <2>1, <4>3, <4>4, <4>6, <4>7
    <3>3. QED BY <1>8, <3>1, <3>2
  <2>3. \A q \in Pools : Fork(q) = fork => Info[q].tag \notin {"v2", "volatile", "stable"}
    BY <1>0, <1>8 DEF KindOf
  <2>4. lay.bases = TickBases[Info[p].factory]
    <3>1. \A b \in TickMapping(p) : b = TickBases[Info[p].factory] BY DEF TickMapping
    <3>2. CASE tag = "v3"
      <4>1. lay \in V3Layout(p) BY <1>3, <3>2 DEF DiscoverOne
      <4>2. lay.bases \in TickMapping(p) BY <4>1 DEF V3Layout
      <4>3. QED BY <3>1, <4>2
    <3>3. CASE tag = "algebra"
      <4>1. lay \in AlgebraLayout(p) BY <1>3, <3>3 DEF DiscoverOne
      <4>2. lay.bases \in TickMapping(p) BY <4>1 DEF AlgebraLayout
      <4>3. QED BY <3>1, <4>2
    <3>4. QED BY <1>8, <3>2, <3>3
  <2>5. ASSUME NEW q \in Pools, Fork(q) = fork PROVE ReadBy(q, lay) = Owns(q)
    BY <1>1, <2>2, <2>3, <2>5 DEF Home, ReadBy
  <2>6. QED BY <1>0, <2>4, <2>5 DEF ReadsFork, ReadsIts
<1>9. QED BY <1>3, <1>6, <1>7, <1>8

\* The pools of the engine are registered under a tag of their kind.
EngineKinds ==
  /\ DOMAIN engine \subseteq Nat
  /\ \A n \in DOMAIN engine :
       engine[n].pool \in Pools /\ engine[n].tag \in Tags /\ RightKind(engine[n])

LayoutsOK ==
  /\ DOMAIN layouts = Kinds
  /\ DOMAIN sampled = Kinds
  /\ \A t \in Kinds : \A lay \in layouts[t] : \A q \in sampled[t] : ReadsFork(Fork(q), lay)

PlanInv == EngineKinds /\ LayoutsOK /\ PlansReadTheirPools

LEMMA BuildEngineKinds ==
  ASSUME RegInv, BuildEngine
  PROVE  EngineKinds'
<1> DEFINE kept == Select(regs, LAMBDA n : Kept(regs[n]))
           K == {n \in DOMAIN regs : Kept(regs[n])}
<1>1. /\ pc = "filter"
      /\ engine' = [n \in DOMAIN kept |->
                     [idx |-> n - 1, pool |-> kept[n].pool, tag |-> kept[n].tag, fee |-> kept[n].fee]]
  BY DEF BuildEngine
<1>2. kept = [m \in DOMAIN InOrder(K, Len(regs)) |-> regs[InOrder(K, Len(regs))[m]]]
  BY Zenon DEF Select, Some
<1>3. IsList(regs) /\ Entries(all) /\ RegsOK(regs, all, ReadAt(pc), unscaled) BY DEF RegInv, RegsOK
<1>4. IsList(kept) /\ \A m \in DOMAIN kept : \E n \in DOMAIN regs : n \in K /\ kept[m] = regs[n]
  <2> HIDE DEF kept, K
  <2>1. QED BY <1>2, <1>3, SelectIs
<1>5. DOMAIN kept \subseteq Nat
  <2> HIDE DEF kept, K
  <2>1. Len(kept) \in Nat /\ DOMAIN kept = 1 .. Len(kept) BY <1>4, ListFacts
  <2>2. QED BY <2>1
<1>6. ASSUME NEW n \in DOMAIN regs
      PROVE  regs[n].pool \in Pools /\ regs[n].tag \in Tags /\ RightKind(regs[n])
  <2>1. PICK m \in DOMAIN all : all[m].pool = regs[n].pool /\ all[m].tag = regs[n].tag
    BY <1>3 DEF RegsOK
  <2>2. IsEntry(all[m]) BY <1>3 DEF Entries
  <2>3. QED BY <2>1, <2>2 DEF IsEntry, RightKind
<1> HIDE DEF kept, K
<1>7. \A m \in DOMAIN kept : kept[m].pool \in Pools /\ kept[m].tag \in Tags /\ RightKind(kept[m])
  BY <1>4, <1>6
<1>8. QED BY <1>1, <1>5, <1>7 DEF EngineKinds, RightKind

LEMMA ProbeKindLayouts ==
  ASSUME OneHome, EngineKinds, LayoutsOK, NEW t \in Kinds, ProbeKind(t)
  PROVE  LayoutsOK'
<1> DEFINE good(failed) == {n \in SamplesOf(t) \ failed : DiscoverOne(engine[n].pool) # {}}
           found(ns) == UNION {DiscoverOne(engine[n].pool) : n \in ns}
           asked(ns) == {engine[n].pool : n \in ns}
<1>1. PICK failed \in SUBSET SamplesOf(t) :
        /\ layouts' = [layouts EXCEPT ![t] = found(First(good(failed)))]
        /\ sampled' = [sampled EXCEPT ![t] = asked(First(good(failed)))]
  BY Zenon DEF ProbeKind
<1> DEFINE G == good(failed)
           F == First(G)
<1>2. G \subseteq SamplesOf(t) /\ SamplesOf(t) \subseteq {n \in DOMAIN engine : engine[n].tag = t}
  BY DEF SamplesOf
<1>3. F \subseteq G /\ \A m, n \in F : m = n
  BY <1>2, FirstIn DEF EngineKinds, First
<1>4. ASSUME NEW n \in F, NEW lay \in DiscoverOne(engine[n].pool)
      PROVE  ReadsFork(Fork(engine[n].pool), lay)
  <2> DEFINE p == engine[n].pool
  <2>1. n \in DOMAIN engine /\ engine[n].tag = t BY <1>2, <1>3
  <2>2. p \in Pools /\ RightKind(engine[n]) /\ t # "v4" BY <2>1 DEF EngineKinds, Kinds
  <2>3. KindOf(t) = KindOf(Info[p].tag) BY <2>1, <2>2 DEF RightKind
  <2>4. Info[p].tag \in Kinds
    BY <2>2, <2>3, HydrationAssumption DEF HydrationAssumption, KindOf, Kinds, Tags
  <2>5. QED BY <2>2, <2>4, SampleTellsAll
<1>5. layouts' = [layouts EXCEPT ![t] = found(F)] /\ sampled' = [sampled EXCEPT ![t] = asked(F)]
  BY <1>1
<1> HIDE DEF F, G, good
<1>6. /\ DOMAIN layouts' = Kinds /\ DOMAIN sampled' = Kinds
      /\ \A u \in Kinds : u # t => layouts'[u] = layouts[u] /\ sampled'[u] = sampled[u]
  BY <1>5 DEF LayoutsOK
<1>7. layouts'[t] = found(F) /\ sampled'[t] = asked(F)
  BY <1>5 DEF LayoutsOK
<1>8. ASSUME NEW lay \in layouts'[t], NEW q \in sampled'[t] PROVE ReadsFork(Fork(q), lay)
  <2>1. PICK n \in F : lay \in DiscoverOne(engine[n].pool) BY <1>7
  <2>2. q = engine[n].pool BY <1>3, <1>7
  <2>3. QED BY <1>4, <2>1, <2>2
<1>9. QED BY <1>6, <1>8 DEF LayoutsOK

LEMMA BuildPlansRead ==
  ASSUME EngineKinds, LayoutsOK, BuildPlans, engine' = engine, sampled' = sampled
  PROVE  PlansReadTheirPools'
<1>1. PICK failed \in SUBSET {n \in DOMAIN engine : engine[n].tag = "algebra"} :
        plans' = [n \in DOMAIN engine |-> PlanOf(engine[n], n \notin failed)]
  BY DEF BuildPlans
<1>2. ASSUME NEW n \in DOMAIN plans', NEW plan \in plans'[n]
      PROVE  /\ engine[n].tag # "v4" =>
                  \A q \in sampled[engine[n].tag] :
                    Fork(q) = Fork(engine[n].pool) => ReadsIts(engine[n].pool, plan.slots)
             /\ plan.feeFrom = "word" =>
                  View[engine[n].pool].fee = View[engine[n].pool].lastFee
  <2> DEFINE e == engine[n]
             answered == n \notin failed
  <2>1. n \in DOMAIN engine /\ plan \in PlanOf(e, answered) BY <1>1
  <2>2. e.pool \in Pools /\ e.tag \in Tags /\ RightKind(e) BY <2>1 DEF EngineKinds
  <2> HIDE DEF e, answered
  <2>3. CASE e.tag = "v4"
    <3>1. plan = V4Plan BY <2>1, <2>3 DEF PlanOf
    <3>2. plan.feeFrom = "meta" BY <3>1 DEF V4Plan
    <3>3. QED BY <2>3, <3>2 DEF e
  <2>4. CASE e.tag # "v4"
    <3>1. PICK lay \in layouts[e.tag] :
            plan = [slots |-> lay,
                    feeFrom |-> IF e.tag = "algebra" /\ lay.feeInWord /\ answered
                                   /\ FeeTrusted(e.pool, lay)
                                THEN "word" ELSE "meta"]
      BY <2>1, <2>4 DEF PlanOf
    <3>2. e.tag \in Kinds BY <2>2, <2>4 DEF Tags, Kinds
    <3>3. \A q \in sampled[e.tag] : ReadsFork(Fork(q), lay) BY <3>1, <3>2 DEF LayoutsOK
    <3>4. \A q \in sampled[e.tag] : Fork(q) = Fork(e.pool) => ReadsIts(e.pool, lay)
      BY <2>2, <3>3 DEF ReadsFork
    <3>5. plan.slots = lay /\ (plan.feeFrom = "word" => FeeTrusted(e.pool, lay)) BY <3>1
    <3>6. QED BY <3>4, <3>5 DEF e, FeeTrusted
  <2>5. QED BY <2>3, <2>4
<1>3. QED BY <1>2 DEF PlansReadTheirPools

\* A step that leaves the engine and what was found alone, or forgets both.
LEMMA SamePlans ==
  ASSUME PlanInv, engine' \in {engine, << >>},
         \/ UNCHANGED <<layouts, sampled>>
         \/ layouts' = [t \in Kinds |-> {}] /\ sampled' = [t \in Kinds |-> {}],
         \/ pc' # "planned"
         \/ pc' = pc /\ UNCHANGED <<engine, plans, sampled>>
  PROVE  PlanInv'
<1>1. EngineKinds' BY EmptyList DEF PlanInv, EngineKinds, RightKind
<1>2. LayoutsOK' BY DEF PlanInv, LayoutsOK
<1>3. PlansReadTheirPools' BY DEF PlanInv, PlansReadTheirPools
<1>4. QED BY <1>1, <1>2, <1>3 DEF PlanInv

LEMMA PlanStep == ASSUME OneHome PROVE RegInv /\ PlanInv /\ [Next]_vars => PlanInv'
<1> SUFFICES ASSUME RegInv, PlanInv, [Next]_vars PROVE PlanInv' OBVIOUS
<1>1. CASE UNCHANGED <<pc, hydrationVars, layoutVars>>
  BY <1>1, SamePlans DEF hydrationVars, layoutVars
<1>2. CASE Mine /\ UNCHANGED <<hydrationVars, layoutVars>> BY <1>1, <1>2 DEF Mine
<1>3. CASE Start
  <2>1. pc' \in {"boot", "pins"} /\ UNCHANGED <<engine, layouts, sampled>>
    BY <1>3 DEF Start, hydrationVars, layoutVars
  <2>2. QED BY <2>1, SamePlans
<1>4. CASE Discover /\ UNCHANGED <<hydrationVars, layoutVars>>
  <2>1. pc' \in {"open", "scan", "hydrate"}
    BY <1>4 DEF Discover, DiscoverAll, LoadCache, ScanChunk, Discovered
  <2>2. QED BY <1>4, <2>1, SamePlans DEF hydrationVars, layoutVars
<1>5. CASE Hydrate /\ UNCHANGED layoutVars
  <2>1. CASE BuildEngine
    <3>1. pc' # "planned" /\ UNCHANGED <<layouts, sampled, plans>>
      BY <1>5, <2>1 DEF BuildEngine, layoutVars
    <3>2. EngineKinds' BY <2>1, BuildEngineKinds
    <3>3. LayoutsOK' BY <3>1 DEF PlanInv, LayoutsOK
    <3>4. QED BY <3>1, <3>2, <3>3 DEF PlanInv, PlansReadTheirPools
  <2>2. CASE ~ BuildEngine
    <3>1. engine' = engine /\ pc' # "planned"
      <4>1. CASE LoadPins BY <4>1, Zenon DEF LoadPins
      <4>2. CASE Dedupe BY <4>2, SMTT(40) DEF Dedupe
      <4>3. CASE HydrateV2 BY <4>3 DEF HydrateV2, HydrateStep
      <4>4. CASE HydrateCl("v3", "v3", "algebra") BY <4>4 DEF HydrateCl, HydrateStep
      <4>5. CASE HydrateCl("algebra", "algebra", "v4") BY <4>5 DEF HydrateCl, HydrateStep
      <4>6. CASE HydrateV4
        <5>1. \E bad, new : HydrateStep("v4", "gate", bad, new) BY <4>6, Zenon DEF HydrateV4
        <5>2. QED BY <5>1 DEF HydrateStep
      <4>7. CASE ReadBalances BY <4>7 DEF ReadBalances
      <4>8. CASE \E t \in AllTokens : ProbeToken(t) BY <4>8 DEF ProbeToken, discoveryVars
      <4>9. CASE SaveVerdicts BY <4>9 DEF SaveVerdicts
      <4>10. QED
        BY <1>5, <2>2, <4>1, <4>2, <4>3, <4>4, <4>5, <4>6, <4>7, <4>8, <4>9 DEF Hydrate
    <3>2. QED BY <1>5, <3>1, SamePlans DEF layoutVars
  <2>3. QED BY <2>1, <2>2
<1>6. CASE Layout /\ UNCHANGED <<tip, disk, head, k, cache, next, all, hydrationVars, verifyVars>>
  <2>1. engine' = engine BY <1>6 DEF hydrationVars
  <2>2. CASE BeginLayouts
    BY <2>1, <2>2, SamePlans DEF BeginLayouts
  <2>3. CASE BuildPlans
    <3>1. PlansReadTheirPools' BY <2>1, <2>3, BuildPlansRead DEF PlanInv, BuildPlans
    <3>2. EngineKinds' BY <2>1 DEF PlanInv, EngineKinds, RightKind
    <3>3. LayoutsOK'
      <4>1. layouts' = [t \in Kinds |-> {}] /\ sampled' = sampled
        BY <2>3, Zenon DEF BuildPlans
      <4>2. QED BY <4>1 DEF PlanInv, LayoutsOK
    <3>4. QED BY <3>1, <3>2, <3>3 DEF PlanInv
  <2>4. ASSUME NEW t \in Kinds, ProbeKind(t) PROVE PlanInv'
    <3>1. pc' = "layouts" BY <2>4 DEF ProbeKind
    <3>2. LayoutsOK' BY <2>4, ProbeKindLayouts DEF PlanInv
    <3>3. EngineKinds' BY <2>1 DEF PlanInv, EngineKinds, RightKind
    <3>4. QED BY <3>1, <3>2, <3>3 DEF PlanInv, PlansReadTheirPools
  <2>5. QED BY <1>6, <2>2, <2>3, <2>4 DEF Layout
<1>7. CASE Audit /\ UNCHANGED <<discoveryVars, hydrationVars, layoutVars>>
  BY <1>1, <1>7 DEF discoveryVars
<1>8. CASE ForgetAll
  <2>1. /\ pc' = "down" /\ engine' = << >>
        /\ layouts' = [t \in Kinds |-> {}] /\ sampled' = [t \in Kinds |-> {}]
    BY <1>8 DEF ForgetAll, Forget, ForgetPools, ForgetLayouts
  <2>2. QED BY <2>1, SamePlans
<1>9. CASE UNCHANGED vars BY <1>1, <1>9 DEF vars, discoveryVars
<1>10. QED
  BY <1>2, <1>3, <1>4, <1>5, <1>6, <1>7, <1>8, <1>9
     DEF Next, Stop, StopInWrite, StopInVerdicts

\* If the pools of a fork keep their values at the same slots, and nowhere else among
\* the words scanned, the plan of a pool whose layout was found in a pool of its own
\* fork reads what the pool's own view functions return, and its ticks, whichever
\* samples were tried and whatever calls failed; and it takes the fee from the word
\* only where it is the fee a swap pays.  Two forks under one tag may be laid out
\* differently: nothing is assumed of them, and nothing said of a pool that was given
\* the other's layout (slot_layout.rs).
THEOREM PlansReadTheirPoolsTheorem == ASSUME OneHome PROVE Spec => []PlansReadTheirPools
<1>1. StartupInit => PlanInv
  <2> SUFFICES ASSUME StartupInit PROVE PlanInv OBVIOUS
  <2>1. /\ pc = "down" /\ engine = << >>
        /\ layouts = [t \in Kinds |-> {}] /\ sampled = [t \in Kinds |-> {}]
    BY DEF StartupInit, Init, HydrationInit, LayoutsInit
  <2>2. EngineKinds BY <2>1, EmptyList DEF EngineKinds
  <2>3. LayoutsOK BY <2>1 DEF LayoutsOK
  <2>4. QED BY <2>1, <2>2, <2>3 DEF PlanInv, PlansReadTheirPools
<1>2. RegInv /\ PlanInv /\ [Next]_vars => PlanInv' BY PlanStep
<1>3. PlanInv => PlansReadTheirPools BY DEF PlanInv
<1>4. QED BY <1>1, <1>2, <1>3, RegistrationInvariant, PTL DEF Spec

=============================================================================
