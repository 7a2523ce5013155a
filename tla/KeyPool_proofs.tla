--------------------------- MODULE KeyPool_proofs ---------------------------
(* What the pool of keys keeps for any number of keys, clients and admins:  *)
(* the types, and a rotation list without repetitions and dead entries; and *)
(* what only an actor that is alone with the pool can rely on: that no key  *)
(* is lost, and that a cycle tries every active key.                        *)
EXTENDS KeyPool, FiniteSetTheorems, WellFoundedInduction, TLAPS

(* What holds of 0, and of n + 1 when it holds of n, holds up to N. *)
LEMMA UpTo ==
  ASSUME NEW N \in Nat, NEW T, 0 \in T, \A n \in 0..N : n < N /\ n \in T => n + 1 \in T
  PROVE  0..N \subseteq T
  <1> DEFINE R == OpToRel(<, Nat)
             U == (0..N) \ T
  <1>1. IsWellFoundedOn(R, Nat)
    BY NatLessThanWellFounded
  <1>2. \A a, b \in Nat : <<a, b>> \in R <=> a < b
    BY DEF OpToRel
  <1>3. U \subseteq Nat
    OBVIOUS
  <1>4. CASE U # {}
    <2>1. PICK t \in U : \A u \in U : ~ (<<u, t>> \in R)
      <3> HIDE DEF R, U
      <3>1. QED
        BY <1>1, <1>3, <1>4, WFMin
    <2>2. t \in 0..N /\ t \notin T /\ t # 0
      OBVIOUS
    <2>3. t - 1 \in 0..N /\ t - 1 < N /\ (t - 1) + 1 = t
      BY <2>2
    <2>4. t - 1 \notin T
      BY <2>2, <2>3
    <2>5. t - 1 \in U /\ t - 1 < t /\ t - 1 \in Nat /\ t \in Nat
      BY <2>2, <2>3, <2>4
    <2>6. QED
      BY <1>2, <2>1, <2>5
  <1>5. CASE U = {}
    BY <1>5
  <1>6. QED
    BY <1>4, <1>5
-----------------------------------------------------------------------------
(* The commands on lists.                                                  *)

\* What LRem has kept of the first n elements of s.
Part(s, x, n, t) ==
  /\ Len(t) <= n
  /\ \A i \in 1..Len(t) : \E a \in 1..n : t[i] = s[a] /\ s[a] # x /\ Len(t) - i <= n - a
  /\ \A a \in 1..n : s[a] # x => \E i \in 1..Len(t) : t[i] = s[a]
  /\ \A i, k \in 1..Len(t) : i < k => \E a, b \in 1..n : a < b /\ t[i] = s[a] /\ t[k] = s[b]

Body(s, x, f, n) == IF n = 0 THEN <<>>
                    ELSE IF s[n] = x THEN f[n - 1]
                    ELSE Append(f[n - 1], s[n])

LEMMA PartGrows ==
  ASSUME NEW K, NEW s \in Seq(K), NEW x, NEW n \in 0..Len(s), n < Len(s),
         NEW t \in Seq(K), Part(s, x, n, t)
  PROVE  /\ s[n + 1] = x => Part(s, x, n + 1, t)
         /\ s[n + 1] # x => Append(t, s[n + 1]) \in Seq(K) /\ Part(s, x, n + 1, Append(t, s[n + 1]))
  <1>1. n + 1 \in 1..Len(s) /\ s[n + 1] \in K /\ n \in Nat /\ Len(t) \in Nat
    OBVIOUS
  <1>2. /\ Len(t) <= n
        /\ \A i \in 1..Len(t) : \E a \in 1..n : t[i] = s[a] /\ s[a] # x /\ Len(t) - i <= n - a
        /\ \A a \in 1..n : s[a] # x => \E i \in 1..Len(t) : t[i] = s[a]
        /\ \A i, k \in 1..Len(t) : i < k => \E a, b \in 1..n : a < b /\ t[i] = s[a] /\ t[k] = s[b]
    BY DEF Part
  <1>3. \A a \in 1..n : a \in 1..(n + 1) /\ a < n + 1
    BY <1>1
  <1>4. ASSUME s[n + 1] = x PROVE Part(s, x, n + 1, t)
    <2>1. Len(t) <= n + 1
      BY <1>1, <1>2
    <2>2. \A i \in 1..Len(t) : \E a \in 1..(n + 1) : t[i] = s[a] /\ s[a] # x /\ Len(t) - i <= (n + 1) - a
      <3>1. ASSUME NEW i \in 1..Len(t), NEW a \in 1..n, Len(t) - i <= n - a PROVE Len(t) - i <= (n + 1) - a
        BY <1>1, <3>1
      <3>2. QED
        BY <1>2, <1>3, <3>1
    <2>3. \A a \in 1..(n + 1) : s[a] # x => a \in 1..n
      BY <1>1, <1>4
    <2>4. \A a \in 1..(n + 1) : s[a] # x => \E i \in 1..Len(t) : t[i] = s[a]
      BY <1>2, <2>3
    <2>5. \A i, k \in 1..Len(t) : i < k => \E a, b \in 1..(n + 1) : a < b /\ t[i] = s[a] /\ t[k] = s[b]
      BY <1>2, <1>3
    <2>6. QED
      BY <2>1, <2>2, <2>4, <2>5 DEF Part
  <1>5. ASSUME s[n + 1] # x
        PROVE  Append(t, s[n + 1]) \in Seq(K) /\ Part(s, x, n + 1, Append(t, s[n + 1]))
    <2> DEFINE u == Append(t, s[n + 1])
               m == Len(t) + 1
    <2>1. /\ u \in Seq(K) /\ Len(u) = m /\ u[m] = s[n + 1]
          /\ \A i \in 1..Len(t) : u[i] = t[i]
      BY <1>1
    <2>2. \A i \in 1..m : i = m \/ i \in 1..Len(t)
      BY <1>1
    <2>3. m <= n + 1 /\ m - m = 0 /\ (n + 1) - (n + 1) = 0 /\ m \in 1..m /\ \A i \in 1..Len(t) : i \in 1..m
      BY <1>1, <1>2
    <2>4. ASSUME NEW i \in 1..Len(t), NEW a \in 1..n, Len(t) - i <= n - a PROVE m - i <= (n + 1) - a
      BY <1>1, <2>4
    <2>5. ASSUME NEW i \in 1..m
          PROVE  \E a \in 1..(n + 1) : u[i] = s[a] /\ s[a] # x /\ m - i <= (n + 1) - a
      <3> HIDE DEF u, m
      <3>1. CASE i = m
        <4>1. n + 1 \in 1..(n + 1) /\ m - i <= (n + 1) - (n + 1)
          BY <1>1, <2>3, <3>1
        <4>2. QED
          BY <1>5, <2>1, <3>1, <4>1
      <3>2. CASE i \in 1..Len(t)
        <4>1. PICK a \in 1..n : t[i] = s[a] /\ s[a] # x /\ Len(t) - i <= n - a
          BY <1>2, <3>2
        <4>2. u[i] = s[a] /\ a \in 1..(n + 1) /\ m - i <= (n + 1) - a
          BY <1>3, <2>1, <2>4, <3>2, <4>1
        <4>3. QED
          BY <4>1, <4>2
      <3>3. QED
        BY <2>2, <3>1, <3>2
    <2>6. ASSUME NEW a \in 1..(n + 1), s[a] # x PROVE \E i \in 1..m : u[i] = s[a]
      <3> HIDE DEF u, m
      <3>1. CASE a = n + 1
        BY <2>1, <2>3, <3>1
      <3>2. CASE a # n + 1
        <4>1. a \in 1..n
          BY <1>1, <3>2
        <4>2. PICK i \in 1..Len(t) : t[i] = s[a]
          BY <1>2, <2>6, <4>1
        <4>3. QED
          BY <2>1, <2>3, <4>2
      <3>3. QED
        BY <3>1, <3>2
    <2>7. ASSUME NEW i \in 1..m, NEW k \in 1..m, i < k
          PROVE  \E a, b \in 1..(n + 1) : a < b /\ u[i] = s[a] /\ u[k] = s[b]
      <3>1. i \in 1..Len(t)
        BY <1>1, <2>7
      <3> HIDE DEF u, m
      <3>2. CASE k = m
        <4>1. PICK a \in 1..n : t[i] = s[a]
          BY <1>2, <3>1
        <4>2. a \in 1..(n + 1) /\ a < n + 1 /\ n + 1 \in 1..(n + 1) /\ u[i] = s[a] /\ u[k] = s[n + 1]
          BY <1>1, <1>3, <2>1, <3>1, <3>2, <4>1
        <4>3. QED
          BY <4>2
      <3>3. CASE k \in 1..Len(t)
        <4>1. PICK a, b \in 1..n : a < b /\ t[i] = s[a] /\ t[k] = s[b]
          BY <1>2, <2>7, <3>1, <3>3
        <4>2. u[i] = s[a] /\ u[k] = s[b] /\ a \in 1..(n + 1) /\ b \in 1..(n + 1)
          BY <1>3, <2>1, <3>1, <3>3, <4>1
        <4>3. QED
          BY <4>1, <4>2
      <3>4. QED
        BY <2>2, <3>2, <3>3
    <2>8. Part(s, x, n + 1, u)
      <3> HIDE DEF u, m
      <3>1. QED
        BY <2>1, <2>3, <2>5, <2>6, <2>7 DEF Part
    <2>9. QED
      BY <2>1, <2>8
  <1>6. QED
    BY <1>4, <1>5

\* The recursion has a solution.
LEMMA KeptExists ==
  ASSUME NEW K, NEW s \in Seq(K), NEW x
  PROVE  \E f : f = [n \in 0..Len(s) |-> Body(s, x, f, n)]
  <1> DEFINE Solves(f, m) == f = [n \in 0..m |-> Body(s, x, f, n)]
             T == {m \in 0..Len(s) : \E f : Solves(f, m)}
  <1>1. Len(s) \in Nat
    OBVIOUS
  <1>2. 0 \in T
    <2> DEFINE f == [n \in 0..0 |-> <<>>]
    <2>1. Solves(f, 0)
      BY DEF Body
    <2>2. QED
      BY <1>1, <2>1
  <1>3. ASSUME NEW m \in 0..Len(s), m < Len(s), m \in T PROVE m + 1 \in T
    <2>1. PICK f : Solves(f, m)
      BY <1>3
    <2> DEFINE g == [n \in 0..(m + 1) |-> IF n <= m THEN f[n] ELSE Body(s, x, f, m + 1)]
    <2>2. \A n \in 0..m : g[n] = f[n] /\ f[n] = Body(s, x, f, n)
      BY SMTT(30), <2>1
    <2>3. \A n \in 0..(m + 1) : Body(s, x, g, n) = Body(s, x, f, n)
      <3>1. ASSUME NEW n \in 0..(m + 1), n # 0 PROVE g[n - 1] = f[n - 1]
        BY <2>2, <3>1
      <3>2. QED
        BY <3>1 DEF Body
    <2>4. \A n \in 0..(m + 1) : g[n] = Body(s, x, g, n)
      <3>1. ASSUME NEW n \in 0..(m + 1) PROVE g[n] = Body(s, x, g, n)
        <4>1. CASE n <= m
          <5>1. n \in 0..m
            BY <4>1
          <5>2. QED
            BY <2>2, <2>3, <5>1
        <4>2. CASE ~ (n <= m)
          <5>1. n = m + 1 /\ g[n] = Body(s, x, f, m + 1)
            BY <4>2
          <5>2. QED
            BY <2>3, <5>1
        <4>3. QED
          BY <4>1, <4>2
      <3>2. QED
        BY <3>1
    <2>5. Solves(g, m + 1)
      <3>1. g = [n \in 0..(m + 1) |-> g[n]]
        OBVIOUS
      <3> HIDE DEF g
      <3>2. [n \in 0..(m + 1) |-> g[n]] = [n \in 0..(m + 1) |-> Body(s, x, g, n)]
        BY <2>4
      <3>3. QED
        BY <3>1, <3>2
    <2> HIDE DEF Solves, g
    <2>6. m + 1 \in 0..Len(s)
      BY <1>1, <1>3
    <2>7. QED
      BY <2>5, <2>6
  <1>4. Len(s) \in T
    <2> HIDE DEF T
    <2>1. \A m \in 0..Len(s) : m < Len(s) /\ m \in T => m + 1 \in T
      BY <1>3
    <2>2. 0..Len(s) \subseteq T
      BY <1>1, <1>2, <2>1, UpTo
    <2>3. QED
      BY <1>1, <2>2
  <1>5. QED
    BY <1>4

(* LREM keeps the other elements, in their order.                          *)
LEMMA RemoveFromList ==
  ASSUME NEW K, NEW s \in Seq(K), NEW x
  PROVE  LRem(s, x) \in Seq(K) /\ Part(s, x, Len(s), LRem(s, x))
  <1>1. PICK f : f = [n \in 0..Len(s) |-> Body(s, x, f, n)] /\ LRem(s, x) = f[Len(s)]
    <2>1. PICK g : g = [n \in 0..Len(s) |-> Body(s, x, g, n)]
      BY KeptExists
    <2>2. g = [n \in 0..Len(s) |-> IF n = 0 THEN <<>> ELSE IF s[n] = x THEN g[n - 1]
                                   ELSE Append(g[n - 1], s[n])]
      BY <2>1 DEF Body
    <2>3. \E f : /\ LRem(s, x) = f[Len(s)]
                 /\ f = [n \in 0..Len(s) |-> IF n = 0 THEN <<>> ELSE IF s[n] = x THEN f[n - 1]
                                            ELSE Append(f[n - 1], s[n])]
      BY <2>2 DEF LRem
    <2>4. QED
      BY <2>3 DEF Body
  <1> DEFINE T == {n \in 0..Len(s) : f[n] \in Seq(K) /\ Part(s, x, n, f[n])}
  <1>2. Len(s) \in Nat
    OBVIOUS
  <1>3. \A n \in 0..Len(s) : f[n] = Body(s, x, f, n)
    BY <1>1
  <1>4. 0 \in T
    <2>1. f[0] = <<>>
      BY <1>2, <1>3 DEF Body
    <2>2. <<>> \in Seq(K) /\ Len(<<>>) = 0
      OBVIOUS
    <2>3. f[0] \in Seq(K) /\ Part(s, x, 0, f[0])
      BY <2>1, <2>2 DEF Part
    <2>4. QED
      BY <1>2, <2>3
  <1>5. ASSUME NEW n \in 0..Len(s), n < Len(s), n \in T PROVE n + 1 \in T
    <2>1. f[n] \in Seq(K) /\ Part(s, x, n, f[n]) /\ n + 1 \in 0..Len(s)
      BY <1>2, <1>5
    <2>2. f[n + 1] = IF s[n + 1] = x THEN f[n] ELSE Append(f[n], s[n + 1])
      <3>1. n + 1 # 0 /\ (n + 1) - 1 = n
        OBVIOUS
      <3>2. QED
        BY <1>3, <2>1, <3>1 DEF Body
    <2>3. f[n + 1] \in Seq(K) /\ Part(s, x, n + 1, f[n + 1])
      BY <1>5, <2>1, <2>2, PartGrows
    <2>4. QED
      BY <2>1, <2>3
  <1>6. Len(s) \in T
    <2> HIDE DEF T
    <2>1. \A n \in 0..Len(s) : n < Len(s) /\ n \in T => n + 1 \in T
      BY <1>5
    <2>2. 0..Len(s) \subseteq T
      BY <1>2, <1>4, <2>1, UpTo
    <2>3. QED
      BY <1>2, <2>2
  <1>7. QED
    BY <1>1, <1>6

Distinct(s) == \A i, k \in 1..Len(s) : s[i] = s[k] => i = k

LEMMA SetOfList ==
  ASSUME NEW K, NEW s \in Seq(K)
  PROVE  /\ ToSet(s) \subseteq K
         /\ \A x : x \in ToSet(s) <=> \E i \in 1..Len(s) : s[i] = x
  BY DEF ToSet

LEMMA PushOnList ==
  ASSUME NEW K, NEW s \in Seq(K), NEW x \in K
  PROVE  /\ LPush(s, x) \in Seq(K)
         /\ Len(LPush(s, x)) = Len(s) + 1
         /\ LPush(s, x)[1] = x
         /\ \A i \in 2..(Len(s) + 1) : LPush(s, x)[i] = s[i - 1]
         /\ ToSet(LPush(s, x)) = ToSet(s) \cup {x}
         /\ Distinct(s) /\ x \notin ToSet(s) => Distinct(LPush(s, x))
  <1> DEFINE t == LPush(s, x)
  <1>1. /\ t \in Seq(K) /\ Len(t) = Len(s) + 1 /\ t[1] = x
        /\ \A i \in 2..(Len(s) + 1) : t[i] = s[i - 1]
    BY DEF LPush, Cons
  <1>2. \A i \in 1..Len(s) : t[i + 1] = s[i]
    <2>1. ASSUME NEW i \in 1..Len(s) PROVE i + 1 \in 2..(Len(s) + 1) /\ (i + 1) - 1 = i
      OBVIOUS
    <2>2. QED
      BY <1>1, <2>1
  <1> HIDE DEF t
  <1>3. ToSet(t) = ToSet(s) \cup {x}
    <2>1. \A y \in ToSet(t) : y \in ToSet(s) \cup {x}
      <3>1. ASSUME NEW i \in 1..Len(t) PROVE t[i] \in ToSet(s) \cup {x}
        <4>1. CASE i = 1
          BY <1>1, <4>1
        <4>2. CASE i # 1
          <5>1. i \in 2..(Len(s) + 1) /\ i - 1 \in 1..Len(s)
            BY <1>1, <4>2
          <5>2. QED
            BY <1>1, <5>1, SetOfList
        <4>3. QED
          BY <4>1, <4>2
      <3>2. QED
        BY <1>1, <3>1, SetOfList
    <2>2. \A y \in ToSet(s) : y \in ToSet(t)
      <3>1. ASSUME NEW i \in 1..Len(s) PROVE s[i] \in ToSet(t)
        <4>1. i + 1 \in 1..Len(t) /\ t[i + 1] = s[i]
          BY <1>1, <1>2
        <4>2. QED
          BY <1>1, <4>1, SetOfList
      <3>2. QED
        BY <3>1, SetOfList
    <2>3. x \in ToSet(t)
      <3>1. 1 \in 1..Len(t)
        BY <1>1
      <3>2. QED
        BY <1>1, <3>1, SetOfList
    <2>4. QED
      BY <2>1, <2>2, <2>3
  <1>4. ASSUME Distinct(s), x \notin ToSet(s) PROVE Distinct(t)
    <2>1. ASSUME NEW i \in 1..Len(t), NEW k \in 1..Len(t), t[i] = t[k] PROVE i = k
      <3>1. \A j \in 1..Len(t) : j # 1 => j \in 2..(Len(s) + 1) /\ j - 1 \in 1..Len(s) /\ t[j] = s[j - 1]
        BY <1>1
      <3>2. \A j \in 1..Len(t) : j # 1 => t[j] # x
        BY <1>4, <3>1, SetOfList
      <3>3. CASE i = 1 \/ k = 1
        BY <1>1, <2>1, <3>2, <3>3
      <3>4. CASE i # 1 /\ k # 1
        <4>1. s[i - 1] = s[k - 1] /\ i - 1 \in 1..Len(s) /\ k - 1 \in 1..Len(s)
          BY <2>1, <3>1, <3>4
        <4>2. i - 1 = k - 1
          BY <1>4, <4>1 DEF Distinct
        <4>3. QED
          BY <4>2
      <3>5. QED
        BY <3>3, <3>4
    <2>2. QED
      BY <2>1 DEF Distinct
  <1>5. QED
    BY <1>1, <1>3, <1>4 DEF t

LEMMA RotateList ==
  ASSUME NEW K, NEW s \in Seq(K), s # <<>>
  PROVE  /\ Last(s) \in ToSet(s)
         /\ RPopLPush(s) \in Seq(K)
         /\ Len(RPopLPush(s)) = Len(s)
         /\ RPopLPush(s)[1] = Last(s)
         /\ \A i \in 2..Len(s) : RPopLPush(s)[i] = s[i - 1]
         /\ ToSet(RPopLPush(s)) = ToSet(s)
         /\ Distinct(s) => Distinct(RPopLPush(s))
  <1> DEFINE t == RPopLPush(s)
  <1>1. /\ Len(s) \in Nat \ {0} /\ Front(s) \in Seq(K) /\ Len(Front(s)) = Len(s) - 1
        /\ \A i \in 1..(Len(s) - 1) : Front(s)[i] = s[i]
        /\ Last(s) = s[Len(s)] /\ Last(s) \in K
    <2>1. Len(s) \in Nat \ {0}
      OBVIOUS
    <2>2. Last(s) = s[Len(s)] /\ Last(s) \in K
      BY <2>1 DEF Last
    <2>3. Len(s) - 1 \in Nat /\ Len(s) - 1 <= Len(s)
      BY <2>1
    <2>4. /\ Front(s) \in Seq(K) /\ Len(Front(s)) = Len(s) - 1
          /\ \A i \in 1..(Len(s) - 1) : Front(s)[i] = s[i]
      <3> DEFINE m == Len(s) - 1
      <3>1. m \in Nat /\ m <= Len(s) /\ m - 1 + 1 = m
        BY <2>3
      <3> HIDE DEF m
      <3>2. /\ SubSeq(s, 1, m) \in Seq(K) /\ Len(SubSeq(s, 1, m)) = m
            /\ \A i \in 1..m : SubSeq(s, 1, m)[i] = s[i]
        BY <3>1
      <3>3. QED
        BY <3>2 DEF Front, m
    <2>5. QED
      BY <2>1, <2>2, <2>4
  <1>2. Len(s) \in 1..Len(s)
    BY <1>1
  <1>3. Last(s) \in ToSet(s)
    BY <1>1, <1>2, SetOfList
  <1>4. /\ t \in Seq(K) /\ Len(t) = Len(s) /\ t[1] = Last(s)
        /\ \A i \in 2..Len(s) : t[i] = Front(s)[i - 1]
        /\ ToSet(t) = ToSet(Front(s)) \cup {Last(s)}
        /\ Distinct(Front(s)) /\ Last(s) \notin ToSet(Front(s)) => Distinct(t)
    <2> DEFINE u == Front(s)
               x == Last(s)
    <2>1. Len(u) + 1 = Len(s) /\ u \in Seq(K) /\ x \in K /\ t = LPush(u, x)
      BY <1>1 DEF RPopLPush
    <2> HIDE DEF u, x, t
    <2>2. /\ t \in Seq(K) /\ Len(t) = Len(s) /\ t[1] = x
          /\ \A i \in 2..Len(s) : t[i] = u[i - 1]
          /\ ToSet(t) = ToSet(u) \cup {x}
          /\ Distinct(u) /\ x \notin ToSet(u) => Distinct(t)
      <3>1. /\ LPush(u, x) \in Seq(K) /\ Len(LPush(u, x)) = Len(u) + 1 /\ LPush(u, x)[1] = x
            /\ \A i \in 2..(Len(u) + 1) : LPush(u, x)[i] = u[i - 1]
            /\ ToSet(LPush(u, x)) = ToSet(u) \cup {x}
            /\ Distinct(u) /\ x \notin ToSet(u) => Distinct(LPush(u, x))
        <4>1. u \in Seq(K) /\ x \in K
          BY <2>1
        <4>2. LPush(u, x) \in Seq(K) /\ Len(LPush(u, x)) = Len(u) + 1
          BY <4>1, PushOnList
        <4>3. LPush(u, x)[1] = x /\ \A i \in 2..(Len(u) + 1) : LPush(u, x)[i] = u[i - 1]
          BY <4>1, PushOnList
        <4>4. ToSet(LPush(u, x)) = ToSet(u) \cup {x}
          BY <4>1, PushOnList
        <4>5. Distinct(u) /\ x \notin ToSet(u) => Distinct(LPush(u, x))
          BY <4>1, PushOnList
        <4>6. QED
          BY <4>2, <4>3, <4>4, <4>5
      <3>2. QED
        BY <2>1, <3>1
    <2>3. QED
      BY <2>2 DEF u, x
  <1> HIDE DEF t
  <1>5. \A i \in 2..Len(s) : t[i] = s[i - 1]
    <2>1. \A i \in 2..Len(s) : i - 1 \in 1..(Len(s) - 1)
      BY <1>1
    <2>2. QED
      BY <1>1, <1>4, <2>1
  <1>6. ToSet(t) = ToSet(s)
    <2>1. \A x : x \in ToSet(Front(s)) <=> \E i \in 1..(Len(s) - 1) : s[i] = x
      BY <1>1, SetOfList
    <2>2. \A i \in 1..Len(s) : i \in 1..(Len(s) - 1) \/ i = Len(s)
      BY <1>1
    <2>3. \A i \in 1..(Len(s) - 1) : i \in 1..Len(s)
      BY <1>1
    <2>4. \A x : x \in ToSet(s) <=> \E i \in 1..Len(s) : s[i] = x
      BY SetOfList
    <2>5. \A x : x \in ToSet(s) <=> x \in ToSet(Front(s)) \/ x = Last(s)
      BY <1>1, <1>2, <2>1, <2>2, <2>3, <2>4
    <2>6. QED
      BY <1>4, <2>5
  <1>7. ASSUME Distinct(s) PROVE Distinct(t)
    <2>1. \A i \in 1..(Len(s) - 1) : i \in 1..Len(s) /\ i # Len(s)
      BY <1>1
    <2>2. Distinct(Front(s))
      BY <1>1, <1>7, <2>1 DEF Distinct
    <2>3. Last(s) \notin ToSet(Front(s))
      <3>1. \A i \in 1..(Len(s) - 1) : s[i] # s[Len(s)]
        BY <1>2, <1>7, <2>1 DEF Distinct
      <3>2. QED
        BY <1>1, <3>1, SetOfList
    <2>4. QED
      BY <1>4, <2>2, <2>3
  <1>8. QED
    BY <1>3, <1>4, <1>5, <1>6, <1>7 DEF t

LEMMA ShrinkList ==
  ASSUME NEW K, NEW s \in Seq(K), NEW x
  PROVE  /\ LRem(s, x) \in Seq(K)
         /\ ToSet(LRem(s, x)) = ToSet(s) \ {x}
         /\ Distinct(s) => Distinct(LRem(s, x))
  <1> DEFINE t == LRem(s, x)
  <1>1. t \in Seq(K) /\ Part(s, x, Len(s), t)
    BY RemoveFromList
  <1> HIDE DEF t
  <1>2. ToSet(t) = ToSet(s) \ {x}
    <2>1. /\ \A y : y \in ToSet(t) <=> \E i \in 1..Len(t) : t[i] = y
          /\ \A y : y \in ToSet(s) <=> \E a \in 1..Len(s) : s[a] = y
      BY <1>1, SetOfList
    <2>2. /\ \A i \in 1..Len(t) : \E a \in 1..Len(s) : t[i] = s[a] /\ s[a] # x
          /\ \A a \in 1..Len(s) : s[a] # x => \E i \in 1..Len(t) : t[i] = s[a]
      BY <1>1 DEF Part
    <2>3. \A y : y \in ToSet(t) => y \in ToSet(s) /\ y # x
      BY <2>1, <2>2
    <2>4. \A y : y \in ToSet(s) /\ y # x => y \in ToSet(t)
      BY <2>1, <2>2
    <2>5. QED
      BY <2>3, <2>4
  <1>3. ASSUME Distinct(s) PROVE Distinct(t)
    <2>1. ASSUME NEW i \in 1..Len(t), NEW k \in 1..Len(t), i < k PROVE t[i] # t[k]
      <3>1. PICK a, b \in 1..Len(s) : a < b /\ t[i] = s[a] /\ t[k] = s[b]
        BY <1>1, <2>1 DEF Part
      <3>2. QED
        BY <1>3, <3>1 DEF Distinct
    <2>2. QED
      BY <1>1, <2>1 DEF Distinct
  <1>4. QED
    BY <1>1, <1>2, <1>3 DEF t
\* LREM keeps the order, and brings no element farther from the end of the list.
LEMMA ShrinkOrder ==
  ASSUME NEW K, NEW s \in Seq(K), NEW x
  PROVE  /\ \A i \in 1..Len(LRem(s, x)) : \E a \in 1..Len(s) :
              LRem(s, x)[i] = s[a] /\ Len(LRem(s, x)) - i <= Len(s) - a
         /\ \A i, k \in 1..Len(LRem(s, x)) : i < k =>
              \E a, b \in 1..Len(s) : a < b /\ LRem(s, x)[i] = s[a] /\ LRem(s, x)[k] = s[b]
  <1> DEFINE t == LRem(s, x)
  <1>1. Part(s, x, Len(s), t)
    BY RemoveFromList
  <1> HIDE DEF t
  <1>2. \A i \in 1..Len(t) : \E a \in 1..Len(s) : t[i] = s[a] /\ Len(t) - i <= Len(s) - a
    BY <1>1 DEF Part
  <1>3. \A i, k \in 1..Len(t) : i < k => \E a, b \in 1..Len(s) : a < b /\ t[i] = s[a] /\ t[k] = s[b]
    BY <1>1 DEF Part
  <1>4. QED
    BY <1>2, <1>3 DEF t
-----------------------------------------------------------------------------
(* The types.                                                              *)
PoolTyped == order \in Seq(Keys) /\ secrets \subseteq drawn /\ drawn \subseteq Keys
             /\ early \subseteq Keys /\ parked \in [Keys -> {"no", "until", "due"}]

LoopTyped == /\ left \in [Clients -> Nat]
             /\ seen \in [Clients -> SUBSET Keys]
             /\ must \in [Clients -> SUBSET Keys]

Roles(a, p) == /\ a \in Clients => p \in AtClient
               /\ a \in Admins => p \in AtAdmin

\* Where an actor stands, with what in hand and what to promote.
ActorOK(a, p, k, D) == /\ p \in AtClient \cup AtAdmin /\ Roles(a, p)
                       /\ k \in Keys \cup {NoKey} /\ (p \in Empty <=> k = NoKey)
                       /\ D \subseteq Keys

ActorsTyped == /\ pc \in [Actors -> AtClient \cup AtAdmin]
               /\ cur \in [Actors -> Keys \cup {NoKey}]
               /\ due \in [Actors -> SUBSET Keys]
               /\ \A a \in Actors : ActorOK(a, pc[a], cur[a], due[a])

LEMMA TypeParts == TypeOK <=> PoolTyped /\ LoopTyped /\ ActorsTyped
  BY DEF TypeOK, PoolTyped, LoopTyped, ActorsTyped, ActorOK, Roles, Actors

LEMMA TypePartsNext == PoolTyped' /\ LoopTyped' /\ ActorsTyped' => TypeOK'
  BY DEF TypeOK, PoolTyped, LoopTyped, ActorsTyped, ActorOK, Roles, Actors

\* A step of one actor.
LEMMA ActorSteps ==
  ASSUME ActorsTyped, NEW a \in Actors, NEW p, NEW k, NEW D, ActorOK(a, p, k, D),
         pc' = [pc EXCEPT ![a] = p], cur' = [cur EXCEPT ![a] = k], due' = [due EXCEPT ![a] = D]
  PROVE  ActorsTyped'
  <1> USE DEF ActorsTyped
  <1>1. p \in AtClient \cup AtAdmin /\ k \in Keys \cup {NoKey} /\ D \in SUBSET Keys
    BY DEF ActorOK
  <1>2. /\ pc' \in [Actors -> AtClient \cup AtAdmin]
        /\ cur' \in [Actors -> Keys \cup {NoKey}]
        /\ due' \in [Actors -> SUBSET Keys]
    BY <1>1
  <1>3. ASSUME NEW b \in Actors PROVE ActorOK(b, pc'[b], cur'[b], due'[b])
    <2>1. CASE b = a
      BY <2>1
    <2>2. CASE b # a
      BY <2>2
    <2>3. QED
      BY <2>1, <2>2
  <1>4. QED
    BY <1>2, <1>3 DEF ActorOK, Roles

\* A step that leaves the hand and what there is to promote.
LEMMA ActorGoes ==
  ASSUME ActorsTyped, NEW a \in Actors, NEW p, Goto(a, p), cur' = cur, due' = due,
         ActorOK(a, p, cur[a], due[a])
  PROVE  ActorsTyped'
  <1>1. cur' = [cur EXCEPT ![a] = cur[a]] /\ due' = [due EXCEPT ![a] = due[a]]
    BY DEF ActorsTyped
  <1>2. QED
    BY <1>1, ActorSteps DEF Goto

LEMMA ActorTakes ==
  ASSUME ActorsTyped, NEW a \in Actors, NEW p, NEW k, Goto(a, p), Takes(a, k), due' = due,
         ActorOK(a, p, k, due[a])
  PROVE  ActorsTyped'
  <1>1. due' = [due EXCEPT ![a] = due[a]]
    BY DEF ActorsTyped
  <1>2. QED
    BY <1>1, ActorSteps DEF Goto, Takes

LEMMA OneActorOK ==
  ASSUME ActorsTyped, NEW a \in Actors
  PROVE  /\ ActorOK(a, pc[a], cur[a], due[a])
         /\ pc[a] \notin Empty => cur[a] \in Keys
  BY ConstantsAssumption DEF ActorsTyped, ActorOK

LEMMA InitTyped == Init => TypeOK
  <1> SUFFICES ASSUME Init PROVE TypeOK
    OBVIOUS
  <1>1. ToSet(StartOrder) \subseteq Keys
    BY ConstantsAssumption, SetOfList
  <1>2. PoolTyped
    BY <1>1, ConstantsAssumption DEF Init, PoolTyped
  <1>3. LoopTyped
    BY DEF Init, LoopTyped
  <1>4. ActorsTyped
    BY DEF Init, ActorsTyped, ActorOK, Roles, AtClient, AtAdmin, Empty
  <1>5. QED
    BY <1>2, <1>3, <1>4, TypeParts

LEMMA SharedTyped == ASSUME TypeOK, NEW a \in Actors, Shared(a) PROVE TypeOK'
  <1>1. PoolTyped /\ LoopTyped /\ ActorsTyped
    BY TypeParts
  <1>2. ActorOK(a, pc[a], cur[a], due[a]) /\ (pc[a] \notin Empty => cur[a] \in Keys)
    BY <1>1, OneActorOK
  <1>3. LoopTyped'
    BY <1>1 DEF Shared, ReadDue, PromotePush, PromoteUnpark, PromoteOnly, DropOrder, DropSecret,
       DropParked, cycle, LoopTyped
  <1>4. PoolTyped'
    <2>1. CASE ReadDue(a) \/ PromoteOnly(a)
      BY <1>1, <2>1 DEF ReadDue, PromoteOnly, redis, PoolTyped
    <2>2. CASE PromotePush(a)
      <3>1. PICK k \in due[a] : order' = LPush(order, k)
        BY <2>2 DEF PromotePush
      <3>2. k \in Keys /\ order \in Seq(Keys)
        BY <1>1, <1>2 DEF ActorOK, PoolTyped
      <3>3. order' \in Seq(Keys)
        BY <3>1, <3>2, PushOnList
      <3>4. QED
        BY <1>1, <2>2, <3>3 DEF PromotePush, PoolTyped
    <2>3. CASE PromoteUnpark(a) \/ DropParked(a)
      BY <1>1, <2>3 DEF PromoteUnpark, DropParked, PoolTyped
    <2>4. CASE DropOrder(a)
      <3>1. order' \in Seq(Keys)
        BY <1>1, <2>4, ShrinkList DEF DropOrder, PoolTyped
      <3>2. early' \subseteq Keys
        BY <1>1, <1>2, <2>4 DEF DropOrder, At, Empty, PoolTyped
      <3>3. QED
        BY <1>1, <2>4, <3>1, <3>2 DEF DropOrder, PoolTyped
    <2>5. CASE DropSecret(a)
      BY <1>1, <2>5 DEF DropSecret, PoolTyped
    <2>6. QED
      BY <2>1, <2>2, <2>3, <2>4, <2>5 DEF Shared
  <1>5. ActorsTyped'
    <2> USE DEF ActorOK, Roles, AtClient, AtAdmin, Empty, At
    <2>1. CASE ReadDue(a)
      <3> DEFINE D == {k \in Keys : parked[k] = "due"}
      <3>1. cur' = [cur EXCEPT ![a] = cur[a]] /\ due' = [due EXCEPT ![a] = D]
            /\ pc' = [pc EXCEPT ![a] = "promote"]
        BY <1>1, <2>1 DEF ReadDue, Goto, ActorsTyped
      <3>2. ActorOK(a, "promote", cur[a], D)
        BY <1>2, <2>1 DEF ReadDue
      <3> HIDE DEF D
      <3>3. QED
        BY <1>1, <3>1, <3>2, ActorSteps
    <2>2. CASE PromotePush(a)
      <3>1. PICK k \in due[a] : Takes(a, k) /\ due' = [due EXCEPT ![a] = due[a] \ {k}]
        BY <2>2 DEF PromotePush
      <3>2. ActorOK(a, "unpark", k, due[a] \ {k})
        BY <1>2, ConstantsAssumption DEF Actors
      <3>3. QED
        BY <1>1, <2>2, <3>1, <3>2, ActorSteps DEF PromotePush, Goto, Takes
    <2>3. CASE PromoteUnpark(a)
      <3>1. ActorOK(a, "promote", NoKey, due[a])
        BY <1>2, <2>3 DEF PromoteUnpark
      <3>2. QED
        BY <1>1, <2>3, <3>1, ActorTakes DEF PromoteUnpark
    <2>4. CASE PromoteOnly(a)
      <3>1. ActorOK(a, "idle", cur[a], due[a])
        BY <1>2, <2>4 DEF PromoteOnly
      <3>2. QED
        BY <1>1, <2>4, <3>1, ActorGoes DEF PromoteOnly, redis
    <2>5. CASE DropOrder(a) \/ DropSecret(a)
      <3>1. PICK p \in {"hdel", "zrem"} : Goto(a, p) /\ cur' = cur /\ due' = due
        BY <2>5 DEF DropOrder, DropSecret
      <3>2. ActorOK(a, p, cur[a], due[a])
        BY <1>2, <2>5 DEF DropOrder, DropSecret
      <3>3. QED
        BY <1>1, <3>1, <3>2, ActorGoes
    <2>6. CASE DropParked(a)
      <3>1. ActorOK(a, Resume(a), NoKey, due[a])
        BY <1>2, ConstantsAssumption DEF Resume, Actors
      <3>2. QED
        BY <1>1, <2>6, <3>1, ActorTakes DEF DropParked
    <2>7. QED
      BY <2>1, <2>2, <2>3, <2>4, <2>5, <2>6 DEF Shared
  <1>6. QED
    BY <1>3, <1>4, <1>5, TypePartsNext

LEMMA LeaveTyped ==
  ASSUME ActorsTyped, LoopTyped, NEW c \in Clients, Leave(c), due' = due
  PROVE  ActorsTyped' /\ LoopTyped'
  <1>1. c \in Actors
    BY DEF Actors
  <1>2. ActorOK(c, "idle", NoKey, due[c])
    BY <1>1, OneActorOK, ConstantsAssumption
       DEF ActorOK, Roles, AtClient, AtAdmin, Empty, Actors
  <1>3. ActorsTyped'
    BY <1>1, <1>2, ActorTakes DEF Leave
  <1>4. LoopTyped'
    BY DEF Leave, LoopTyped
  <1>5. QED
    BY <1>3, <1>4

LEMMA ClientTyped == ASSUME TypeOK, NEW c \in Clients, Client(c) PROVE TypeOK'
  <1>1. PoolTyped /\ LoopTyped /\ ActorsTyped /\ c \in Actors
    BY TypeParts DEF Actors
  <1>2. ActorOK(c, pc[c], cur[c], due[c]) /\ (pc[c] \notin Empty => cur[c] \in Keys)
    BY <1>1, OneActorOK
  <1>3. c \notin Admins
    BY ConstantsAssumption
  <1>4. PoolTyped'
    <2>1. CASE ReadLength(c) \/ CheckParked(c) \/ ReadSecret(c) \/ Use(c) \/ Fail(c)
      BY <1>1, <2>1 DEF ReadLength, CheckParked, ReadSecret, Use, Fail, redis, PoolTyped
    <2>2. CASE Rotate(c) \/ RotateEnds(c)
      <3>1. order' = order \/ (order # <<>> /\ order' = RPopLPush(order))
        BY <2>2 DEF Rotate, RotateEnds
      <3>2. order' \in Seq(Keys)
        BY <1>1, <3>1, RotateList DEF PoolTyped
      <3>3. QED
        BY <1>1, <2>2, <3>2 DEF Rotate, RotateEnds, PoolTyped
    <2>3. CASE ParkRemove(c)
      <3>1. order' \in Seq(Keys)
        BY <1>1, <2>3, ShrinkList DEF ParkRemove, PoolTyped
      <3>2. QED
        BY <1>1, <2>3, <3>1 DEF ParkRemove, PoolTyped
    <2>4. CASE ParkAdd(c)
      BY <1>1, <2>4 DEF ParkAdd, ParkAddUntil, PoolTyped
    <2>5. QED
      BY <2>1, <2>2, <2>3, <2>4 DEF Client
  <1>5. ActorsTyped' /\ LoopTyped'
    <2> USE DEF ActorOK, Roles, AtClient, AtAdmin, Empty, At
    <2>1. CASE ReadLength(c)
      <3>1. ActorOK(c, "rotate", cur[c], due[c])
        BY <1>2, <1>3, <2>1 DEF ReadLength
      <3>2. ActorsTyped'
        BY <1>1, <2>1, <3>1, ActorGoes DEF ReadLength, redis
      <3>3. LoopTyped'
        <4> DEFINE M == {k \in ToSet(order) : parked[k] # "until"}
        <4>1. Len(order) \in Nat /\ M \in SUBSET Keys
          BY <1>1, SetOfList DEF PoolTyped
        <4>2. /\ left' = [left EXCEPT ![c] = Len(order)] /\ seen' = [seen EXCEPT ![c] = {}]
              /\ must' = [must EXCEPT ![c] = M]
          BY <2>1 DEF ReadLength
        <4> HIDE DEF M
        <4>3. QED
          BY <1>1, <4>1, <4>2 DEF LoopTyped
      <3>4. QED
        BY <3>2, <3>3
    <2>2. CASE Rotate(c)
      <3>1. Last(order) \in Keys
        <4>1. order \in Seq(Keys) /\ order # <<>>
          BY <1>1, <2>2 DEF Rotate, PoolTyped
        <4>2. Last(order) \in ToSet(order) /\ ToSet(order) \subseteq Keys
          BY <4>1, RotateList, SetOfList
        <4>3. QED
          BY <4>2
      <3>2. ActorOK(c, "score", Last(order), due[c])
        BY <1>2, <1>3, <3>1, ConstantsAssumption
      <3>3. ActorsTyped'
        BY <1>1, <2>2, <3>2, ActorTakes DEF Rotate
      <3>4. LoopTyped'
        BY <1>1, <2>2, <3>1 DEF Rotate, LoopTyped
      <3>5. QED
        BY <3>3, <3>4
    <2>3. CASE RotateEnds(c)
      <3>1. ActorOK(c, "exhausted", cur[c], due[c])
        BY <1>2, <1>3, <2>3 DEF RotateEnds
      <3>2. QED
        BY <1>1, <2>3, <3>1, ActorGoes DEF RotateEnds, cycle, LoopTyped
    <2>4. CASE CheckParked(c) \/ ReadSecret(c)
      <3>1. /\ \/ Takes(c, NoKey) /\ Goto(c, "rotate")
               \/ cur' = cur /\ \E p \in {"secret", "using"} : Goto(c, p)
            /\ due' = due /\ pc[c] \notin Empty /\ UNCHANGED <<left, seen, must>>
        BY <2>4 DEF CheckParked, ReadSecret, cycle
      <3>2. LoopTyped'
        BY <1>1, <3>1 DEF LoopTyped
      <3>3. ActorOK(c, "rotate", NoKey, due[c])
        BY <1>2, <1>3
      <3>4. \A p \in {"secret", "using"} : ActorOK(c, p, cur[c], due[c])
        BY <1>2, <1>3, <3>1
      <3>5. ActorsTyped'
        BY <1>1, <3>1, <3>3, <3>4, ActorGoes, ActorTakes
      <3>6. QED
        BY <3>2, <3>5
    <2>5. CASE Use(c) \/ Fail(c)
      <3>1. CASE Leave(c) /\ due' = due
        BY <1>1, <3>1, LeaveTyped
      <3>2. CASE Goto(c, "rotate") /\ Takes(c, NoKey) /\ UNCHANGED cycle /\ due' = due
        <4>1. ActorOK(c, "rotate", NoKey, due[c])
          BY <1>2, <1>3
        <4>2. QED
          BY <1>1, <3>2, <4>1, ActorTakes DEF cycle, LoopTyped
      <3>3. CASE pc[c] = "using" /\ (\E p \in {"park", "drop"} : Goto(c, p)) /\ UNCHANGED <<cur, due, cycle>>
        <4>1. \A p \in {"park", "drop"} : ActorOK(c, p, cur[c], due[c])
          BY <1>2, <1>3, <3>3
        <4>2. QED
          BY <1>1, <3>3, <4>1, ActorGoes DEF cycle, LoopTyped
      <3>4. QED
        BY <2>5, <3>1, <3>2, <3>3 DEF Use, Fail
    <2>6. CASE ParkRemove(c)
      <3>1. CASE Leave(c)
        BY <1>1, <2>6, <3>1, LeaveTyped DEF ParkRemove
      <3>2. CASE Goto(c, "until") /\ UNCHANGED <<cur, cycle>>
        <4>1. ActorOK(c, "until", cur[c], due[c])
          BY <1>2, <1>3, <2>6 DEF ParkRemove
        <4>2. QED
          BY <1>1, <2>6, <3>2, <4>1, ActorGoes DEF ParkRemove, cycle, LoopTyped
      <3>3. QED
        BY <2>6, <3>1, <3>2 DEF ParkRemove
    <2>7. CASE ParkAdd(c)
      <3>1. ActorOK(c, "rotate", NoKey, due[c])
        BY <1>2, <1>3
      <3>2. QED
        BY <1>1, <2>7, <3>1, ActorTakes DEF ParkAdd, ParkAddUntil, cycle, LoopTyped
    <2>8. QED
      BY <2>1, <2>2, <2>3, <2>4, <2>5, <2>6, <2>7 DEF Client
  <1>6. QED
    BY <1>4, <1>5, TypePartsNext

LEMMA AdminTyped == ASSUME TypeOK, NEW a \in Admins, Admin(a) PROVE TypeOK'
  <1>1. PoolTyped /\ LoopTyped /\ ActorsTyped /\ a \in Actors /\ a \notin Clients
    BY TypeParts, ConstantsAssumption DEF Actors
  <1>2. ActorOK(a, pc[a], cur[a], due[a]) /\ (pc[a] \notin Empty => cur[a] \in Keys)
    BY <1>1, OneActorOK
  <1>3. LoopTyped'
    BY <1>1 DEF Admin, AddSecret, AddSecretFirst, AddPush, AdminDelete, cycle, LoopTyped
  <1>4. PoolTyped'
    <2>1. CASE AddSecret(a) \/ AdminDelete(a)
      BY <1>1, <2>1 DEF AddSecret, AddSecretFirst, AdminDelete, redis, PoolTyped
    <2>2. CASE AddPush(a)
      <3>1. cur[a] \in Keys /\ order \in Seq(Keys) /\ order' = LPush(order, cur[a])
        BY <1>1, <1>2, <2>2 DEF AddPush, At, Empty, PoolTyped
      <3>2. order' \in Seq(Keys)
        BY <3>1, PushOnList
      <3>3. QED
        BY <1>1, <2>2, <3>2 DEF AddPush, PoolTyped
    <2>3. QED
      BY <2>1, <2>2 DEF Admin
  <1>5. ActorsTyped'
    <2> USE DEF ActorOK, Roles, AtClient, AtAdmin, Empty, At
    <2>1. CASE AddSecret(a) \/ AdminDelete(a)
      <3>1. PICK k \in Keys, p \in {"add", "drop"} : Takes(a, k) /\ Goto(a, p) /\ due' = due
        BY <1>1, <2>1 DEF AddSecret, AddSecretFirst, AdminDelete, redis, PoolTyped
      <3>2. ActorOK(a, p, k, due[a])
        BY <1>1, <1>2, ConstantsAssumption
      <3>3. QED
        BY <1>1, <3>1, <3>2, ActorTakes
    <2>2. CASE AddPush(a)
      <3>1. ActorOK(a, "idle", NoKey, due[a])
        BY <1>1, <1>2
      <3>2. QED
        BY <1>1, <2>2, <3>1, ActorTakes DEF AddPush
    <2>3. QED
      BY <2>1, <2>2 DEF Admin
  <1>6. QED
    BY <1>3, <1>4, <1>5, TypePartsNext

LEMMA NextTyped == TypeOK /\ [Next]_vars => TypeOK'
  <1> SUFFICES ASSUME TypeOK, [Next]_vars PROVE TypeOK'
    OBVIOUS
  <1>1. CASE UNCHANGED vars
    BY <1>1 DEF vars, TypeOK
  <1>2. CASE Midnight
    BY <1>2 DEF Midnight, cycle, TypeOK
  <1>3. QED
    BY <1>1, <1>2, SharedTyped, ClientTyped, AdminTyped DEF Next

(* However the commands of the loops and of the admins interleave, every    *)
(* variable has its type, and an actor has a key in hand exactly between    *)
(* the commands that are about it (provider_key_pool.py).                   *)
THEOREM PoolTypeCorrect == Spec => []TypeOK
  BY InitTyped, NextTyped, PTL DEF Spec
-----------------------------------------------------------------------------
(* The rotation list of the source, where nothing is ever parked.          *)
NothingParked ==
  /\ \A k \in Keys : parked[k] = "no"
  /\ \A a \in Actors : due[a] = {} /\ pc[a] \notin {"unpark", "until"}

HandsDrawn == early \subseteq drawn /\ \A a \in Actors : cur[a] # NoKey => cur[a] \in drawn

\* A key that is being added has its secret, unless it was deleted meanwhile, is not in the
\* list yet, and is added once.
AddsAlone ==
  \A a \in Actors : pc[a] = "add" =>
    /\ cur[a] \in secrets \cup early
    /\ cur[a] \notin ToSet(order)
    /\ \A b \in Actors : pc[b] = "add" /\ cur[b] = cur[a] => b = a

\* The secret goes after the entry of the list, and no LPUSH is to come, unless the LREM
\* met the key half added.
DropsInOrder ==
  \A a \in Actors : pc[a] = "hdel" =>
    \/ cur[a] \in early
    \/ /\ cur[a] \notin ToSet(order)
       /\ \A b \in Actors : pc[b] = "add" => cur[b] # cur[a]

RotationInv == /\ NothingParked
               /\ Distinct(order) /\ ToSet(order) \subseteq secrets \cup early
               /\ HandsDrawn /\ AddsAlone /\ DropsInOrder

LEMMA AddersAreAdmins == ASSUME TypeOK, NEW a \in Actors, pc[a] = "add" PROVE a \in Admins
  BY DEF TypeOK, Actors, AtClient

LEMMA OrderIsList == TypeOK => order \in Seq(Keys)
  BY DEF TypeOK

LEMMA InitRotation == Init => RotationInv
  <1> SUFFICES ASSUME Init PROVE RotationInv
    OBVIOUS
  <1>1. Distinct(StartOrder)
    BY ConstantsAssumption DEF Distinct
  <1>2. NothingParked /\ HandsDrawn /\ AddsAlone /\ DropsInOrder
    BY DEF Init, NothingParked, HandsDrawn, AddsAlone, DropsInOrder
  <1>3. QED
    BY <1>1, <1>2 DEF Init, RotationInv

\* A step of an actor that adds no key, to p with k in hand: the list only shrinks, and
\* the secrets of the keys that are in it or will be stay, but for the early ones.
RotationMove(a, p, k) ==
  /\ pc' = [pc EXCEPT ![a] = p] /\ cur' = [cur EXCEPT ![a] = k]
  /\ \A b \in Actors : due'[b] = {}
  /\ \A x \in Keys : parked'[x] = "no"
  /\ drawn' = drawn /\ early \subseteq early' /\ early' \subseteq drawn
  /\ Distinct(order') /\ ToSet(order') \subseteq ToSet(order)
  /\ ToSet(order') \subseteq secrets' \cup early'
  /\ p \notin {"unpark", "until", "add"}
  /\ p = "hdel" => \/ k \in early'
                   \/ /\ k \notin ToSet(order')
                      /\ \A b \in Actors : pc[b] = "add" /\ b # a => cur[b] # k
  /\ k # NoKey => k \in drawn
  /\ \A b \in Actors : pc[b] = "add" /\ b # a => cur[b] \in secrets' \cup early'

LEMMA RotationGoes ==
  ASSUME TypeOK, RotationInv, NEW a \in Actors, NEW p, NEW k, RotationMove(a, p, k)
  PROVE  RotationInv'
  <1> USE DEF RotationMove
  <1>1. /\ \A b \in Actors : pc'[b] = IF b = a THEN p ELSE pc[b]
        /\ \A b \in Actors : cur'[b] = IF b = a THEN k ELSE cur[b]
    BY DEF TypeOK
  <1>2. NothingParked /\ HandsDrawn /\ AddsAlone /\ DropsInOrder
    BY DEF RotationInv
  <1>3. NothingParked'
    BY <1>1, <1>2 DEF NothingParked
  <1>4. HandsDrawn'
    BY <1>1, <1>2 DEF HandsDrawn
  <1>5. AddsAlone'
    BY <1>1, <1>2 DEF AddsAlone
  <1>6. DropsInOrder'
    BY <1>1, <1>2 DEF DropsInOrder
  <1>7. Distinct(order)'
    BY DEF Distinct
  <1>8. QED
    BY <1>3, <1>4, <1>5, <1>6, <1>7 DEF RotationInv

\* One that keeps or empties its hand, and leaves the pool.
LEMMA RotationStays ==
  ASSUME TypeOK, RotationInv, NEW a \in Actors, NEW p, NEW k \in {cur[a], NoKey},
         Goto(a, p), cur' = [cur EXCEPT ![a] = k], UNCHANGED redis, due' = due,
         p \notin {"unpark", "until", "add", "hdel"}
  PROVE  RotationInv'
  <1>1. /\ NothingParked /\ HandsDrawn /\ AddsAlone
        /\ Distinct(order) /\ ToSet(order) \subseteq secrets \cup early
    BY DEF RotationInv
  <1>2. (k # NoKey => k \in drawn) /\ early \subseteq drawn
    BY <1>1 DEF HandsDrawn
  <1>3. \A b \in Actors : pc[b] = "add" /\ b # a => cur[b] \in secrets \cup early
    BY <1>1 DEF AddsAlone
  <1>4. \A b \in Actors : due'[b] = {}
    BY <1>1 DEF NothingParked
  <1>5. \A x \in Keys : parked'[x] = "no"
    BY <1>1 DEF NothingParked, redis
  <1>6. UNCHANGED <<order, secrets, drawn, early>>
    BY DEF redis
  <1>7. Distinct(order')
    BY <1>1, <1>6
  <1>8. QED
    BY <1>1, <1>2, <1>3, <1>4, <1>5, <1>6, <1>7, RotationGoes DEF Goto, RotationMove

\* What the pool is before a step: a shorthand for the cases below.
LEMMA RotationNow ==
  ASSUME TypeOK, RotationInv
  PROVE  /\ order \in Seq(Keys) /\ Distinct(order)
         /\ ToSet(order) \subseteq secrets \cup early
         /\ secrets \subseteq drawn /\ early \subseteq drawn /\ drawn \subseteq Keys
         /\ \A b \in Actors : due[b] = {} /\ pc[b] \notin {"unpark", "until"}
         /\ \A x \in Keys : parked[x] = "no"
         /\ \A b \in Actors : cur[b] # NoKey => cur[b] \in drawn
         /\ \A b \in Actors : pc[b] = "add" =>
              /\ b \in Admins /\ cur[b] # NoKey
              /\ cur[b] \in secrets \cup early /\ cur[b] \notin ToSet(order)
              /\ \A d \in Actors : pc[d] = "add" /\ cur[d] = cur[b] => d = b
         /\ \A b \in Actors : pc[b] = "hdel" =>
              \/ cur[b] \in early
              \/ /\ cur[b] \notin ToSet(order)
                 /\ \A d \in Actors : pc[d] = "add" => cur[d] # cur[b]
  <1>1. /\ order \in Seq(Keys) /\ Distinct(order)
        /\ ToSet(order) \subseteq secrets \cup early
        /\ secrets \subseteq drawn /\ early \subseteq drawn /\ drawn \subseteq Keys
    BY DEF TypeOK, RotationInv, HandsDrawn
  <1>2. /\ \A b \in Actors : due[b] = {} /\ pc[b] \notin {"unpark", "until"}
        /\ \A x \in Keys : parked[x] = "no"
        /\ \A b \in Actors : cur[b] # NoKey => cur[b] \in drawn
        /\ \A b \in Actors : pc[b] = "hdel" =>
             \/ cur[b] \in early
             \/ /\ cur[b] \notin ToSet(order)
                /\ \A d \in Actors : pc[d] = "add" => cur[d] # cur[b]
    BY DEF RotationInv, NothingParked, HandsDrawn, DropsInOrder
  <1>3. ASSUME NEW b \in Actors, pc[b] = "add"
        PROVE  /\ b \in Admins /\ cur[b] # NoKey
               /\ cur[b] \in secrets \cup early /\ cur[b] \notin ToSet(order)
               /\ \A d \in Actors : pc[d] = "add" /\ cur[d] = cur[b] => d = b
    BY <1>3, AddersAreAdmins DEF RotationInv, AddsAlone, TypeOK, Empty
  <1>4. QED
    BY <1>1, <1>2, <1>3

LEMMA SharedRotates == ASSUME TypeOK, RotationInv, NEW a \in Actors, Shared(a) PROVE RotationInv'
  <1> USE RotationNow
  <1>1. cur = [cur EXCEPT ![a] = cur[a]]
    BY DEF TypeOK
  <1>2. \A b \in Actors : pc[b] = "add" => BeingAdded(cur[b])
    BY DEF BeingAdded
  <1>3. CASE ReadDue(a)
    <2>1. {k \in Keys : parked[k] = "due"} = {}
      OBVIOUS
    <2>2. due' = [due EXCEPT ![a] = {}]
      BY <1>3, <2>1 DEF ReadDue
    <2>3. due' = due
      BY <2>2 DEF TypeOK
    <2>4. QED
      BY <1>1, <1>3, <2>3, RotationStays DEF ReadDue
  <1>4. CASE PromotePush(a)
    BY <1>4 DEF PromotePush
  <1>5. CASE PromoteUnpark(a)
    BY <1>5 DEF PromoteUnpark, At
  <1>6. CASE PromoteOnly(a)
    BY <1>1, <1>6, RotationStays DEF PromoteOnly
  <1>7. CASE DropOrder(a)
    <2>1. /\ pc' = [pc EXCEPT ![a] = "hdel"] /\ cur' = [cur EXCEPT ![a] = cur[a]]
          /\ UNCHANGED <<secrets, parked, drawn, due>> /\ order' = LRem(order, cur[a])
          /\ early' = early \cup {k \in {cur[a]} : BeingAdded(k)}
      BY <1>1, <1>7 DEF DropOrder, Goto
    <2>2. ToSet(order') = ToSet(order) \ {cur[a]} /\ Distinct(order')
      BY <2>1, ShrinkList
    <2>3. cur[a] \in drawn
      BY <1>7 DEF DropOrder, At, TypeOK, Empty
    <2>4. cur[a] \in early' \/ \A b \in Actors : pc[b] = "add" => cur[b] # cur[a]
      BY <1>2, <2>1
    <2>5. early \subseteq early' /\ early' \subseteq drawn
      BY <2>1, <2>3
    <2>6. RotationMove(a, "hdel", cur[a])
      BY <2>1, <2>2, <2>3, <2>4, <2>5 DEF RotationMove
    <2>7. QED
      BY <2>6, RotationGoes
  <1>8. CASE DropSecret(a)
    <2>1. /\ pc' = [pc EXCEPT ![a] = "zrem"] /\ cur' = [cur EXCEPT ![a] = cur[a]]
          /\ UNCHANGED <<order, parked, drawn, early, due>> /\ secrets' = secrets \ {cur[a]}
          /\ pc[a] = "hdel"
      BY <1>1, <1>8 DEF DropSecret, Goto, At
    <2>2. /\ ToSet(order') \subseteq secrets' \cup early'
          /\ \A b \in Actors : pc[b] = "add" => cur[b] \in secrets' \cup early'
      BY <2>1
    <2>3. RotationMove(a, "zrem", cur[a])
      BY <1>2, <2>1, <2>2 DEF RotationMove
    <2>4. QED
      BY <2>3, RotationGoes
  <1>9. CASE DropParked(a)
    <2>1. /\ pc' = [pc EXCEPT ![a] = Resume(a)] /\ cur' = [cur EXCEPT ![a] = NoKey]
          /\ UNCHANGED <<order, secrets, drawn, early, due>> /\ \A x \in Keys : parked'[x] = "no"
      BY <1>9 DEF DropParked, Goto, Takes, TypeOK
    <2>2. Resume(a) \notin {"unpark", "until", "add", "hdel"}
      BY DEF Resume
    <2>3. RotationMove(a, Resume(a), NoKey)
      BY <1>2, <2>1, <2>2 DEF RotationMove
    <2>4. QED
      BY <2>3, RotationGoes
  <1>10. QED
    BY <1>3, <1>4, <1>5, <1>6, <1>7, <1>8, <1>9 DEF Shared

LEMMA ClientRotates ==
  ASSUME TypeOK, RotationInv, MidnightRaises, NEW c \in Clients, Client(c) PROVE RotationInv'
  <1> USE RotationNow
  <1>1. c \in Actors /\ cur = [cur EXCEPT ![c] = cur[c]]
    BY DEF TypeOK, Actors
  <1>2. CASE ReadLength(c)
    BY <1>1, <1>2, RotationStays DEF ReadLength
  <1>3. CASE Rotate(c) \/ RotateEnds(c)
    <2>1. PICK k \in {cur[c], NoKey, Last(order)}, p \in {"exhausted", "score"} :
            /\ Goto(c, p) /\ cur' = [cur EXCEPT ![c] = k]
            /\ UNCHANGED <<secrets, parked, drawn, early, due>>
            /\ order' = order \/ (order # <<>> /\ order' = RPopLPush(order))
            /\ k = Last(order) => order # <<>> \/ k \in {cur[c], NoKey}
      BY <1>1, <1>3 DEF Rotate, RotateEnds, Takes
    <2>2. ToSet(order') = ToSet(order) /\ Distinct(order')
      BY <2>1, RotateList
    <2>3. k \in {cur[c], NoKey} \/ k \in ToSet(order)
      BY <2>1, RotateList
    <2>4. k # NoKey => k \in drawn
      BY <1>1, <2>3
    <2>5. RotationMove(c, p, k)
      BY <1>1, <2>1, <2>2, <2>4 DEF RotationMove, Goto
    <2>6. QED
      BY <1>1, <2>5, RotationGoes
  <1>4. CASE CheckParked(c) \/ ReadSecret(c) \/ Use(c) \/ Fail(c)
    <2>1. PICK k \in {cur[c], NoKey}, p \in {"idle", "rotate", "secret", "using", "park", "drop"} :
            Goto(c, p) /\ cur' = [cur EXCEPT ![c] = k]
      BY <1>1, <1>4 DEF CheckParked, ReadSecret, Use, Fail, Leave, Takes
    <2>2. UNCHANGED redis /\ due' = due
      BY <1>4 DEF CheckParked, ReadSecret, Use, Fail
    <2>3. QED
      BY <1>1, <2>1, <2>2, RotationStays
  <1>5. CASE ParkRemove(c)
    <2>1. /\ pc' = [pc EXCEPT ![c] = "idle"] /\ cur' = [cur EXCEPT ![c] = NoKey]
          /\ UNCHANGED <<secrets, parked, drawn, early, due>> /\ order' = LRem(order, cur[c])
      BY <1>5 DEF ParkRemove, Leave, Goto, Takes
    <2>2. ToSet(order') = ToSet(order) \ {cur[c]} /\ Distinct(order')
      BY <2>1, ShrinkList
    <2>3. RotationMove(c, "idle", NoKey)
      BY <1>1, <2>1, <2>2 DEF RotationMove
    <2>4. QED
      BY <1>1, <2>3, RotationGoes
  <1>6. CASE ParkAdd(c)
    BY <1>1, <1>6 DEF ParkAdd, ParkAddUntil, At
  <1>7. QED
    BY <1>2, <1>3, <1>4, <1>5, <1>6 DEF Client

LEMMA AdminRotates == ASSUME TypeOK, RotationInv, NEW a \in Admins, Admin(a) PROVE RotationInv'
  <1> USE RotationNow
  <1>1. a \in Actors
    BY DEF Actors
  <1>2. CASE AddSecret(a)
    <2>1. PICK k \in Keys \ drawn : /\ drawn' = drawn \cup {k} /\ secrets' = secrets \cup {k}
                                    /\ cur' = [cur EXCEPT ![a] = k]
      BY <1>2 DEF AddSecret, AddSecretFirst, Takes
    <2>2. UNCHANGED <<order, parked, early, due>> /\ pc' = [pc EXCEPT ![a] = "add"] /\ k # NoKey
      BY <1>2, ConstantsAssumption DEF AddSecret, AddSecretFirst, Goto
    <2>3. /\ \A b \in Actors : pc'[b] = IF b = a THEN "add" ELSE pc[b]
          /\ \A b \in Actors : cur'[b] = IF b = a THEN k ELSE cur[b]
      BY <2>1, <2>2 DEF TypeOK
    <2>4. k \notin ToSet(order) /\ \A b \in Actors : cur[b] # k
      BY <2>1, <2>2
    <2>5. NothingParked'
      BY <2>2, <2>3 DEF NothingParked
    <2>6. HandsDrawn'
      BY <2>1, <2>2, <2>3 DEF HandsDrawn
    <2>7. AddsAlone'
      <3>1. ASSUME NEW b \in Actors, pc'[b] = "add"
            PROVE  cur'[b] \in secrets' \cup early' /\ cur'[b] \notin ToSet(order)
                   /\ \A d \in Actors : pc'[d] = "add" /\ cur'[d] = cur'[b] => d = b
        <4>1. CASE b = a
          BY <2>1, <2>2, <2>3, <2>4, <4>1
        <4>2. CASE b # a
          BY <2>1, <2>2, <2>3, <2>4, <3>1, <4>2
        <4>3. QED
          BY <4>1, <4>2
      <3>2. QED
        BY <2>2, <3>1 DEF AddsAlone
    <2>8. DropsInOrder'
      BY <2>2, <2>3, <2>4 DEF DropsInOrder
    <2>9. Distinct(order)' /\ ToSet(order') \subseteq secrets' \cup early'
      BY <2>1, <2>2 DEF Distinct
    <2>10. QED
      BY <2>5, <2>6, <2>7, <2>8, <2>9 DEF RotationInv
  <1>3. CASE AddPush(a)
    <2>1. /\ pc[a] = "add" /\ order' = LPush(order, cur[a]) /\ UNCHANGED <<secrets, parked, drawn, early, due>>
          /\ pc' = [pc EXCEPT ![a] = "idle"] /\ cur' = [cur EXCEPT ![a] = NoKey]
      BY <1>3 DEF AddPush, At, Goto, Takes
    <2>2. cur[a] \in secrets \cup early /\ cur[a] \in Keys /\ cur[a] \notin ToSet(order)
      BY <1>1, <2>1
    <2>3. ToSet(order') = ToSet(order) \cup {cur[a]} /\ Distinct(order')
      <3> DEFINE k == cur[a]
      <3>1. order \in Seq(Keys) /\ Distinct(order) /\ k \in Keys /\ k \notin ToSet(order)
        BY <2>2
      <3>2. order' = LPush(order, k)
        BY <2>1
      <3> HIDE DEF k
      <3>3. ToSet(LPush(order, k)) = ToSet(order) \cup {k}
        BY ONLY <3>1, PushOnList
      <3>4. Distinct(order')
        BY <3>1, <3>2, PushOnList
      <3>5. QED
        BY <3>2, <3>3, <3>4 DEF k
    <2>4. /\ \A b \in Actors : pc'[b] = IF b = a THEN "idle" ELSE pc[b]
          /\ \A b \in Actors : cur'[b] = IF b = a THEN NoKey ELSE cur[b]
      BY <2>1 DEF TypeOK
    <2>5. \A b \in Actors : b # a /\ pc[b] = "add" => cur[b] # cur[a]
      BY <1>1, <2>1
    <2>6. NothingParked'
      BY <2>1, <2>4 DEF NothingParked
    <2>7. HandsDrawn'
      BY <2>1, <2>4 DEF HandsDrawn
    <2>8. AddsAlone'
      BY <2>1, <2>3, <2>4, <2>5 DEF AddsAlone
    <2>9. DropsInOrder'
      <3>1. ASSUME NEW b \in Actors, pc'[b] = "hdel", cur'[b] \notin early'
            PROVE  /\ cur'[b] \notin ToSet(order')
                   /\ \A d \in Actors : pc'[d] = "add" => cur'[d] # cur'[b]
        <4>1. pc[b] = "hdel" /\ cur'[b] = cur[b] /\ cur[b] \notin early
          BY <2>1, <2>4, <3>1
        <4>2. cur[b] \notin ToSet(order) /\ \A d \in Actors : pc[d] = "add" => cur[d] # cur[b]
          BY <4>1
        <4>3. QED
          BY <1>1, <2>1, <2>3, <2>4, <4>1, <4>2
      <3>2. QED
        BY <3>1 DEF DropsInOrder
    <2>10. Distinct(order)' /\ ToSet(order') \subseteq secrets' \cup early'
      BY <2>1, <2>2, <2>3 DEF Distinct
    <2>11. QED
      BY <2>6, <2>7, <2>8, <2>9, <2>10 DEF RotationInv
  <1>4. CASE AdminDelete(a)
    <2>1. PICK k \in drawn : cur' = [cur EXCEPT ![a] = k]
      BY <1>4 DEF AdminDelete, Takes
    <2>2. UNCHANGED <<order, secrets, parked, drawn, early, due>> /\ pc' = [pc EXCEPT ![a] = "drop"]
      BY <1>4 DEF AdminDelete, redis, Goto
    <2>3. RotationMove(a, "drop", k)
      BY <1>1, <2>1, <2>2 DEF RotationMove
    <2>4. QED
      BY <1>1, <2>3, RotationGoes
  <1>5. QED
    BY <1>2, <1>3, <1>4 DEF Admin

LEMMA NextRotates == MidnightRaises /\ TypeOK /\ RotationInv /\ [Next]_vars => RotationInv'
  <1> SUFFICES ASSUME MidnightRaises, TypeOK, RotationInv, [Next]_vars PROVE RotationInv'
    OBVIOUS
  <1>1. CASE UNCHANGED vars
    BY <1>1 DEF vars, RotationInv, NothingParked, HandsDrawn, AddsAlone, DropsInOrder, Distinct
  <1>2. CASE Midnight
    BY <1>2, RotationNow DEF Midnight
  <1>3. QED
    BY <1>1, <1>2, SharedRotates, ClientRotates, AdminRotates DEF Next

(* However many loops and admins interleave, the rotation list names each   *)
(* key once, and only keys that have a secret but for those an admin        *)
(* deleted between the two commands of another one's add_key                *)
(* (provider_key_pool.py:68-119, 176-202), as long as parking a key raises, *)
(* which it does in the source (line 55): the hypothesis is the instance of *)
(* the constant that the source is.                                         *)
THEOREM RotationStaysSound == ASSUME MidnightRaises PROVE Spec => []RotationSound
  <1>1. RotationInv => RotationSound
    BY DEF RotationInv, RotationSound, Distinct
  <1>2. Init => TypeOK /\ RotationInv
    BY InitTyped, InitRotation
  <1>3. TypeOK /\ RotationInv /\ [Next]_vars => TypeOK' /\ RotationInv'
    BY NextTyped, NextRotates
  <1>4. QED
    BY <1>1, <1>2, <1>3, PTL DEF Spec

-----------------------------------------------------------------------------
(* An actor that is alone with the pool.                                   *)

\* Every key is in the list, or parked, or about to be put there; not in two of these but
\* between the two commands of promote_parked_keys.  p, u and D: where the actor stands, the
\* key in its hand, and what it has to promote.
KeysAlone(p, u, D) ==
  /\ \A k \in Keys :
       /\ k \in ToSet(order) => k \in secrets /\ (parked[k] # "no" => p = "unpark" /\ u = k)
       /\ k \in secrets /\ k \notin ToSet(order) /\ parked[k] = "no"
            => u = k /\ p \in {"add", "until", "hdel"}
       /\ k \notin secrets /\ parked[k] # "no" => u = k /\ p = "zrem"
       /\ k \in D => parked[k] = "due" /\ k \notin ToSet(order) /\ k \in secrets
  /\ D # {} => p \in {"promote", "unpark"}
  /\ p = "unpark" => u \in ToSet(order)
  /\ p \in {"using", "park", "add", "until"} => u \in secrets
  /\ p \in {"add", "until", "hdel"} => u \notin ToSet(order)
  /\ p = "add" => parked[u] = "no"
  /\ p = "zrem" => u \notin secrets

AloneInv == Distinct(order) /\ \A a \in Actors : KeysAlone(pc[a], cur[a], due[a])

LEMMA InitAlone == Init => AloneInv
  <1> SUFFICES ASSUME Init PROVE AloneInv
    OBVIOUS
  <1>1. Distinct(order)
    BY ConstantsAssumption DEF Init, Distinct
  <1>2. KeysAlone("idle", NoKey, {})
    BY DEF Init, KeysAlone
  <1>3. QED
    BY <1>1, <1>2 DEF Init, AloneInv

LEMMA AloneNow ==
  ASSUME TypeOK, AloneInv, NEW a \in Actors
  PROVE  /\ order \in Seq(Keys) /\ Distinct(order) /\ ToSet(order) \subseteq Keys
         /\ KeysAlone(pc[a], cur[a], due[a])
         /\ secrets \subseteq drawn /\ drawn \subseteq Keys /\ due[a] \subseteq Keys
         /\ parked = [k \in Keys |-> parked[k]]
         /\ pc[a] \notin Empty => cur[a] \in Keys
  <1>1. order \in Seq(Keys) /\ ToSet(order) \subseteq Keys
    BY SetOfList DEF TypeOK
  <1>2. QED
    BY <1>1, OneActorOK, TypeParts DEF AloneInv, TypeOK

LEMMA AloneGoes ==
  ASSUME NEW a, Actors = {a}, Distinct(order'), KeysAlone(pc[a], cur[a], due[a])'
  PROVE  AloneInv'
  BY DEF AloneInv, Distinct

\* A step that leaves the pool, or moves its keys in the list only.
LEMMA AloneStays ==
  ASSUME TypeOK, AloneInv, NEW a, Actors = {a}, NEW p, NEW u,
         p \notin {"unpark", "add", "until", "hdel", "zrem"},
         p \in {"using", "park"} => u \in secrets,
         pc[a] \notin {"unpark", "add", "until", "hdel", "zrem"}, due[a] # {} => p = "promote",
         Goto(a, p), cur' = [cur EXCEPT ![a] = u], due' = due,
         Distinct(order'), ToSet(order') = ToSet(order), UNCHANGED <<secrets, parked>>
  PROVE  AloneInv'
  <1>1. a \in Actors /\ KeysAlone(pc[a], cur[a], due[a])
    BY DEF AloneInv
  <1>2. pc'[a] = p /\ cur'[a] = u /\ due'[a] = due[a]
    BY <1>1 DEF TypeOK, Goto
  <1>3. KeysAlone(pc[a], cur[a], due[a])'
    BY <1>1, <1>2 DEF KeysAlone
  <1>4. QED
    BY <1>3, AloneGoes

LEMMA SharedAlone ==
  ASSUME TypeOK, AloneInv, NEW a, Actors = {a}, Shared(a) PROVE AloneInv'
  <1> DEFINE u == cur[a]
  <1>1. /\ a \in Actors /\ order \in Seq(Keys) /\ Distinct(order) /\ ToSet(order) \subseteq Keys
        /\ KeysAlone(pc[a], cur[a], due[a])
        /\ secrets \subseteq Keys /\ due[a] \subseteq Keys
        /\ pc[a] \notin Empty => u \in Keys
    BY AloneNow
  <1>2. cur = [cur EXCEPT ![a] = cur[a]]
    BY DEF TypeOK
  <1>3. CASE ReadDue(a)
    <2>1. /\ pc[a] = "idle" /\ pc'[a] = "promote" /\ UNCHANGED <<order, secrets, parked, cur>>
          /\ due'[a] = {k \in Keys : parked[k] = "due"}
      BY <1>1, <1>3 DEF ReadDue, At, Goto, redis, TypeOK
    <2>2. KeysAlone(pc[a], cur[a], due[a])'
      BY <1>1, <2>1 DEF KeysAlone
    <2>3. Distinct(order')
      BY <1>1, <2>1
    <2>4. QED
      BY <2>2, <2>3, AloneGoes
  <1>4. CASE PromotePush(a)
    <2>1. PICK k \in due[a] : order' = LPush(order, k) /\ Takes(a, k)
                              /\ due' = [due EXCEPT ![a] = due[a] \ {k}]
      BY <1>4 DEF PromotePush
    <2>2. /\ pc[a] = "promote" /\ pc'[a] = "unpark" /\ cur'[a] = k /\ due'[a] = due[a] \ {k}
          /\ UNCHANGED <<secrets, parked>>
      BY <1>1, <1>4, <2>1 DEF PromotePush, At, Goto, Takes, TypeOK
    <2>3. k \in Keys /\ k \notin ToSet(order) /\ k \in secrets
      BY <1>1 DEF KeysAlone
    <2>4. ToSet(order') = ToSet(order) \cup {k} /\ Distinct(order')
      <3>1. ToSet(LPush(order, k)) = ToSet(order) \cup {k}
        BY ONLY <1>1, <2>3, PushOnList
      <3>2. Distinct(LPush(order, k))
        BY ONLY <1>1, <2>3, PushOnList
      <3>3. QED
        BY <2>1, <3>1, <3>2
    <2>5. KeysAlone(pc[a], cur[a], due[a])'
      BY <1>1, <2>2, <2>3, <2>4 DEF KeysAlone
    <2>6. QED
      BY <2>4, <2>5, AloneGoes
  <1>5. CASE PromoteUnpark(a)
    <2>1. /\ pc[a] = "unpark" /\ pc'[a] = "promote" /\ cur'[a] = NoKey /\ due'[a] = due[a]
          /\ parked' = [parked EXCEPT ![u] = "no"] /\ UNCHANGED <<order, secrets>>
      BY <1>1, <1>5 DEF PromoteUnpark, At, Goto, Takes, TypeOK
    <2>2. u \in Keys
      BY <1>1, <2>1 DEF Empty
    <2>3. KeysAlone(pc[a], cur[a], due[a])'
      BY <1>1, <2>1, <2>2 DEF KeysAlone, TypeOK
    <2>4. Distinct(order')
      BY <1>1, <2>1
    <2>5. QED
      BY <2>3, <2>4, AloneGoes
  <1>6. CASE PromoteOnly(a)
    BY <1>1, <1>2, <1>6, AloneStays DEF PromoteOnly, redis, At
  <1>7. CASE DropOrder(a)
    <2>1. /\ pc[a] = "drop" /\ pc'[a] = "hdel" /\ cur' = cur /\ due' = due
          /\ order' = LRem(order, u) /\ UNCHANGED <<secrets, parked>>
      BY <1>1, <1>7 DEF DropOrder, At, Goto, TypeOK
    <2>2. ToSet(order') = ToSet(order) \ {u} /\ Distinct(order')
      BY <1>1, <2>1, ShrinkList
    <2>3. KeysAlone(pc[a], cur[a], due[a])'
      BY <1>1, <2>1, <2>2 DEF KeysAlone
    <2>4. QED
      BY <2>2, <2>3, AloneGoes
  <1>8. CASE DropSecret(a)
    <2>1. /\ pc[a] = "hdel" /\ pc'[a] = "zrem" /\ cur' = cur /\ due' = due
          /\ secrets' = secrets \ {u} /\ UNCHANGED <<order, parked>>
      BY <1>1, <1>8 DEF DropSecret, At, Goto, TypeOK
    <2>2. KeysAlone(pc[a], cur[a], due[a])'
      BY <1>1, <2>1 DEF KeysAlone
    <2>3. Distinct(order')
      BY <1>1, <2>1
    <2>4. QED
      BY <2>2, <2>3, AloneGoes
  <1>9. CASE DropParked(a)
    <2>1. /\ pc[a] = "zrem" /\ pc'[a] \in {"rotate", "idle"} /\ cur'[a] = NoKey /\ due' = due
          /\ parked' = [parked EXCEPT ![u] = "no"] /\ UNCHANGED <<order, secrets>>
      BY <1>1, <1>9 DEF DropParked, At, Goto, Takes, Resume, TypeOK
    <2>2. u \in Keys
      BY <1>1, <2>1 DEF Empty
    <2>3. KeysAlone(pc[a], cur[a], due[a])'
      BY <1>1, <2>1, <2>2 DEF KeysAlone, TypeOK
    <2>4. Distinct(order')
      BY <1>1, <2>1
    <2>5. QED
      BY <2>3, <2>4, AloneGoes
  <1>10. QED
    BY <1>3, <1>4, <1>5, <1>6, <1>7, <1>8, <1>9 DEF Shared


LEMMA ClientAlone ==
  ASSUME TypeOK, AloneInv, ~ MidnightRaises, NEW c, Actors = {c}, c \in Clients, Client(c)
  PROVE  AloneInv'
  <1> DEFINE u == cur[c]
  <1>1. /\ c \in Actors /\ order \in Seq(Keys) /\ Distinct(order) /\ ToSet(order) \subseteq Keys
        /\ KeysAlone(pc[c], cur[c], due[c])
        /\ secrets \subseteq Keys /\ due[c] \subseteq Keys
        /\ pc[c] \notin Empty => u \in Keys
    BY AloneNow
  <1>2. cur = [cur EXCEPT ![c] = cur[c]]
    BY DEF TypeOK
  <1>3. due[c] # {} => pc[c] \in {"promote", "unpark"}
    BY <1>1 DEF KeysAlone
  <1>4. CASE ReadLength(c)
    BY <1>1, <1>2, <1>4, AloneStays DEF ReadLength, redis, At
  <1>5. CASE Rotate(c) \/ RotateEnds(c)
    <2>1. PICK p, k :
            /\ p \in {"exhausted", "score"} /\ Goto(c, p) /\ cur' = [cur EXCEPT ![c] = k]
            /\ pc[c] = "rotate" /\ UNCHANGED <<secrets, parked, due>>
            /\ order' = order \/ (order # <<>> /\ order' = RPopLPush(order))
      BY <1>2, <1>5 DEF Rotate, RotateEnds, Takes, At
    <2>2. ToSet(order') = ToSet(order) /\ Distinct(order')
      BY <1>1, <2>1, RotateList
    <2>3. p \notin {"unpark", "add", "until", "hdel", "zrem", "using", "park", "drop"}
      BY <2>1
    <2>4. due' = due /\ due[c] = {}
      BY <1>3, <2>1
    <2>5. QED
      BY <2>1, <2>2, <2>3, <2>4, AloneStays
  <1>6. CASE CheckParked(c) \/ ReadSecret(c) \/ Use(c)
    <2>1. PICK p, k :
            /\ p \in {"idle", "rotate", "secret", "using", "park", "drop"}
            /\ Goto(c, p) /\ cur' = [cur EXCEPT ![c] = k]
            /\ p \in {"using", "park", "drop"} => k = u
            /\ p = "using" => u \in secrets
            /\ p \in {"park", "drop"} => pc[c] = "using"
      <3>1. CASE CheckParked(c)
        BY <1>2, <3>1 DEF CheckParked, Takes
      <3>2. CASE ReadSecret(c)
        BY <1>2, <3>2 DEF ReadSecret, Takes
      <3>3. CASE Use(c)
        BY <1>2, <3>3 DEF Use, Leave, Takes, At
      <3>4. QED
        BY <1>6, <3>1, <3>2, <3>3
    <2>2. UNCHANGED redis /\ due' = due /\ pc[c] \in {"score", "secret", "using"}
      BY <1>6 DEF CheckParked, ReadSecret, Use, At
    <2>3. p \in {"using", "park", "drop"} => k \in secrets
      BY <1>1, <2>1 DEF KeysAlone
    <2>4. due[c] = {} /\ p \notin {"unpark", "add", "until", "hdel", "zrem"}
      BY <1>3, <2>1, <2>2
    <2>5. Distinct(order') /\ ToSet(order') = ToSet(order) /\ UNCHANGED <<secrets, parked>>
      BY <1>1, <2>2 DEF redis
    <2>6. QED
      BY <2>1, <2>2, <2>3, <2>4, <2>5, AloneStays
  <1>7. CASE ParkRemove(c)
    <2>1. /\ pc[c] = "park" /\ pc'[c] = "until" /\ cur' = cur /\ due' = due
          /\ order' = LRem(order, u) /\ UNCHANGED <<secrets, parked>>
      BY <1>1, <1>7 DEF ParkRemove, At, Goto, TypeOK
    <2>2. ToSet(order') = ToSet(order) \ {u} /\ Distinct(order')
      BY <1>1, <2>1, ShrinkList
    <2>3. u \in secrets /\ u \in Keys
      BY <1>1, <2>1 DEF KeysAlone, Empty
    <2>4. KeysAlone(pc[c], cur[c], due[c])'
      BY <1>1, <2>1, <2>2, <2>3 DEF KeysAlone
    <2>5. QED
      BY <2>2, <2>4, AloneGoes
  <1>8. CASE ParkAdd(c)
    <2>1. /\ pc[c] = "until" /\ pc'[c] = "rotate" /\ cur'[c] = NoKey /\ due' = due
          /\ parked' = [parked EXCEPT ![u] = "until"] /\ UNCHANGED <<order, secrets>>
      BY <1>1, <1>8 DEF ParkAdd, ParkAddUntil, At, Goto, Takes, TypeOK
    <2>2. u \in Keys
      BY <1>1, <2>1 DEF Empty
    <2>3. KeysAlone(pc[c], cur[c], due[c])'
      BY <1>1, <2>1, <2>2 DEF KeysAlone, TypeOK
    <2>4. Distinct(order')
      BY <1>1, <2>1
    <2>5. QED
      BY <2>3, <2>4, AloneGoes
  <1>9. CASE Fail(c)
    <2>1. Goto(c, "idle") /\ cur' = [cur EXCEPT ![c] = NoKey] /\ due' = due /\ pc[c] = "exhausted"
      BY <1>9 DEF Fail, Leave, Takes, At
    <2>2. Distinct(order') /\ ToSet(order') = ToSet(order) /\ UNCHANGED <<secrets, parked>>
      BY <1>1, <1>9 DEF Fail, redis
    <2>3. QED
      BY <1>3, <2>1, <2>2, AloneStays
  <1>10. QED
    BY <1>4, <1>5, <1>6, <1>7, <1>8, <1>9 DEF Client

LEMMA AdminAlone ==
  ASSUME TypeOK, AloneInv, NEW a, Actors = {a}, a \in Admins, Admin(a)
  PROVE  AloneInv'
  <1> DEFINE u == cur[a]
  <1>1. /\ a \in Actors /\ order \in Seq(Keys) /\ Distinct(order) /\ ToSet(order) \subseteq Keys
        /\ KeysAlone(pc[a], cur[a], due[a])
        /\ secrets \subseteq drawn /\ drawn \subseteq Keys
        /\ pc[a] \notin Empty => u \in Keys
    BY AloneNow
  <1>2. due[a] # {} => pc[a] \in {"promote", "unpark"}
    BY <1>1 DEF KeysAlone
  <1>3. CASE AddSecret(a)
    <2>1. PICK k \in Keys \ drawn : secrets' = secrets \cup {k} /\ Takes(a, k)
      BY <1>3 DEF AddSecret, AddSecretFirst
    <2>2. /\ pc[a] = "idle" /\ pc'[a] = "add" /\ cur'[a] = k /\ due' = due /\ due[a] = {}
          /\ UNCHANGED <<order, parked>>
      BY <1>1, <1>2, <1>3, <2>1 DEF AddSecret, AddSecretFirst, At, Goto, Takes, TypeOK
    <2>3. k \in Keys /\ k \notin secrets /\ k \notin ToSet(order) /\ parked[k] = "no"
      BY <1>1, <2>2 DEF KeysAlone
    <2>4. KeysAlone(pc[a], cur[a], due[a])'
      BY <1>1, <2>1, <2>2, <2>3 DEF KeysAlone
    <2>5. Distinct(order')
      BY <1>1, <2>2
    <2>6. QED
      BY <2>4, <2>5, AloneGoes
  <1>4. CASE AddPush(a)
    <2>1. /\ pc[a] = "add" /\ pc'[a] = "idle" /\ cur'[a] = NoKey /\ due' = due
          /\ order' = LPush(order, u) /\ UNCHANGED <<secrets, parked>>
      BY <1>1, <1>4 DEF AddPush, At, Goto, Takes, TypeOK
    <2>2. u \in Keys /\ u \notin ToSet(order)
      BY <1>1, <2>1 DEF KeysAlone, Empty
    <2> HIDE DEF u
    <2>3. ToSet(order') = ToSet(order) \cup {u} /\ Distinct(order')
      <3>1. ToSet(LPush(order, u)) = ToSet(order) \cup {u}
        BY ONLY <1>1, <2>2, PushOnList
      <3>2. Distinct(LPush(order, u))
        BY ONLY <1>1, <2>2, PushOnList
      <3>3. QED
        BY <2>1, <3>1, <3>2
    <2>4. KeysAlone(pc[a], cur[a], due[a])'
      BY <1>1, <1>2, <2>1, <2>2, <2>3 DEF KeysAlone, u
    <2>5. QED
      BY <2>3, <2>4, AloneGoes
  <1>5. CASE AdminDelete(a)
    <2>1. PICK k \in drawn : cur' = [cur EXCEPT ![a] = k]
      BY <1>5 DEF AdminDelete, Takes
    <2>2. /\ pc[a] = "idle" /\ Goto(a, "drop") /\ due' = due /\ due[a] = {}
          /\ UNCHANGED <<order, secrets, parked>>
      BY <1>2, <1>5 DEF AdminDelete, At, redis
    <2>3. QED
      BY <1>1, <2>1, <2>2, AloneStays
  <1>6. QED
    BY <1>3, <1>4, <1>5 DEF Admin

LEMMA NextAlone ==
  ASSUME NEW one, Actors = {one}, ~ MidnightRaises
  PROVE  TypeOK /\ AloneInv /\ [Next]_vars => AloneInv'
  <1> SUFFICES ASSUME TypeOK, AloneInv, [Next]_vars PROVE AloneInv'
    OBVIOUS
  <1>1. CASE UNCHANGED vars
    BY <1>1 DEF vars, AloneInv, KeysAlone, Distinct
  <1>2. CASE Midnight
    <2>1. /\ UNCHANGED <<order, secrets, pc, cur, due>>
          /\ \A k \in Keys : parked'[k] = IF parked[k] = "until" THEN "due" ELSE parked[k]
      BY <1>2 DEF Midnight
    <2>2. ASSUME NEW a \in Actors PROVE KeysAlone(pc[a], cur[a], due[a])'
      <3>1. KeysAlone(pc[a], cur[a], due[a]) /\ (pc[a] = "add" => cur[a] \in Keys)
        BY <2>2, AloneNow DEF Empty
      <3>2. QED
        BY <2>1, <3>1 DEF KeysAlone
    <2>3. QED
      BY <2>1, <2>2 DEF AloneInv, Distinct
  <1>3. ASSUME NEW a \in Actors, Shared(a) \/ (a \in Clients /\ Client(a)) \/ (a \in Admins /\ Admin(a))
        PROVE  AloneInv'
    <2>1. Actors = {a}
      OBVIOUS
    <2>2. QED
      BY <1>3, <2>1, SharedAlone, ClientAlone, AdminAlone
  <1>4. QED
    BY <1>1, <1>2, <1>3 DEF Next, Actors

(* With a midnight that is computed, an actor that is alone with the pool   *)
(* loses no key, however many keys there are and however often they are     *)
(* parked (provider_key_pool.py:59-119): each has a secret and is in the    *)
(* rotation or parked, or about to be put there.  Two actors do lose keys;  *)
(* that is why the hypothesis is needed.                                    *)
THEOREM KeysAreKept ==
  ASSUME NEW one, Actors = {one}, ~ MidnightRaises
  PROVE  Spec => []KeyKept
  <1>1. TypeOK /\ AloneInv => KeyKept
    <2> SUFFICES ASSUME TypeOK, AloneInv, NEW k \in secrets, k \notin ToSet(order), parked[k] = "no"
                 PROVE  \E a \in Actors : cur[a] = k /\ pc[a] \in {"add", "until", "hdel"}
      BY DEF KeyKept
    <2>1. k \in Keys /\ KeysAlone(pc[one], cur[one], due[one])
      BY DEF TypeOK, AloneInv
    <2>2. QED
      BY <2>1 DEF KeysAlone
  <1>2. Init => TypeOK /\ AloneInv
    BY InitTyped, InitAlone
  <1>3. TypeOK /\ AloneInv /\ [Next]_vars => TypeOK' /\ AloneInv'
    BY NextTyped, NextAlone
  <1>4. QED
    BY <1>1, <1>2, <1>3, PTL DEF Spec
-----------------------------------------------------------------------------
(* A cycle tries every active key.                                         *)

\* The members of F that are in the list s are its end, and n rotations bring them all.
Reaches(s, F, n) == /\ \A i \in 1..Len(s) : s[i] \in F => Len(s) - i < n
                    /\ \A i, k \in 1..Len(s) : i < k /\ s[i] \in F => s[k] \in F

LEMMA ReachesShrink ==
  ASSUME NEW K, NEW s \in Seq(K), NEW x, NEW F, NEW n \in Nat, Reaches(s, F, n)
  PROVE  Reaches(LRem(s, x), F, n)
  <1> DEFINE t == LRem(s, x)
  <1>1. /\ t \in Seq(K)
        /\ \A i \in 1..Len(t) : \E a \in 1..Len(s) : t[i] = s[a] /\ Len(t) - i <= Len(s) - a
        /\ \A i, k \in 1..Len(t) : i < k =>
             \E a, b \in 1..Len(s) : a < b /\ t[i] = s[a] /\ t[k] = s[b]
        /\ \A a, b \in 1..Len(s) : a < b /\ s[a] \in F => s[b] \in F
        /\ Len(s) \in Nat /\ Len(t) \in Nat
    BY ShrinkList, ShrinkOrder DEF Reaches
  <1>2. \A i \in 1..Len(s) : s[i] \in F => Len(s) - i < n
    BY DEF Reaches
  <1> HIDE DEF t
  <1>3. ASSUME NEW i \in 1..Len(t), t[i] \in F PROVE Len(t) - i < n
    <2>1. PICK a \in 1..Len(s) : t[i] = s[a] /\ Len(t) - i <= Len(s) - a
      BY <1>1
    <2>2. Len(s) - a < n
      BY <1>2, <1>3, <2>1
    <2>3. QED
      BY <1>1, <2>1, <2>2
  <1>4. ASSUME NEW i \in 1..Len(t), NEW k \in 1..Len(t), i < k, t[i] \in F PROVE t[k] \in F
    <2>1. PICK a, b \in 1..Len(s) : a < b /\ t[i] = s[a] /\ t[k] = s[b]
      BY <1>1, <1>4
    <2>2. QED
      BY <1>1, <1>4, <2>1
  <1>5. Reaches(t, F, n)
    BY <1>3, <1>4 DEF Reaches
  <1>6. QED
    BY <1>5 DEF t

LEMMA ReachesPush ==
  ASSUME NEW K, NEW s \in Seq(K), NEW x \in K, NEW F, x \notin F, NEW n \in Nat, Reaches(s, F, n)
  PROVE  Reaches(LPush(s, x), F, n)
  <1> DEFINE t == LPush(s, x)
             m == Len(s) + 1
  <1>1. t \in Seq(K) /\ Len(t) = m /\ t[1] = x /\ \A i \in 2..m : t[i] = s[i - 1]
    BY ONLY s \in Seq(K), x \in K, PushOnList
  <1>2. Len(s) \in Nat
    OBVIOUS
  <1>3. \A i \in 1..m : i # 1 => i \in 2..m /\ i - 1 \in 1..Len(s) /\ m - i = Len(s) - (i - 1)
    BY <1>2
  <1>4. \A i, k \in 1..m : i < k => k # 1 /\ i - 1 < k - 1
    BY <1>2
  <1> HIDE DEF t, m
  <1>5. ASSUME NEW i \in 1..m, t[i] \in F PROVE i # 1 /\ s[i - 1] \in F /\ m - i < n
    <2>1. i # 1
      BY <1>1, <1>5
    <2>2. i - 1 \in 1..Len(s) /\ s[i - 1] \in F /\ m - i = Len(s) - (i - 1)
      BY <1>1, <1>3, <1>5, <2>1
    <2>3. QED
      BY <2>1, <2>2 DEF Reaches
  <1>6. ASSUME NEW i \in 1..m, NEW k \in 1..m, i < k, t[i] \in F PROVE t[k] \in F
    <2>1. i # 1 /\ s[i - 1] \in F /\ k # 1 /\ i - 1 < k - 1
      BY <1>4, <1>5, <1>6
    <2>2. i - 1 \in 1..Len(s) /\ k - 1 \in 1..Len(s) /\ t[k] = s[k - 1]
      BY <1>1, <1>3, <2>1
    <2>3. QED
      BY <2>1, <2>2 DEF Reaches
  <1>7. Reaches(t, F, n)
    BY <1>1, <1>5, <1>6 DEF Reaches
  <1>8. QED
    BY <1>7 DEF t

LEMMA ReachesRotate ==
  ASSUME NEW K, NEW s \in Seq(K), s # <<>>, Distinct(s), NEW F, NEW n \in Nat, n > 0,
         Reaches(s, F, n)
  PROVE  Reaches(RPopLPush(s), F \ {Last(s)}, n - 1)
  <1> DEFINE t == RPopLPush(s)
             m == Len(s)
             G == F \ {Last(s)}
  <1>1. Len(t) = m /\ t[1] = Last(s) /\ \A i \in 2..m : t[i] = s[i - 1]
    BY RotateList
  <1>2. m \in Nat /\ m # 0 /\ Last(s) = s[m]
    BY DEF Last
  <1>3. \A i \in 1..m : i # 1 => i \in 2..m /\ i - 1 \in 1..m /\ i - 1 # m
                                 /\ m - (i - 1) = (m - i) + 1
    BY <1>2
  <1>4. m \in 1..m /\ \A i \in 1..m : i # m => s[i] # s[m]
    BY <1>2 DEF Distinct
  <1>5. \A i, k \in 1..m : i < k => k # 1 /\ i - 1 < k - 1
    BY <1>2
  <1> HIDE DEF t, m
  <1>6. ASSUME NEW i \in 1..m, t[i] \in G PROVE i # 1 /\ s[i - 1] \in F /\ m - i < n - 1
    <2>1. i # 1
      BY <1>1, <1>6
    <2>2. i - 1 \in 1..m /\ s[i - 1] \in F /\ m - (i - 1) = (m - i) + 1
      BY <1>1, <1>3, <1>6, <2>1
    <2>3. m - (i - 1) < n
      BY <2>2 DEF Reaches, m
    <2>4. QED
      BY <1>2, <2>1, <2>2, <2>3
  <1>7. ASSUME NEW i \in 1..m, NEW k \in 1..m, i < k, t[i] \in G PROVE t[k] \in G
    <2>1. i # 1 /\ s[i - 1] \in F /\ k # 1 /\ i - 1 < k - 1
      BY <1>5, <1>6, <1>7
    <2>2. i - 1 \in 1..m /\ k - 1 \in 1..m /\ k - 1 # m /\ t[k] = s[k - 1]
      BY <1>1, <1>3, <2>1
    <2>3. s[k - 1] \in F
      BY <2>1, <2>2 DEF Reaches, m
    <2>4. s[k - 1] # Last(s)
      BY <1>2, <1>4, <2>2
    <2>5. QED
      BY <2>2, <2>3, <2>4
  <1>8. Reaches(t, G, n - 1)
    BY <1>1, <1>6, <1>7 DEF Reaches
  <1>9. QED
    BY <1>8 DEF t

LEMMA ReachedAll ==
  ASSUME NEW K, NEW s \in Seq(K), NEW F, NEW n \in Nat, Reaches(s, F, n),
         \/ n = 0
         \/ s = <<>>
         \/ s # <<>> /\ Last(s) \notin F
  PROVE  F \cap ToSet(s) = {}
  <1> SUFFICES ASSUME NEW i \in 1..Len(s), s[i] \in F PROVE FALSE
    BY SetOfList
  <1>1. Len(s) - i < n /\ Len(s) \in Nat /\ i <= Len(s)
    BY DEF Reaches
  <1>2. n # 0 /\ s # <<>>
    BY <1>1
  <1>3. Last(s) = s[Len(s)] /\ Len(s) \in 1..Len(s)
    BY <1>1 DEF Last
  <1>4. i < Len(s) => s[Len(s)] \in F
    BY <1>3 DEF Reaches
  <1>5. QED
    BY <1>1, <1>2, <1>3, <1>4

InCycle == {"rotate", "score", "secret", "using", "park", "until", "drop", "hdel", "zrem"}

Unseen(c) == must[c] \ seen[c]

\* A cycle reaches the active keys it has not seen, and no key is added to them.
CycleInv ==
  \A c \in Clients :
    /\ must[c] \subseteq drawn
    /\ \A a \in Admins : pc[a] = "add" => cur[a] \notin must[c]
    /\ pc[c] \in InCycle => Reaches(order, Unseen(c), left[c])
    /\ pc[c] = "exhausted" => Unseen(c) \cap ToSet(order) = {}

\* What a cycle relies on.
CycleBase(c) ==
  /\ Distinct(order) /\ ToSet(order) \subseteq drawn
  /\ \A a \in Admins : due[a] = {} /\ (pc[a] = "add" => cur[a] \notin ToSet(order))
  /\ pc[c] = "promote" => \A k \in ToSet(order) : parked[k] # "until"

LEMMA BaseHolds ==
  ASSUME TypeOK, NEW c \in Clients, RotationInv \/ (AloneInv /\ Admins = {})
  PROVE  CycleBase(c)
  <1>1. c \in Actors /\ Admins \subseteq Actors
    BY DEF Actors
  <1>2. CASE RotationInv
    <2>1. ToSet(order) \subseteq Keys
      BY <1>2, RotationNow
    <2>2. QED
      BY <1>1, <1>2, <2>1, RotationNow DEF CycleBase
  <1>3. CASE AloneInv /\ Admins = {}
    <2>1. /\ Distinct(order) /\ ToSet(order) \subseteq Keys /\ secrets \subseteq drawn
          /\ KeysAlone(pc[c], cur[c], due[c])
      BY <1>1, <1>3, AloneNow
    <2>2. \A k \in ToSet(order) : k \in secrets /\ (pc[c] = "promote" => parked[k] = "no")
      BY <2>1 DEF KeysAlone
    <2>3. QED
      BY <1>3, <2>1, <2>2 DEF CycleBase
  <1>4. QED
    BY <1>2, <1>3

LEMMA InitCycle == Init => CycleInv
  BY DEF Init, CycleInv, InCycle, Actors

LEMMA CycleNow ==
  ASSUME TypeOK, CycleInv, NEW c \in Clients
  PROVE  /\ must[c] \subseteq drawn /\ left[c] \in Nat /\ order \in Seq(Keys)
         /\ must = [d \in Clients |-> must[d]] /\ seen = [d \in Clients |-> seen[d]]
         /\ left = [d \in Clients |-> left[d]]
         /\ \A a \in Admins : pc[a] = "add" => cur[a] \notin must[c]
         /\ pc[c] \in InCycle => Reaches(order, Unseen(c), left[c])
         /\ pc[c] = "exhausted" => Unseen(c) \cap ToSet(order) = {}
  BY DEF CycleInv, TypeOK

\* A step that leaves the cycle as it is: it removes keys from the list, or adds one that
\* the cycle need not try; or there is no cycle.
LEMMA CycleStays ==
  ASSUME TypeOK, CycleInv, NEW c, Clients = {c}, UNCHANGED cycle,
         drawn \subseteq drawn',
         \A a \in Admins : pc'[a] = "add" => cur'[a] \notin must[c],
         \/ pc'[c] \notin InCycle \cup {"exhausted"}
         \/ /\ pc'[c] \in InCycle => pc[c] \in InCycle
            /\ pc'[c] = "exhausted" => pc[c] = "exhausted"
            /\ \/ order' = order
               \/ \E x : order' = LRem(order, x)
               \/ \E x \in Keys \ must[c] : order' = LPush(order, x)
  PROVE  CycleInv'
  <1>1. c \in Clients /\ UNCHANGED <<left, seen, must>> /\ Unseen(c)' = Unseen(c)
    BY DEF cycle, Unseen
  <1>2. must[c]' \subseteq drawn' /\ \A a \in Admins : pc'[a] = "add" => cur'[a] \notin must'[c]
    BY <1>1, CycleNow
  <1>3. CASE pc'[c] \notin InCycle \cup {"exhausted"}
    BY <1>1, <1>2, <1>3 DEF CycleInv
  <1>4. CASE pc'[c] \in InCycle \cup {"exhausted"}
    <2> DEFINE F == Unseen(c)
               n == left[c]
    <2>1. /\ order \in Seq(Keys) /\ n \in Nat /\ n = left'[c]
          /\ pc'[c] \in InCycle => Reaches(order, F, n)
          /\ pc'[c] = "exhausted" => F \cap ToSet(order) = {}
      BY <1>1, <1>4, CycleNow
    <2>2. \A x \in Keys \ must[c] : x \notin F
      BY DEF Unseen
    <2> HIDE DEF F, n
    <2>3. ASSUME NEW x, order' = LRem(order, x)
          PROVE  /\ pc'[c] \in InCycle => Reaches(order', F, n)
                 /\ pc'[c] = "exhausted" => F \cap ToSet(order') = {}
      <3>1. pc'[c] \in InCycle => Reaches(order', F, n)
        BY <2>1, <2>3, ReachesShrink
      <3>2. ToSet(order') = ToSet(order) \ {x}
        BY <2>1, <2>3, ShrinkList
      <3>3. QED
        BY <2>1, <3>1, <3>2
    <2>4. ASSUME NEW x \in Keys \ must[c], order' = LPush(order, x)
          PROVE  /\ pc'[c] \in InCycle => Reaches(order', F, n)
                 /\ pc'[c] = "exhausted" => F \cap ToSet(order') = {}
      <3>1. x \in Keys /\ x \notin F
        BY <2>2
      <3>2. pc'[c] \in InCycle => Reaches(order', F, n)
        BY <2>1, <2>4, <3>1, ReachesPush
      <3>3. ToSet(LPush(order, x)) = ToSet(order) \cup {x}
        BY ONLY <2>1, <3>1, PushOnList
      <3>4. QED
        BY <2>1, <2>4, <3>1, <3>2, <3>3
    <2>5. /\ pc'[c] \in InCycle => Reaches(order', F, n)
          /\ pc'[c] = "exhausted" => F \cap ToSet(order') = {}
      BY <1>4, <2>1, <2>3, <2>4
    <2>6. \A d \in Clients : d = c
      OBVIOUS
    <2>7. (pc[c] \in InCycle => Reaches(order, Unseen(c), left[c]))'
      BY <1>1, <2>1, <2>5 DEF F, Reaches
    <2>8. (pc[c] = "exhausted" => Unseen(c) \cap ToSet(order) = {})'
      BY <1>1, <2>5 DEF F
    <2>9. QED
      BY <1>2, <2>6, <2>7, <2>8 DEF CycleInv
  <1>5. QED
    BY <1>3, <1>4

LEMMA SharedCycles ==
  ASSUME TypeOK, CycleInv, NEW c, Clients = {c}, CycleBase(c), NEW a \in Actors, Shared(a)
  PROVE  CycleInv'
  <1>1. c \in Clients /\ c \in Actors /\ (a = c \/ a \in Admins)
    BY DEF Actors
  <1>2. PICK p : /\ pc' = [pc EXCEPT ![a] = p]
                 /\ \/ p \in {"promote", "unpark", "idle"} /\ (PromotePush(a) => a = c)
                    \/ p \in {"hdel", "zrem", "rotate"} /\ pc[a] \in InCycle /\ ~ PromotePush(a)
    <2>1. CASE PromotePush(a)
      BY <1>1, <2>1 DEF PromotePush, CycleBase, Goto
    <2>2. CASE ReadDue(a) \/ PromoteUnpark(a) \/ PromoteOnly(a)
      <3>1. ~ PromotePush(a) \/ a = c
        BY <1>1 DEF PromotePush, CycleBase
      <3>2. QED
        BY <2>2, <3>1 DEF ReadDue, PromoteUnpark, PromoteOnly, Goto
    <2>3. CASE DropOrder(a) \/ DropSecret(a) \/ DropParked(a)
      <3>1. pc[a] \in {"drop", "hdel", "zrem"}
        BY <2>3 DEF DropOrder, DropSecret, DropParked, At
      <3>2. pc[a] \in InCycle /\ ~ PromotePush(a)
        BY <3>1 DEF InCycle, PromotePush, At
      <3>3. \E q \in {"hdel", "zrem", "rotate", "idle"} : pc' = [pc EXCEPT ![a] = q]
        BY <2>3 DEF DropOrder, DropSecret, DropParked, Goto, Resume
      <3>4. QED
        BY <3>2, <3>3
    <2>4. QED
      BY <2>1, <2>2, <2>3 DEF Shared
  <1>3. /\ pc'[a] # "add" /\ pc'[a] # "exhausted" /\ \A b \in Actors : b # a => pc'[b] = pc[b]
        /\ pc'[c] \in InCycle => pc[c] \in InCycle
        /\ pc'[c] = "exhausted" => pc[c] = "exhausted"
        /\ PromotePush(a) => pc'[c] \notin InCycle \cup {"exhausted"}
    <2>1. pc'[a] = p /\ \A b \in Actors : b # a => pc'[b] = pc[b]
      BY <1>2 DEF TypeOK
    <2>2. QED
      BY <1>1, <1>2, <2>1 DEF InCycle
  <1>4. UNCHANGED cycle /\ drawn' = drawn
    BY DEF Shared, ReadDue, PromotePush, PromoteUnpark, PromoteOnly, DropOrder, DropSecret,
       DropParked, redis
  <1>5. PromotePush(a) \/ order' = order \/ \E x : order' = LRem(order, x)
    BY DEF Shared, ReadDue, PromotePush, PromoteUnpark, PromoteOnly, DropOrder, DropSecret,
       DropParked, redis
  <1>6. \A b \in Admins : pc'[b] = "add" => cur'[b] \notin must[c]
    <2>1. ASSUME NEW b \in Admins, pc'[b] = "add" PROVE cur'[b] \notin must[c]
      <3>1. b # a /\ b \in Actors
        BY <1>3, <2>1 DEF Actors
      <3>2. pc[b] = "add" /\ cur[b] \notin must[c]
        BY <1>1, <1>3, <2>1, <3>1, CycleNow
      <3>3. cur'[b] = cur[b]
        BY <3>1 DEF Shared, ReadDue, PromotePush, PromoteUnpark, PromoteOnly, DropOrder,
           DropSecret, DropParked, redis, Takes, TypeOK
      <3>4. QED
        BY <3>2, <3>3
    <2>2. QED
      BY <2>1
  <1>7. QED
    BY <1>3, <1>4, <1>5, <1>6, CycleStays

LEMMA AdminCycles ==
  ASSUME TypeOK, CycleInv, NEW c, Clients = {c}, NEW a \in Admins, Admin(a)
  PROVE  CycleInv'
  <1>1. c \in Clients /\ c \in Actors /\ a \in Actors /\ a # c
    BY ConstantsAssumption DEF Actors
  <1>2. pc'[c] = pc[c] /\ (\A b \in Admins : b # a => pc'[b] = pc[b] /\ cur'[b] = cur[b])
        /\ UNCHANGED cycle /\ drawn \subseteq drawn'
    BY <1>1 DEF Admin, AddSecret, AddSecretFirst, AddPush, AdminDelete, Goto, Takes, redis,
       TypeOK, Actors
  <1>3. ASSUME pc'[a] = "add" => cur'[a] \notin must[c] PROVE \A b \in Admins : pc'[b] = "add" => cur'[b] \notin must[c]
    BY <1>1, <1>2, <1>3, CycleNow
  <1>4. CASE AddSecret(a)
    <2>1. cur'[a] \notin drawn /\ order' = order
      BY <1>1, <1>4 DEF AddSecret, AddSecretFirst, Takes, TypeOK
    <2>2. cur'[a] \notin must[c]
      BY <1>1, <2>1, CycleNow
    <2>3. QED
      BY <1>2, <1>3, <2>1, <2>2, CycleStays
  <1>5. CASE AddPush(a)
    <2>1. cur[a] \in Keys /\ cur[a] \notin must[c] /\ order' = LPush(order, cur[a])
      BY <1>1, <1>5, CycleNow, OneActorOK, TypeParts DEF AddPush, At, Empty
    <2>2. pc'[a] # "add"
      BY <1>1, <1>5 DEF AddPush, Goto, TypeOK
    <2>3. QED
      BY <1>2, <1>3, <2>1, <2>2, CycleStays
  <1>6. CASE AdminDelete(a)
    <2>1. pc'[a] # "add" /\ order' = order
      BY <1>1, <1>6 DEF AdminDelete, Goto, TypeOK, redis
    <2>2. QED
      BY <1>2, <1>3, <2>1, CycleStays
  <1>7. QED
    BY <1>4, <1>5, <1>6 DEF Admin

LEMMA ClientCycles ==
  ASSUME TypeOK, CycleInv, NEW c, Clients = {c}, CycleBase(c), Client(c)
  PROVE  CycleInv'
  <1>1. /\ c \in Clients /\ c \in Actors /\ (\A d \in Clients : d = c)
        /\ \A a \in Admins : a \in Actors /\ a # c
    BY ConstantsAssumption DEF Actors
  <1>2. ASSUME NEW p, Goto(c, p) PROVE pc'[c] = p /\ \A a \in Admins : pc'[a] = pc[a]
    BY <1>1, <1>2 DEF Goto, TypeOK
  <1>3. \A a \in Admins : cur'[a] = cur[a] /\ (pc'[a] = "add" => pc[a] = "add")
    <2>1. cur' = cur \/ \E k : Takes(c, k)
      BY DEF Client, ReadLength, Rotate, RotateEnds, CheckParked, ReadSecret, Use, Fail,
         ParkRemove, ParkAdd, ParkAddUntil, Leave
    <2>2. \E p : Goto(c, p)
      BY DEF Client, ReadLength, Rotate, RotateEnds, CheckParked, ReadSecret, Use, Fail,
         ParkRemove, ParkAdd, ParkAddUntil, Leave
    <2>3. QED
      BY <1>1, <1>2, <2>1, <2>2 DEF Takes, TypeOK
  <1>4. drawn' = drawn
    BY DEF Client, ReadLength, Rotate, RotateEnds, CheckParked, ReadSecret, Use, Fail,
       ParkRemove, ParkAdd, ParkAddUntil, redis
  <1>5. \A a \in Admins : pc'[a] = "add" => cur'[a] \notin must[c]
    BY <1>1, <1>3, CycleNow
  \* The cycle ends.
  <1>6. ASSUME Leave(c) PROVE CycleInv'
    <2>1. pc'[c] = "idle" /\ must'[c] = {}
      BY <1>1, <1>2, <1>6, CycleNow DEF Leave
    <2>2. QED
      BY <1>1, <2>1 DEF CycleInv, InCycle
  <1>7. CASE ReadLength(c)
    <2> DEFINE M == {k \in ToSet(order) : parked[k] # "until"}
    <2>1. /\ pc[c] = "promote" /\ pc'[c] = "rotate" /\ order' = order
          /\ left'[c] = Len(order) /\ seen'[c] = {} /\ must'[c] = M
      BY <1>1, <1>2, <1>7, CycleNow DEF ReadLength, At, redis
    <2>2. M = ToSet(order) /\ M \subseteq drawn
      BY <2>1 DEF CycleBase
    <2> HIDE DEF M
    <2>3. Unseen(c)' = ToSet(order)
      BY <2>1, <2>2 DEF Unseen
    <2>4. Reaches(order, ToSet(order), Len(order))
      <3>1. order \in Seq(Keys) /\ Len(order) \in Nat
        BY <1>1, CycleNow
      <3>2. \A i \in 1..Len(order) : Len(order) - i < Len(order) /\ order[i] \in ToSet(order)
        BY <3>1, SetOfList
      <3>3. QED
        BY <3>2 DEF Reaches
    <2>5. \A a \in Admins : pc'[a] = "add" => cur'[a] \notin M
      BY <1>3, <2>2 DEF CycleBase
    <2>6. Reaches(order, Unseen(c), left[c])'
      BY <2>1, <2>3, <2>4 DEF Reaches
    <2>7. QED
      BY <1>1, <1>4, <2>1, <2>2, <2>5, <2>6 DEF CycleInv
  <1>8. CASE Rotate(c)
    <2>1. /\ pc[c] = "rotate" /\ pc'[c] = "score" /\ order # <<>> /\ order' = RPopLPush(order)
          /\ left[c] > 0 /\ left'[c] = left[c] - 1 /\ must' = must
          /\ seen'[c] = seen[c] \cup {Last(order)}
      BY <1>1, <1>2, <1>8, CycleNow DEF Rotate, At
    <2>2. Unseen(c)' = Unseen(c) \ {Last(order)}
      BY <2>1 DEF Unseen
    <2> DEFINE F == Unseen(c)
    <2>3. order \in Seq(Keys) /\ left[c] \in Nat /\ Reaches(order, F, left[c]) /\ Distinct(order)
      BY <1>1, <2>1, CycleNow DEF InCycle, CycleBase
    <2> HIDE DEF F
    <2>4. Reaches(RPopLPush(order), F \ {Last(order)}, left[c] - 1)
      BY <2>1, <2>3, ReachesRotate
    <2>5. Reaches(order, Unseen(c), left[c])'
      BY <2>1, <2>2, <2>4 DEF F, Reaches
    <2>6. must'[c] \subseteq drawn'
      BY <1>1, <1>4, <2>1, CycleNow
    <2>7. QED
      BY <1>1, <1>5, <2>1, <2>5, <2>6 DEF CycleInv
  <1>9. CASE RotateEnds(c)
    <2>1. /\ pc[c] = "rotate" /\ pc'[c] = "exhausted" /\ UNCHANGED <<left, seen, must>>
          /\ order' = order \/ (order # <<>> /\ order' = RPopLPush(order))
          /\ \/ left[c] = 0
             \/ order = <<>>
             \/ order # <<>> /\ Last(order) \in seen[c]
      BY <1>1, <1>2, <1>9 DEF RotateEnds, At, cycle
    <2> DEFINE F == Unseen(c)
    <2>2. order \in Seq(Keys) /\ left[c] \in Nat /\ Reaches(order, F, left[c])
      BY <1>1, <2>1, CycleNow DEF InCycle
    <2>3. Last(order) \in seen[c] => Last(order) \notin F
      BY DEF Unseen
    <2> HIDE DEF F
    <2>4. F \cap ToSet(order) = {}
      BY <2>1, <2>2, <2>3, ReachedAll
    <2>5. ToSet(order') = ToSet(order)
      BY <2>1, <2>2, RotateList
    <2>6. (Unseen(c) \cap ToSet(order) = {})'
      BY <2>1, <2>4, <2>5 DEF F, Unseen
    <2>7. must'[c] \subseteq drawn' /\ must'[c] = must[c]
      BY <1>1, <1>4, <2>1, CycleNow
    <2>8. "exhausted" \notin InCycle
      BY DEF InCycle
    <2>9. QED
      BY <1>1, <1>5, <2>1, <2>6, <2>7, <2>8 DEF CycleInv
  <1>10. CASE (CheckParked(c) \/ ReadSecret(c) \/ Use(c) \/ Fail(c) \/ ParkRemove(c) \/ ParkAdd(c))
              /\ ~ Leave(c)
    <2>1. /\ \E p \in InCycle : Goto(c, p)
          /\ pc[c] \in InCycle /\ UNCHANGED cycle
          /\ order' = order \/ \E x : order' = LRem(order, x)
      BY <1>10 DEF CheckParked, ReadSecret, Use, Fail, ParkRemove, ParkAdd, ParkAddUntil, InCycle,
         At, redis
    <2>2. pc'[c] \in InCycle /\ pc'[c] # "exhausted"
      BY <1>2, <2>1 DEF InCycle
    <2>3. QED
      BY <1>4, <1>5, <2>1, <2>2, CycleStays
  <1>11. QED
    BY <1>6, <1>7, <1>8, <1>9, <1>10 DEF Client

LEMMA NextCycles ==
  ASSUME NEW c, Clients = {c}
  PROVE  TypeOK /\ CycleInv /\ CycleBase(c) /\ [Next]_vars => CycleInv'
  <1> SUFFICES ASSUME TypeOK, CycleInv, CycleBase(c), [Next]_vars PROVE CycleInv'
    OBVIOUS
  <1>1. c \in Clients
    OBVIOUS
  <1>2. CASE UNCHANGED vars \/ Midnight
    <2>1. UNCHANGED <<order, drawn, pc, cur, cycle>>
      BY <1>2 DEF vars, Midnight, cycle
    <2>2. \A a \in Admins : pc'[a] = "add" => cur'[a] \notin must[c]
      BY <1>1, <2>1, CycleNow
    <2>3. QED
      BY <2>1, <2>2, CycleStays
  <1>3. QED
    BY <1>2, SharedCycles, ClientCycles, AdminCycles DEF Next

LEMMA CycleCovers == CycleInv => CycleCoversPool
  BY DEF CycleInv, CycleCoversPool, Unseen

(* A request that fails for want of keys has tried every key that was       *)
(* active when its cycle began and still is (provider_key_pool.py:182-202), *)
(* for any number of keys: when it is the only loop over the keys, with any *)
(* number of admins who add and delete keys in between and the midnight of  *)
(* the source, or alone with the pool and a midnight that is computed.      *)
(* Two loops turn the list away under each other.                           *)
THEOREM CycleTriesAll ==
  ASSUME NEW c, Clients = {c}, MidnightRaises \/ Admins = {}
  PROVE  Spec => []CycleCoversPool
  <1>1. CASE MidnightRaises
    <2>1. Init => TypeOK /\ RotationInv /\ CycleInv
      BY InitTyped, InitRotation, InitCycle
    <2>2. TypeOK /\ RotationInv /\ CycleInv /\ [Next]_vars => TypeOK' /\ RotationInv' /\ CycleInv'
      BY <1>1, NextTyped, NextRotates, NextCycles, BaseHolds
    <2>3. QED
      BY <2>1, <2>2, CycleCovers, PTL DEF Spec
  <1>2. CASE ~ MidnightRaises
    <2>1. Actors = {c} /\ Admins = {}
      BY <1>2 DEF Actors
    <2>2. Init => TypeOK /\ AloneInv /\ CycleInv
      BY InitTyped, InitAlone, InitCycle
    <2>3. TypeOK /\ AloneInv /\ CycleInv /\ [Next]_vars => TypeOK' /\ AloneInv' /\ CycleInv'
      BY <1>2, <2>1, NextTyped, NextAlone, NextCycles, BaseHolds
    <2>4. QED
      BY <2>2, <2>3, CycleCovers, PTL DEF Spec
  <1>3. QED
    BY <1>1, <1>2

=============================================================================
