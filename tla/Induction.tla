------------------------------ MODULE Induction ------------------------------
(***************************************************************************)
(* Induction stated about sets, so that a proof can cite it: a statement   *)
(* about every number is the set of the numbers it holds for.  The         *)
(* least-number principle comes from the well-founded ordering of finite   *)
(* sets, with the number n taken for the interval of the numbers below it. *)
(* With it, a function defined by recursion over the numbers has values.   *)
(***************************************************************************)
EXTENDS FiniteSetTheorems, WellFoundedInduction, TLAPS

\* A set of numbers has a smallest one.
LEMMA SmallestNumber ==
  ASSUME NEW T, T \subseteq Nat, T # {}
  PROVE  \E n \in T : \A m \in T : n <= m
  <1> DEFINE below == {0 .. n - 1 : n \in T}
  <1>1. \A n \in T : n \in Nat /\ n - 1 \in Int
    OBVIOUS
  <1>2. below \subseteq FiniteSubsetsOf(Nat)
    <2>1. \A n \in T : 0 .. n - 1 \in FiniteSubsetsOf(Nat)
      BY <1>1, FS_Interval DEF FiniteSubsetsOf
    <2>2. QED
      BY <2>1
  <1>3. \E b \in below : \A c \in below : ~ (<<c, b>> \in StrictSubsetOrdering(Nat))
    <2>1. below # {}
      OBVIOUS
    <2>2. IsWellFoundedOn(StrictSubsetOrdering(Nat), FiniteSubsetsOf(Nat))
      BY FS_StrictSubsetOrderingWellFounded
    <2> HIDE DEF below
    <2>3. QED
      BY <1>2, <2>1, <2>2, WFMin, Zenon
  <1>4. PICK n \in T : \A c \in below : ~ (<<c, 0 .. n - 1>> \in StrictSubsetOrdering(Nat))
    BY <1>3
  <1>5. ASSUME NEW m \in T, ~(n <= m) PROVE FALSE
    <2>1. m \in Nat /\ n \in Nat /\ m < n
      BY <1>5
    <2>2. /\ 0 .. m - 1 \subseteq 0 .. n - 1
          /\ m \in 0 .. n - 1 /\ m \notin 0 .. m - 1
          /\ 0 .. m - 1 \in SUBSET Nat /\ 0 .. n - 1 \in SUBSET Nat
      BY <2>1
    <2>3. 0 .. m - 1 \in below
      OBVIOUS
    <2>4. <<0 .. m - 1, 0 .. n - 1>> \in StrictSubsetOrdering(Nat)
      BY <2>2 DEF StrictSubsetOrdering
    <2>5. QED
      BY <1>4, <2>3, <2>4
  <1>6. QED
    BY <1>5

\* What holds of 0, and of a number when it holds of the one before it, holds
\* of every number up to a limit.
LEMMA UpTo ==
  ASSUME NEW limit \in Nat, NEW T, 0 \in T,
         \A n \in 1 .. limit : n - 1 \in T => n \in T
  PROVE  0 .. limit \subseteq T
  <1>1. SUFFICES ASSUME (0 .. limit) \ T # {} PROVE FALSE
    OBVIOUS
  <1>2. PICK n \in (0 .. limit) \ T : \A m \in (0 .. limit) \ T : n <= m
    <2>1. (0 .. limit) \ T \subseteq Nat
      OBVIOUS
    <2>2. QED
      BY <1>1, <2>1, SmallestNumber
  <1>3. n \in 1 .. limit /\ n - 1 \in 0 .. limit /\ ~(n <= n - 1)
    BY <1>2
  <1>4. QED
    BY <1>2, <1>3

-----------------------------------------------------------------------------
\* f follows from its first value, each other value from the one before it.
Follows(f, T, base, G) ==
  f \in [Nat -> T] /\ f[0] = base /\ \A k \in Nat \ {0} : f[k] = G[<<f[k - 1], k>>]

\* A recursive definition over the numbers has a solution, when each value is
\* made of the one before it by a function.
LEMMA Recursion ==
  ASSUME NEW T, NEW base \in T, NEW G \in [T \X (Nat \ {0}) -> T]
  PROVE  \E f : Follows(f, T, base, G)
  <1> DEFINE Solves(f, n) ==
        /\ f \in [0..n -> T] /\ f[0] = base
        /\ \A k \in 1..n : f[k] = G[<<f[k - 1], k>>]
  <1>1. \A n \in Nat : \E f : Solves(f, n)
    <2> DEFINE Solved == {n \in Nat : \E f : Solves(f, n)}
    <2>1. 0 \in Solved
      <3>1. Solves([i \in 0..0 |-> base], 0)
        OBVIOUS
      <3>2. QED
        BY <3>1
    <2>2. ASSUME NEW n \in Nat, n \in Solved PROVE n + 1 \in Solved
      <3>1. PICK f : Solves(f, n)
        BY <2>2
      <3> DEFINE next == G[<<f[n], n + 1>>]
                 g == [i \in 0..n + 1 |-> IF i = n + 1 THEN next ELSE f[i]]
      <3>2. n \in 0..n /\ n + 1 \in Nat \ {0}
        OBVIOUS
      <3>3. f[n] \in T /\ next \in T
        BY <3>1, <3>2
      <3>4. \A i \in 0..n + 1 : i # n + 1 => i \in 0..n /\ f[i] \in T
        BY <3>1
      <3>5. g \in [0..n + 1 -> T]
        BY <3>3, <3>4
      <3>6. g[0] = base
        BY <3>1
      <3>7. ASSUME NEW k \in 1..n + 1 PROVE g[k] = G[<<g[k - 1], k>>]
        <4>1. k - 1 \in 0..n + 1 /\ k - 1 # n + 1 /\ k \in 0..n + 1
          OBVIOUS
        <4>2. g[k - 1] = f[k - 1]
          BY <4>1
        <4>3. CASE k = n + 1
          <5>1. k - 1 = n /\ g[k] = next
            BY <4>3, <4>1
          <5>2. QED
            BY <5>1, <4>2, <4>3
        <4>4. CASE k # n + 1
          <5>1. k \in 1..n /\ g[k] = f[k]
            BY <4>4, <4>1
          <5>2. QED
            BY <5>1, <4>2, <3>1
        <4>5. QED
          BY <4>3, <4>4
      <3>8. Solves(g, n + 1)
        BY <3>5, <3>6, <3>7
      <3> HIDE DEF g, Solves
      <3>9. QED
        BY <3>8
    <2>3. ASSUME NEW n \in Nat PROVE n \in Solved
      <3>1. \A k \in 1..n : k - 1 \in Solved => k \in Solved
        <4>1. ASSUME NEW k \in 1..n, k - 1 \in Solved PROVE k \in Solved
          <5>1. k - 1 \in Nat /\ (k - 1) + 1 = k
            OBVIOUS
          <5> HIDE DEF Solved
          <5>2. QED
            BY <5>1, <4>1, <2>2
        <4>2. QED
          BY <4>1
      <3> HIDE DEF Solved
      <3>2. 0..n \subseteq Solved
        BY <2>1, <3>1, UpTo
      <3>3. QED
        BY <3>2
    <2>4. QED
      BY <2>3
  <1> DEFINE sol(n) == CHOOSE f : Solves(f, n)
  <1>2. \A n \in Nat : Solves(sol(n), n)
    BY <1>1, Zenon
  <1>3. ASSUME NEW n \in Nat, NEW f, NEW g, Solves(f, n), Solves(g, n + 1)
        PROVE  f[n] = g[n]
    <2> DEFINE Same == {i \in 0..n : f[i] = g[i]}
    <2>1. 0 \in Same
      BY <1>3
    <2>2. ASSUME NEW i \in 1..n, i - 1 \in Same PROVE i \in Same
      <3>1. i \in 1..n + 1
        OBVIOUS
      <3>2. f[i] = G[<<f[i - 1], i>>] /\ g[i] = G[<<g[i - 1], i>>]
        BY <1>3, <3>1
      <3>3. QED
        BY <2>2, <3>2
    <2>3. 0..n \subseteq Same
      <3> HIDE DEF Same
      <3>1. QED
        BY <2>1, <2>2, UpTo
    <2>4. n \in 0..n
      OBVIOUS
    <2>5. QED
      BY <2>3, <2>4
  <1> DEFINE F == [n \in Nat |-> sol(n)[n]]
  <1> HIDE DEF sol
  <1>4. F \in [Nat -> T]
    <2>1. ASSUME NEW n \in Nat PROVE sol(n)[n] \in T
      <3>1. n \in 0..n
        OBVIOUS
      <3>2. QED
        BY <1>2, <3>1
    <2>2. QED
      BY <2>1
  <1>5. F[0] = base
    BY <1>2
  <1>6. ASSUME NEW k \in Nat \ {0} PROVE F[k] = G[<<F[k - 1], k>>]
    <2>1. k - 1 \in Nat /\ (k - 1) + 1 = k /\ k \in Nat /\ k \in 1..k
      OBVIOUS
    <2>2. Solves(sol(k - 1), k - 1) /\ Solves(sol(k), k)
      BY <2>1, <1>2
    <2>3. sol(k - 1)[k - 1] = sol(k)[k - 1]
      <3> HIDE DEF Solves
      <3>1. Solves(sol(k), (k - 1) + 1)
        BY <2>1, <2>2
      <3>2. QED
        BY <3>1, <2>1, <2>2, <1>3
    <2>4. sol(k)[k] = G[<<sol(k)[k - 1], k>>]
      BY <2>2, <2>1
    <2>5. F[k] = sol(k)[k] /\ F[k - 1] = sol(k - 1)[k - 1]
      BY <2>1
    <2>6. QED
      BY <2>3, <2>4, <2>5
  <1>7. QED
    BY <1>4, <1>5, <1>6 DEF Follows
=============================================================================
