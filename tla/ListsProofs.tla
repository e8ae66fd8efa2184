----------------------------- MODULE ListsProofs -----------------------------
(***************************************************************************)
(* The lemmas about data that the proofs about nodes rest on: induction     *)
(* over the numbers and the functions it defines, FlattenSeq, sums, what    *)
(* filtering keeps, sorting, counting by class, and sequences that repeat   *)
(* nothing.  A property to be shown of every number is given as the set of  *)
(* the numbers that have it, and the step of a recursion as a function.     *)
(***************************************************************************)
EXTENDS Lists, FunctionTheorems, SequenceTheorems, FiniteSetTheorems, WellFoundedInduction, TLAPS

\* Every nonempty set of numbers has a least element.
LEMMA NatLeast ==
  ASSUME NEW S \in SUBSET Nat, S # {}
  PROVE  \E n \in S : \A m \in S : n <= m
<1> DEFINE R == OpToRel(<, Nat)
<1>1. IsWellFoundedOn(R, Nat)
  BY NatLessThanWellFounded
<1>2. \A x, y \in Nat : <<y, x>> \in R <=> y < x
  BY DEF OpToRel
<1> HIDE DEF R
<1>3. PICK n \in S : \A m \in S : ~(<<m, n>> \in R)
  BY <1>1, WFMin
<1>4. n \in Nat
  OBVIOUS
<1>5. ASSUME NEW m \in S
      PROVE  n <= m
  <2>1. m \in Nat /\ ~(m < n)
    BY <1>2, <1>3, <1>4
  <2> QED BY <1>4, <2>1
<1> QED BY <1>5

\* A set of numbers that has 0 and with a number the next one has them all.
LEMMA SetInduction ==
  ASSUME NEW S \in SUBSET Nat, 0 \in S, \A n \in S : n + 1 \in S
  PROVE  S = Nat
<1> SUFFICES ASSUME S # Nat PROVE FALSE
  OBVIOUS
<1>1. Nat \ S \in SUBSET Nat /\ Nat \ S # {}
  OBVIOUS
<1>2. PICK n \in Nat \ S : \A m \in Nat \ S : n <= m
  BY <1>1, NatLeast
<1>3. n # 0 /\ n - 1 \in Nat
  BY <1>2
<1>4. n - 1 \in S
  BY <1>2, <1>3
<1>5. (n - 1) + 1 = n
  BY <1>2
<1> QED BY <1>2, <1>4, <1>5

\* A set of numbers up to N that has 0 and with a number the next one has N.
LEMMA IntervalInduction ==
  ASSUME NEW N \in Nat, NEW P, 0 \in P, \A n \in 1..N : n - 1 \in P => n \in P
  PROVE  N \in P
<1> DEFINE S == {n \in Nat : n <= N => n \in P}
<1>1. 0 \in S /\ S \in SUBSET Nat
  OBVIOUS
<1>2. ASSUME NEW n \in S
      PROVE  n + 1 \in S
  <2>1. CASE n + 1 <= N
    <3>1. n + 1 \in 1..N /\ (n + 1) - 1 = n /\ n \in P
      BY <2>1
    <3> QED BY <3>1
  <2>2. CASE ~(n + 1 <= N)
    BY <2>2
  <2> QED BY <2>1, <2>2
<1> HIDE DEF S
<1>3. S = Nat
  BY <1>1, <1>2, SetInduction
<1> QED BY <1>3 DEF S

\* Two functions that agree at 0, and at a number where they agree at the one
\* before, agree at N.
LEMMA ValuesAgree ==
  ASSUME NEW N \in Nat, NEW f, NEW g, f[0] = g[0],
         \A n \in 1..N : f[n - 1] = g[n - 1] => f[n] = g[n]
  PROVE  f[N] = g[N]
<1> DEFINE Agree == {n \in Nat : n <= N => f[n] = g[n]}
<1>1. 0 \in Agree
  OBVIOUS
<1>2. ASSUME NEW n \in Agree
      PROVE  n + 1 \in Agree
  <2>1. SUFFICES ASSUME n + 1 <= N PROVE f[n + 1] = g[n + 1]
    OBVIOUS
  <2>2. n + 1 \in 1..N /\ (n + 1) - 1 = n /\ f[n] = g[n]
    BY <2>1
  <2> QED BY <2>2
<1>3. Agree = Nat
  <2>1. Agree \in SUBSET Nat
    OBVIOUS
  <2> HIDE DEF Agree
  <2> QED BY <1>1, <1>2, <2>1, SetInduction
<1>4. N \in Agree
  BY <1>3
<1> QED BY <1>4

\* A set of sequences that has the empty one and with a sequence those that are
\* longer by an element has them all.
LEMMA SeqInduction ==
  ASSUME NEW T, NEW P \in SUBSET Seq(T), <<>> \in P,
         \A s \in P, t \in T : Append(s, t) \in P
  PROVE  P = Seq(T)
<1> DEFINE Good == {n \in Nat : \A s \in Seq(T) : Len(s) = n => s \in P}
<1>1. 0 \in Good
  BY EmptySeq
<1>2. ASSUME NEW n \in Good
      PROVE  n + 1 \in Good
  <2>1. SUFFICES ASSUME NEW s \in Seq(T), Len(s) = n + 1 PROVE s \in P
    OBVIOUS
  <2>2. s # <<>>
    BY <2>1
  <2>3. PICK u \in Seq(T), t \in T : s = Append(u, t)
    BY <2>2, SequenceEmptyOrAppend
  <2>4. Len(u) = n
    BY <2>1, <2>3
  <2> QED BY <2>3, <2>4
<1>3. Good = Nat
  <2>1. Good \in SUBSET Nat
    OBVIOUS
  <2> HIDE DEF Good
  <2> QED BY <1>1, <1>2, <2>1, SetInduction
<1>4. ASSUME NEW s \in Seq(T)
      PROVE  s \in P
  <2>1. Len(s) \in Good
    BY <1>3
  <2> QED BY <2>1
<1> QED BY <1>4

\* z is s followed by t, told apart by its values.
Follows(z, s, t) == z = s \o t

\* A sequence with the values of s and then those of t follows from them.
LEMMA FollowsByValue ==
  ASSUME NEW S, NEW s \in Seq(S), NEW t \in Seq(S), NEW z \in Seq(S),
         Len(z) = Len(s) + Len(t), \A i \in 1..Len(s) : z[i] = s[i],
         \A i \in 1..Len(t) : z[Len(s) + i] = t[i]
  PROVE  Follows(z, s, t)
<1> DEFINE y == s \o t
<1>1. /\ y \in Seq(S) /\ Len(y) = Len(s) + Len(t)
      /\ \A i \in 1..(Len(s) + Len(t)) : y[i] = IF i <= Len(s) THEN s[i] ELSE t[i - Len(s)]
  BY ConcatProperties
<1>2. ASSUME NEW i \in 1..Len(z)
      PROVE  z[i] = y[i]
  <2>1. CASE i <= Len(s)
    BY <1>1, <2>1
  <2>2. CASE ~(i <= Len(s))
    <3> DEFINE k == i - Len(s)
    <3>1. k \in 1..Len(t) /\ i = Len(s) + k
      BY <2>2
    <3>2. y[i] = t[k]
      BY <1>1, <2>2
    <3> HIDE DEF k, y
    <3> QED BY <3>1, <3>2
  <2> QED BY <2>1, <2>2
<1> HIDE DEF y
<1>3. z = y
  BY <1>1, <1>2, SeqEqual
<1> QED BY <1>3 DEF y, Follows

\* And the other way round.
LEMMA FollowsValues ==
  ASSUME NEW S, NEW s \in Seq(S), NEW t \in Seq(S), NEW z, Follows(z, s, t)
  PROVE  /\ z \in Seq(S) /\ Len(z) = Len(s) + Len(t)
         /\ \A i \in 1..Len(s) : z[i] = s[i]
         /\ \A i \in 1..Len(t) : z[Len(s) + i] = t[i]
BY DEF Follows

\* A power of two is a number: it counts the subsets of an interval.
LEMMA PowerOfTwo ==
  ASSUME NEW n \in Nat
  PROVE  2 ^ n \in Nat
<1>1. IsFiniteSet(1..n) /\ Cardinality(1..n) = n
  BY FS_Interval
<1>2. IsFiniteSet(SUBSET (1..n)) /\ Cardinality(SUBSET (1..n)) = 2 ^ n
  BY <1>1, FS_SUBSET
<1> QED BY <1>2, FS_CardinalityType

\* f starts at b, and each of its N further values is what the step F makes of the
\* one before.
IsRecursion(f, S, b, N, F) ==
  f \in [0..N -> S] /\ f[0] = b /\ \A n \in 1..N : f[n] = F[<<f[n - 1], n>>]

\* A recursion exists: every prefix of it can be extended.
LEMMA RecursionExists ==
  ASSUME NEW S, NEW b \in S, NEW N \in Nat, NEW F \in [S \X (1..N) -> S]
  PROVE  \E f : IsRecursion(f, S, b, N, F)
<1> DEFINE Good == {k \in Nat : k <= N => \E f : IsRecursion(f, S, b, k, F)}
<1>1. 0 \in Good
  <2>1. IsRecursion([i \in 0..0 |-> b], S, b, 0, F)
    BY DEF IsRecursion
  <2> QED BY <2>1
<1>2. ASSUME NEW k \in Good
      PROVE  k + 1 \in Good
  <2> SUFFICES ASSUME k + 1 <= N PROVE \E f : IsRecursion(f, S, b, k + 1, F)
    OBVIOUS
  <2>1. k \in Nat /\ k <= N /\ k + 1 \in 1..N
    OBVIOUS
  <2>2. PICK f : IsRecursion(f, S, b, k, F)
    BY <2>1
  <2>3. f \in [0..k -> S] /\ f[0] = b /\ \A n \in 1..k : f[n] = F[<<f[n - 1], n>>]
    BY <2>2 DEF IsRecursion
  <2> DEFINE g == [i \in 0..(k + 1) |-> IF i <= k THEN f[i] ELSE F[<<f[k], k + 1>>]]
  <2>4. F[<<f[k], k + 1>>] \in S
    BY <2>1, <2>3
  <2>5. g \in [0..(k + 1) -> S] /\ g[0] = b
    BY <2>1, <2>3, <2>4
  <2>6. ASSUME NEW n \in 1..(k + 1)
        PROVE  g[n] = F[<<g[n - 1], n>>]
    <3>1. n - 1 \in 0..k /\ g[n - 1] = f[n - 1]
      BY <2>1
    <3>2. CASE n <= k
      BY <2>1, <2>3, <3>1, <3>2
    <3>3. CASE n = k + 1
      <4>1. n - 1 = k /\ g[n - 1] = f[k]
        BY <2>1, <3>1, <3>3
      <4>2. g[n] = F[<<f[k], n>>]
        BY <2>1, <3>3
      <4> QED BY <4>1, <4>2
    <3> QED BY <2>1, <3>2, <3>3
  <2> HIDE DEF g
  <2>7. IsRecursion(g, S, b, k + 1, F)
    BY <2>5, <2>6 DEF IsRecursion
  <2> QED BY <2>7
<1>3. Good \in SUBSET Nat
  OBVIOUS
<1> HIDE DEF Good
<1>4. Good = Nat
  BY <1>1, <1>2, <1>3, SetInduction
<1>5. N \in Good
  BY <1>4
<1> QED BY <1>5 DEF Good

\* What follows a sequence of n elements starts at n + 1, and stays there whatever comes after it.
LEMMA PlaceAfter ==
  ASSUME NEW S, NEW s \in Seq(S), NEW x \in S, NEW t \in Seq(S), NEW n, n = Len(s) + 1
  PROVE  n \in DOMAIN ((s \o <<x>>) \o t) /\ ((s \o <<x>>) \o t)[n] = x
<1> DEFINE one == <<x>>
           front == s \o one
           all == front \o t
<1>1. one \in Seq(S) /\ Len(one) = 1 /\ one[1] = x
  OBVIOUS
<1> HIDE DEF one
<1>2. Len(s) \in Nat /\ Len(t) \in Nat
  OBVIOUS
<1>3. front \in Seq(S) /\ Len(front) = n
  <2>1. front \in Seq(S) /\ Len(front) = Len(s) + Len(one)
    BY <1>1, ConcatProperties, Zenon
  <2> QED BY <1>1, <2>1
<1>4. front[n] = x
  <2>1. n \in 1..(Len(s) + Len(one)) /\ ~(n <= Len(s)) /\ n - Len(s) = 1
    BY <1>1, <1>2
  <2>2. front[n] = one[n - Len(s)]
    BY <1>1, <1>2, <2>1, ConcatProperties
  <2> QED BY <1>1, <2>1, <2>2
<1> HIDE DEF front
<1>5. all \in Seq(S) /\ Len(all) = n + Len(t)
  <2>1. all \in Seq(S) /\ Len(all) = Len(front) + Len(t)
    BY <1>3, ConcatProperties, Zenon
  <2> QED BY <1>3, <2>1
<1>6. n \in 1..Len(front) /\ n \in 1..(n + Len(t))
  BY <1>2, <1>3
<1>7. all[n] = x
  BY <1>3, <1>4, <1>6
<1>8. n \in DOMAIN all
  <2> HIDE DEF all
  <2> QED BY <1>5, <1>6
<1> QED BY <1>7, <1>8 DEF all, front, one

-----------------------------------------------------------------------------
(* FlattenSeq. *)

\* FlattenSeq is the last of the values a recursion over the sequence takes.
LEMMA FlattenIsRecursive ==
  ASSUME NEW T, NEW s \in Seq(Seq(T)), Len(s) # 0
  PROVE  \E f \in [0..Len(s) -> Seq(T)] :
           /\ f[0] = <<>> /\ \A n \in 1..Len(s) : f[n] = f[n - 1] \o s[n]
           /\ FlattenSeq(s) = f[Len(s)]
<1> DEFINE N == Len(s)
           F == [p \in Seq(T) \X (1..N) |-> p[1] \o s[p[2]]]
           flatten[i \in 1..Len(s)] == IF i = 1 THEN s[i] ELSE flatten[i - 1] \o s[i]
           Rec(h) == h = [i \in 1..N |-> IF i = 1 THEN s[i] ELSE h[i - 1] \o s[i]]
<1>1. N \in Nat \ {0} /\ \A n \in 1..N : s[n] \in Seq(T)
  OBVIOUS
<1>2. F \in [Seq(T) \X (1..N) -> Seq(T)]
  BY <1>1, ConcatProperties
<1>3. \A a \in Seq(T), n \in 1..N : F[<<a, n>>] = a \o s[n]
  OBVIOUS
<1>4. <<>> \in Seq(T)
  OBVIOUS
<1>5. FlattenSeq(s) = flatten[N]
  BY DEF FlattenSeq
<1>6. flatten = CHOOSE h : Rec(h)
  BY DEF flatten
<1> HIDE DEF F, N, flatten
<1>7. N \in Nat
  BY <1>1
<1>8. PICK f : IsRecursion(f, Seq(T), <<>>, N, F)
  BY <1>2, <1>4, <1>7, RecursionExists
<1>9. /\ f \in [0..N -> Seq(T)] /\ f[0] = <<>>
      /\ \A n \in 1..N : f[n] = F[<<f[n - 1], n>>]
  BY <1>8 DEF IsRecursion
<1>10. ASSUME NEW n \in 1..N
       PROVE  f[n] = f[n - 1] \o s[n] /\ f[n - 1] \in Seq(T)
  <2>1. n - 1 \in 0..N
    BY <1>7
  <2>2. f[n] = F[<<f[n - 1], n>>] /\ f[n - 1] \in Seq(T)
    BY <1>9, <2>1
  <2> QED BY <1>3, <2>2
<1>11. f[1] = s[1] /\ 1 \in 1..N
  <2>1. 1 \in 1..N /\ s[1] \in Seq(T)
    BY <1>1
  <2>2. ASSUME NEW i \in 1..N, i = 1
        PROVE  f[i] = f[0] \o s[i]
    <3>1. i - 1 = 0
      BY <2>2
    <3> QED BY <1>10, <3>1
  <2> QED BY <1>9, <2>1, <2>2, ConcatEmptySeq
\* The recursive function that FlattenSeq chooses exists.
<1> DEFINE g == [i \in 1..N |-> f[i]]
<1>12. Rec(g)
  <2>1. ASSUME NEW i \in 1..N
        PROVE  f[i] = IF i = 1 THEN s[i] ELSE g[i - 1] \o s[i]
    <3>1. CASE i = 1
      BY <1>11, <3>1
    <3>2. CASE i # 1
      <4>1. i - 1 \in 1..N
        BY <1>7, <3>2
      <4> QED BY <1>10, <3>2, <4>1
    <3> QED BY <3>1, <3>2
  <2> QED BY <2>1
<1>13. Rec(flatten)
  BY <1>6, <1>12
<1>14. /\ flatten[1] = s[1]
       /\ \A i \in 1..N : i # 1 => flatten[i] = flatten[i - 1] \o s[i]
  BY <1>11, <1>13
<1> DEFINE Agree == {n \in Nat : n + 1 \in 1..N => flatten[n + 1] = f[n + 1]}
<1>15. 0 \in Agree
  BY <1>11, <1>14
<1>16. ASSUME NEW n \in Agree
       PROVE  n + 1 \in Agree
  <2> DEFINE m == n + 1
  <2>1. SUFFICES ASSUME m + 1 \in 1..N PROVE flatten[m + 1] = f[m + 1]
    OBVIOUS
  <2>2. m \in 1..N /\ (m + 1) - 1 = m /\ m + 1 # 1
    BY <1>7, <2>1
  <2>3. flatten[m] = f[m]
    BY <2>2
  <2> HIDE DEF m
  <2>4. flatten[m + 1] = flatten[m] \o s[m + 1] /\ f[m + 1] = f[m] \o s[m + 1]
    BY <1>10, <1>14, <2>1, <2>2
  <2> QED BY <2>3, <2>4
<1>17. Agree = Nat
  <2>1. Agree \in SUBSET Nat
    OBVIOUS
  <2> HIDE DEF Agree
  <2> QED BY <1>15, <1>16, <2>1, SetInduction
<1>18. flatten[N] = f[N]
  <2>1. N - 1 \in Nat /\ (N - 1) + 1 = N /\ N \in 1..N
    BY <1>1
  <2>2. N - 1 \in Agree
    BY <1>17, <2>1
  <2> QED BY <2>1, <2>2
<1>19. \A n \in 1..N : f[n] = f[n - 1] \o s[n]
  BY <1>10
<1> QED BY <1>5, <1>9, <1>18, <1>19 DEF N

\* Nothing flattened is nothing.
LEMMA FlattenEmpty == FlattenSeq(<<>>) = <<>>
BY DEF FlattenSeq

\* Flattening a sequence that grows by an element appends the element.
LEMMA FlattenAppend ==
  ASSUME NEW T, NEW s \in Seq(Seq(T)), NEW x \in Seq(T)
  PROVE  /\ FlattenSeq(s) \in Seq(T)
         /\ FlattenSeq(Append(s, x)) = FlattenSeq(s) \o x
<1> DEFINE N == Len(s)
           u == Append(s, x)
<1>1. /\ N \in Nat /\ u \in Seq(Seq(T)) /\ Len(u) = N + 1
      /\ u[N + 1] = x /\ \A i \in 1..N : u[i] = s[i]
  OBVIOUS
<1> HIDE DEF u
<1>2. Len(u) # 0 /\ N + 1 \in 1..Len(u)
  BY <1>1
<1>3. PICK g \in [0..Len(u) -> Seq(T)] :
        /\ g[0] = <<>> /\ \A n \in 1..Len(u) : g[n] = g[n - 1] \o u[n]
        /\ FlattenSeq(u) = g[Len(u)]
  BY <1>1, <1>2, FlattenIsRecursive
<1>4. FlattenSeq(u) = g[N] \o x
  <2>1. g[N + 1] = g[(N + 1) - 1] \o u[N + 1]
    BY <1>2, <1>3
  <2>2. (N + 1) - 1 = N
    BY <1>1
  <2> QED BY <1>1, <1>3, <2>1, <2>2
<1>5. CASE N = 0
  <2>1. s = <<>>
    BY <1>5
  <2>2. FlattenSeq(s) = <<>>
    BY <2>1, FlattenEmpty
  <2> QED BY <1>3, <1>4, <1>5, <2>2 DEF u
<1>6. CASE N # 0
  <2>1. PICK f \in [0..N -> Seq(T)] :
          /\ f[0] = <<>> /\ \A n \in 1..N : f[n] = f[n - 1] \o s[n]
          /\ FlattenSeq(s) = f[N]
    BY <1>6, FlattenIsRecursive
  \* The two recursions agree as far as s goes.
  <2>2. ASSUME NEW n \in 1..N, g[n - 1] = f[n - 1]
        PROVE  g[n] = f[n]
    <3>1. n \in 1..Len(u) /\ u[n] = s[n]
      BY <1>1
    <3>2. g[n] = g[n - 1] \o u[n] /\ f[n] = f[n - 1] \o s[n]
      BY <1>3, <2>1, <3>1
    <3> QED BY <2>2, <3>1, <3>2
  <2>3. g[0] = f[0] /\ N \in Nat
    BY <1>1, <1>3, <2>1
  <2> HIDE DEF N
  <2>4. g[N] = f[N]
    BY <2>2, <2>3, ValuesAgree
  <2> QED BY <1>1, <1>4, <2>1, <2>4 DEF u
<1> QED BY <1>5, <1>6

\* The elements of a flattened sequence are those of its parts.
LEMMA FlattenRange ==
  ASSUME NEW T, NEW s \in Seq(Seq(T))
  PROVE  /\ FlattenSeq(s) \in Seq(T)
         /\ Range(FlattenSeq(s)) = UNION {Range(s[i]) : i \in DOMAIN s}
<1> DEFINE Parts(u) == UNION {Range(u[i]) : i \in DOMAIN u}
           P == {u \in Seq(Seq(T)) : Range(FlattenSeq(u)) = Parts(u)}
<1>1. P \in SUBSET Seq(Seq(T))
  OBVIOUS
<1>2. <<>> \in P
  <2>1. Range(<<>>) = {} /\ Parts(<<>>) = {}
    BY DEF Range
  <2>2. <<>> \in Seq(Seq(T))
    BY EmptySeq
  <2> QED BY <2>1, <2>2, FlattenEmpty
<1>3. ASSUME NEW u \in P, NEW x \in Seq(T)
      PROVE  Append(u, x) \in P
  <2> DEFINE v == Append(u, x)
  <2>1. u \in Seq(Seq(T)) /\ v \in Seq(Seq(T))
    OBVIOUS
  <2>2. FlattenSeq(u) \in Seq(T) /\ FlattenSeq(v) = FlattenSeq(u) \o x
    BY <2>1, FlattenAppend
  <2>3. Range(FlattenSeq(v)) = Range(FlattenSeq(u)) \cup Range(x)
    BY <2>2, RangeConcatenation
  <2>4. /\ DOMAIN v = DOMAIN u \cup {Len(u) + 1} /\ v[Len(u) + 1] = x
        /\ \A i \in DOMAIN u : v[i] = u[i]
    BY <2>1
  <2> HIDE DEF v
  <2>5. Parts(v) = Parts(u) \cup Range(x)
    BY <2>4
  <2> QED BY <2>1, <2>3, <2>5 DEF v
<1> HIDE DEF P
<1>4. P = Seq(Seq(T))
  BY <1>1, <1>2, <1>3, SeqInduction
<1> QED BY <1>4, FlattenAppend DEF P

\* Parts of one length make a sequence of so many times that length.
LEMMA FlattenLength ==
  ASSUME NEW T, NEW k \in Nat, NEW s \in Seq({x \in Seq(T) : Len(x) = k})
  PROVE  Len(FlattenSeq(s)) = Len(s) * k
<1> DEFINE S == {x \in Seq(T) : Len(x) = k}
           P == {u \in Seq(S) : Len(FlattenSeq(u)) = Len(u) * k}
<1>1. P \in SUBSET Seq(S)
  OBVIOUS
<1>2. <<>> \in P
  BY FlattenEmpty, EmptySeq
<1>3. ASSUME NEW u \in P, NEW x \in S
      PROVE  Append(u, x) \in P
  <2>1. u \in Seq(S) /\ x \in Seq(T) /\ Len(x) = k
    OBVIOUS
  <2>2. u \in Seq(Seq(T))
    BY <2>1, SeqMonotonic
  <2>3. FlattenSeq(u) \in Seq(T) /\ FlattenSeq(Append(u, x)) = FlattenSeq(u) \o x
    BY <2>1, <2>2, FlattenAppend
  <2> DEFINE f == FlattenSeq(u)
  <2>9. f \in Seq(T) /\ FlattenSeq(Append(u, x)) = f \o x
    BY <2>3
  <2>10. Len(f \o x) = Len(f) + k
    <3> HIDE DEF f
    <3> QED BY <2>1, <2>9, ConcatProperties
  <2>4. Len(FlattenSeq(Append(u, x))) = Len(FlattenSeq(u)) + k
    BY <2>9, <2>10
  <2>5. Len(Append(u, x)) = Len(u) + 1 /\ Append(u, x) \in Seq(S)
    BY <2>1
  <2>6. Len(FlattenSeq(u)) = Len(u) * k /\ Len(u) \in Nat
    BY <2>1
  <2>7. (Len(u) + 1) * k = Len(u) * k + k
    BY <2>6
  <2>8. Len(FlattenSeq(Append(u, x))) = Len(Append(u, x)) * k
    BY <2>4, <2>5, <2>6, <2>7
  <2> HIDE DEF S
  <2> QED BY <2>5, <2>8
<1> HIDE DEF P
<1>4. P = Seq(S)
  <2> HIDE DEF S
  <2> QED BY <1>1, <1>2, <1>3, SeqInduction
<1> QED BY <1>4 DEF P

\* f has the sums of the first numbers of w.
IsPartialSums(f, w) ==
  f \in [0..Len(w) -> Int] /\ f[0] = 0 /\ \A n \in 1..Len(w) : f[n] = f[n - 1] + w[n]

\* A sum is the last of its partial sums.
LEMMA SumIsLast ==
  ASSUME NEW w \in Seq(Int)
  PROVE  \E f : IsPartialSums(f, w) /\ SumOf(w) = f[Len(w)]
<1> DEFINE N == Len(w)
           F == [p \in Int \X (1..N) |-> p[1] + w[p[2]]]
           sum[n \in 0..N] == IF n = 0 THEN 0 ELSE sum[n - 1] + w[n]
           Rec(h) == h = [n \in 0..N |-> IF n = 0 THEN 0 ELSE h[n - 1] + w[n]]
<1>1. N \in Nat /\ \A n \in 1..N : w[n] \in Int
  OBVIOUS
<1>2. F \in [Int \X (1..N) -> Int]
  BY <1>1
<1> HIDE DEF N
<1>3. PICK f : IsRecursion(f, Int, 0, N, F)
  <2>1. 0 \in Int
    OBVIOUS
  <2> HIDE DEF F, sum, Rec
  <2> QED BY <1>1, <1>2, <2>1, RecursionExists
<1>4. /\ f \in [0..N -> Int] /\ f[0] = 0
      /\ \A n \in 1..N : f[n] = f[n - 1] + w[n]
  <2>1. f \in [0..N -> Int] /\ f[0] = 0 /\ \A n \in 1..N : f[n] = F[<<f[n - 1], n>>]
    BY <1>3 DEF IsRecursion
  <2>2. ASSUME NEW n \in 1..N PROVE f[n] = f[n - 1] + w[n]
    <3>1. f[n - 1] \in Int
      BY <1>1, <2>1
    <3> QED BY <2>1, <3>1
  <2> QED BY <2>1, <2>2
<1>5. Rec(f)
  <2>1. ASSUME NEW n \in 0..N
        PROVE  f[n] = IF n = 0 THEN 0 ELSE f[n - 1] + w[n]
    BY <1>1, <1>4, <2>1
  <2> QED BY <1>4, <2>1
<1>6. sum = [n \in 0..N |-> IF n = 0 THEN 0 ELSE sum[n - 1] + w[n]]
  <2>1. Rec(CHOOSE h : Rec(h))
    <3> HIDE DEF Rec
    <3> QED BY <1>5
  <2> QED BY <2>1
<1>7. SumOf(w) = sum[N]
  BY DEF SumOf, N
<1> HIDE DEF sum, Rec, F
<1>8. sum[0] = 0 /\ \A n \in 1..N : sum[n] = sum[n - 1] + w[n]
  <2>1. \A n \in 0..N : sum[n] = IF n = 0 THEN 0 ELSE sum[n - 1] + w[n]
    BY <1>6
  <2> QED BY <1>1, <2>1
<1>9. sum[N] = f[N]
  <2>1. \A n \in 1..N : sum[n - 1] = f[n - 1] => sum[n] = f[n]
    BY <1>4, <1>8
  <2>2. sum[0] = f[0]
    BY <1>4, <1>8
  <2> QED BY <1>1, <2>1, <2>2, ValuesAgree
<1>10. IsPartialSums(f, w) /\ SumOf(w) = f[Len(w)]
  BY <1>4, <1>7, <1>9 DEF IsPartialSums, N
<1> QED BY <1>10

\* So it is a number, and the last of any values that start and grow as it does.
LEMMA SumIs ==
  ASSUME NEW w \in Seq(Int)
  PROVE  /\ SumOf(w) \in Int
         /\ \A g : g[0] = 0 /\ (\A n \in 1..Len(w) : g[n] = g[n - 1] + w[n]) => SumOf(w) = g[Len(w)]
<1>1. PICK f : IsPartialSums(f, w) /\ SumOf(w) = f[Len(w)]
  BY SumIsLast
<1>2. Len(w) \in Nat /\ Len(w) \in 0..Len(w)
  OBVIOUS
<1>3. ASSUME NEW g, g[0] = 0, \A n \in 1..Len(w) : g[n] = g[n - 1] + w[n]
      PROVE  SumOf(w) = g[Len(w)]
  <2> DEFINE N == Len(w)
  <2>1. f[0] = g[0] /\ \A n \in 1..N : f[n - 1] = g[n - 1] => f[n] = g[n]
    BY <1>1, <1>3 DEF IsPartialSums
  <2>2. f[N] = g[N]
    <3> HIDE DEF N
    <3> QED BY <1>2, <2>1, ValuesAgree DEF N
  <2> QED BY <1>1, <2>2
<1> QED BY <1>1, <1>2, <1>3 DEF IsPartialSums

\* The sizes of the parts of a set add up to its size.
LEMMA SumOfParts ==
  ASSUME NEW D, IsFiniteSet(D), NEW w \in Seq(Int), NEW at \in [DOMAIN w -> SUBSET D],
         \A i \in DOMAIN w : w[i] = Cardinality(at[i]),
         \A i, j \in DOMAIN w : i # j => at[i] \cap at[j] = {},
         \A x \in D : \E i \in DOMAIN w : x \in at[i]
  PROVE  SumOf(w) = Cardinality(D)
<1> DEFINE N == Len(w)
           Upto(n) == {x \in D : \E i \in 1..n : x \in at[i]}
           g == [n \in 0..N |-> Cardinality(Upto(n))]
<1>1. N \in Nat /\ DOMAIN w = 1..N
  OBVIOUS
<1>2. \A n \in 0..N : Upto(n) \in SUBSET D /\ IsFiniteSet(Upto(n)) /\ Cardinality(Upto(n)) \in Nat
  <2>1. \A n : Upto(n) \in SUBSET D
    OBVIOUS
  <2> QED BY <2>1, FS_Subset, FS_CardinalityType
<1>3. Upto(0) = {}
  OBVIOUS
<1>4. g[0] = 0
  <2>1. 0 \in 0..N
    BY <1>1
  <2> HIDE DEF Upto
  <2> QED BY <1>3, <2>1, FS_EmptySet
<1>5. ASSUME NEW n \in 1..N
      PROVE  g[n] = g[n - 1] + w[n]
  <2>1. n - 1 \in 0..N /\ n \in 0..N
    BY <1>1
  <2>2. Upto(n) = Upto(n - 1) \cup at[n]
    <3>1. \A i : i \in 1..n <=> i \in 1..(n - 1) \/ i = n
      BY <1>1
    <3>2. at[n] \in SUBSET D
      BY <1>1
    <3> QED BY <3>1, <3>2
  <2>3. Upto(n - 1) \cap at[n] = {}
    <3>1. \A i \in 1..(n - 1) : i \in DOMAIN w /\ i # n
      BY <1>1
    <3> QED BY <1>1, <3>1
  <2>4. IsFiniteSet(at[n]) /\ Cardinality(at[n]) \in Nat
    <3>1. at[n] \in SUBSET D
      BY <1>1
    <3> QED BY <3>1, FS_Subset, FS_CardinalityType
  <2>5. g[n] = Cardinality(Upto(n)) /\ g[n - 1] = Cardinality(Upto(n - 1)) /\ w[n] = Cardinality(at[n])
    BY <1>1, <2>1
  <2>6. IsFiniteSet(Upto(n - 1)) /\ Cardinality(Upto(n - 1)) \in Nat
    BY <1>2, <2>1
  <2>7. Cardinality(Upto(n)) = Cardinality(Upto(n - 1)) + Cardinality(at[n])
    <3> HIDE DEF Upto
    <3>1. Cardinality(Upto(n - 1) \cup at[n])
            = Cardinality(Upto(n - 1)) + Cardinality(at[n]) - Cardinality(Upto(n - 1) \cap at[n])
      BY <2>4, <2>6, FS_Union
    <3>2. Cardinality(Upto(n - 1) \cap at[n]) = 0
      BY <2>3, FS_EmptySet
    <3> QED BY <2>2, <2>4, <2>6, <3>1, <3>2
  <2> HIDE DEF g, Upto
  <2> QED BY <2>5, <2>7
<1>6. g[N] = Cardinality(D)
  <2>1. Upto(N) = D
    BY <1>1
  <2>2. N \in 0..N
    BY <1>1
  <2> HIDE DEF Upto
  <2> QED BY <2>1, <2>2
<1> HIDE DEF g, Upto
<1>7. SumOf(w) = g[N]
  BY <1>4, <1>5, SumIs
<1> QED BY <1>6, <1>7

\* A sequence and one more element, place by place.
LEMMA AppendIs ==
  ASSUME NEW T, NEW s \in Seq(T), NEW x \in T, NEW N, N = Len(s)
  PROVE  Append(s, x) = [i \in 1..(N + 1) |-> IF i <= N THEN s[i] ELSE x]
<1> DEFINE z == Append(s, x)
<1>1. /\ N \in Nat /\ z \in Seq(T) /\ Len(z) = N + 1
      /\ z[N + 1] = x /\ \A i \in 1..N : z[i] = s[i]
  OBVIOUS
<1> HIDE DEF z
<1>2. z = [i \in 1..(N + 1) |-> z[i]]
  BY <1>1
<1>3. ASSUME NEW i \in 1..(N + 1)
      PROVE  z[i] = IF i <= N THEN s[i] ELSE x
  <2>1. CASE i <= N
    BY <1>1, <2>1
  <2>2. CASE i = N + 1
    BY <1>1, <2>2
  <2> QED BY <1>1, <2>1, <2>2
<1> QED BY <1>2, <1>3 DEF z

\* The sum of numbers and one more.
LEMMA SumAppend ==
  ASSUME NEW w \in Seq(Int), NEW v \in Int
  PROVE  SumOf(Append(w, v)) = SumOf(w) + v
<1> DEFINE N == Len(w)
           u == Append(w, v)
<1>1. N \in Nat /\ u \in Seq(Int) /\ Len(u) = N + 1 /\ u[N + 1] = v /\ \A i \in 1..N : u[i] = w[i]
  OBVIOUS
<1>2. PICK f : IsPartialSums(f, u) /\ SumOf(u) = f[Len(u)]
  BY <1>1, SumIsLast
<1> HIDE DEF u, N
<1>3. f[0] = 0 /\ \A n \in 1..(N + 1) : f[n] = f[n - 1] + u[n]
  BY <1>1, <1>2 DEF IsPartialSums
<1>4. \A n \in 1..N : f[n] = f[n - 1] + w[n]
  BY <1>1, <1>3
<1>5. SumOf(w) = f[N]
  BY <1>3, <1>4, SumIs DEF N
<1>6. f[N + 1] = f[(N + 1) - 1] + u[N + 1] /\ (N + 1) - 1 = N
  BY <1>1, <1>3
<1> QED BY <1>1, <1>2, <1>5, <1>6 DEF u

\* A function on the places of a sequence is a sequence of that length.
LEMMA SamePlaces ==
  ASSUME NEW T, NEW k \in Seq(T), NEW t, t = [i \in DOMAIN k |-> t[i]], NEW S, \A i \in DOMAIN k : t[i] \in S
  PROVE  t \in Seq(S) /\ Len(t) = Len(k) /\ DOMAIN t = DOMAIN k
<1>1. DOMAIN k = 1..Len(k) /\ Len(k) \in Nat
  OBVIOUS
<1> QED BY <1>1

\* The elements of s at the places I: what Only keeps.
KeptAt(s, I) == FlattenSeq([i \in DOMAIN s |-> IF i \in I THEN <<s[i]>> ELSE <<>>])

\* They are elements of s.
LEMMA KeptRange ==
  ASSUME NEW T, NEW s \in Seq(T), NEW I
  PROVE  KeptAt(s, I) \in Seq(T) /\ Range(KeptAt(s, I)) = {s[i] : i \in DOMAIN s \cap I}
<1> DEFINE u == [i \in DOMAIN s |-> IF i \in I THEN <<s[i]>> ELSE <<>>]
<1>1. u \in Seq(Seq(T)) /\ DOMAIN u = DOMAIN s
  <2>1. \A x \in T : <<x>> \in Seq(T)
    OBVIOUS
  <2>2. <<>> \in Seq(T)
    BY EmptySeq
  <2>3. \A i \in DOMAIN s : (IF i \in I THEN <<s[i]>> ELSE <<>>) \in Seq(T)
    BY <2>1, <2>2
  <2>4. DOMAIN s = 1..Len(s) /\ Len(s) \in Nat
    OBVIOUS
  <2> QED BY <2>3, <2>4
<1>2. \A i \in DOMAIN s : Range(u[i]) = IF i \in I THEN {s[i]} ELSE {}
  <2>1. Range(<<>>) = {} /\ \A x : Range(<<x>>) = {x}
    BY DEF Range
  <2> QED BY <2>1
<1> HIDE DEF u
<1>3. FlattenSeq(u) \in Seq(T) /\ Range(FlattenSeq(u)) = UNION {Range(u[i]) : i \in DOMAIN u}
  BY <1>1, FlattenRange
<1>4. UNION {Range(u[i]) : i \in DOMAIN u} = {s[i] : i \in DOMAIN s \cap I}
  BY <1>1, <1>2
<1>5. KeptAt(s, I) = FlattenSeq(u)
  BY DEF KeptAt, u
<1> QED BY <1>3, <1>4, <1>5

\* Keeping places of a sequence that grows by an element appends the element or nothing.
LEMMA KeptAppend ==
  ASSUME NEW T, NEW s \in Seq(T), NEW x \in T, NEW I
  PROVE  KeptAt(Append(s, x), I) = KeptAt(s, I) \o (IF Len(s) + 1 \in I THEN <<x>> ELSE <<>>)
<1> DEFINE N == Len(s)
           u == Append(s, x)
           p == [i \in DOMAIN s |-> IF i \in I THEN <<s[i]>> ELSE <<>>]
           q == [i \in DOMAIN u |-> IF i \in I THEN <<u[i]>> ELSE <<>>]
           y == IF N + 1 \in I THEN <<x>> ELSE <<>>
<1>1. N \in Nat /\ DOMAIN s = 1..N /\ DOMAIN u = 1..(N + 1) /\ u[N + 1] = x /\ \A i \in 1..N : u[i] = s[i] /\ s[i] \in T
  OBVIOUS
<1>2. <<>> \in Seq(T) /\ \A t \in T : <<t>> \in Seq(T)
  OBVIOUS
<1>3. y \in Seq(T)
  <2> HIDE DEF N
  <2> QED BY <1>2
<1>4. \A i \in 1..N : p[i] \in Seq(T)
  BY <1>1, <1>2
<1>5. p = [i \in 1..N |-> p[i]]
  BY <1>1
<1>6. q = [i \in 1..(N + 1) |-> IF i <= N THEN p[i] ELSE y]
  <2>1. ASSUME NEW i \in 1..(N + 1)
        PROVE  (IF i \in I THEN <<u[i]>> ELSE <<>>) = IF i <= N THEN p[i] ELSE y
    <3>1. CASE i <= N
      BY <1>1, <3>1
    <3>2. CASE i = N + 1
      BY <1>1, <3>2
    <3> QED BY <1>1, <3>1, <3>2
  <2> QED BY <1>1, <2>1
<1> HIDE DEF p, y, N
<1>7. p \in Seq(Seq(T)) /\ Len(p) = N
  <2> DEFINE S == Seq(T)
  <2>1. \A i \in 1..N : p[i] \in S
    BY <1>4
  <2> HIDE DEF S
  <2>2. p \in Seq(S) /\ Len(p) = N
    BY <1>1, <1>5, <2>1
  <2> QED BY <2>2 DEF S
<1>8. Append(p, y) = [i \in 1..(N + 1) |-> IF i <= N THEN p[i] ELSE y]
  BY <1>3, <1>7, AppendIs
<1>9. q = Append(p, y)
  BY <1>6, <1>8
<1>10. FlattenSeq(Append(p, y)) = FlattenSeq(p) \o y
  BY <1>3, <1>7, FlattenAppend
<1>11. KeptAt(s, I) = FlattenSeq(p) /\ KeptAt(u, I) = FlattenSeq(q)
  BY DEF KeptAt, p
<1> QED BY <1>9, <1>10, <1>11 DEF y, N

\* The numbers that w gives the elements of a sequence.
Weights(s, w) == [i \in DOMAIN s |-> w[s[i]]]

\* The sum over what is kept is the sum over all places where the others count nothing.
LEMMA SumOfKept ==
  ASSUME NEW T, NEW s \in Seq(T), NEW I, NEW w \in [T -> Int]
  PROVE  SumOf(Weights(KeptAt(s, I), w)) = SumOf([i \in DOMAIN s |-> IF i \in I THEN w[s[i]] ELSE 0])
<1> DEFINE Counted(u) == [i \in DOMAIN u |-> IF i \in I THEN w[u[i]] ELSE 0]
           P == {u \in Seq(T) : SumOf(Weights(KeptAt(u, I), w)) = SumOf(Counted(u))}
<1>1. \A u \in Seq(T) : Weights(u, w) \in Seq(Int) /\ Counted(u) \in Seq(Int)
  <2>1. ASSUME NEW u \in Seq(T) PROVE Weights(u, w) \in Seq(Int) /\ Counted(u) \in Seq(Int)
    <3>1. DOMAIN u = 1..Len(u) /\ Len(u) \in Nat /\ \A i \in 1..Len(u) : w[u[i]] \in Int
      OBVIOUS
    <3> QED BY <3>1 DEF Weights
  <2> QED BY <2>1
<1>2. <<>> \in P
  <2>1. KeptAt(<<>>, I) = <<>>
    <3>1. [i \in DOMAIN <<>> |-> IF i \in I THEN <<<<>>[i]>> ELSE <<>>] = <<>>
      OBVIOUS
    <3> QED BY <3>1, FlattenEmpty DEF KeptAt
  <2>2. Weights(<<>>, w) = <<>> /\ Counted(<<>>) = <<>>
    BY DEF Weights
  <2>3. <<>> \in Seq(T)
    OBVIOUS
  <2> HIDE DEF Counted
  <2> QED BY <2>1, <2>2, <2>3
<1>3. ASSUME NEW u \in P, NEW x \in T
      PROVE  Append(u, x) \in P
  <2> DEFINE z == Append(u, x)
             N == Len(u)
             k == KeptAt(u, I)
             v == IF N + 1 \in I THEN w[x] ELSE 0
  <2>1. u \in Seq(T) /\ SumOf(Weights(k, w)) = SumOf(Counted(u))
    OBVIOUS
  <2>2. N \in Nat /\ DOMAIN u = 1..N /\ DOMAIN z = 1..(N + 1) /\ z[N + 1] = x /\ z \in Seq(T) /\ \A i \in 1..N : z[i] = u[i]
    BY <2>1
  <2>3. v \in Int /\ w[x] \in Int
    <3> HIDE DEF N
    <3> QED OBVIOUS
  <2>4. Counted(z) = Append(Counted(u), v)
    <3> DEFINE c == Counted(u)
    <3>1. Counted(z) = [i \in 1..(N + 1) |-> IF i <= N THEN c[i] ELSE v]
      <4>1. ASSUME NEW i \in 1..(N + 1)
            PROVE  (IF i \in I THEN w[z[i]] ELSE 0) = IF i <= N THEN c[i] ELSE v
        <5>1. CASE i <= N
          BY <2>2, <5>1
        <5>2. CASE i = N + 1
          BY <2>2, <5>2
        <5> QED BY <2>2, <5>1, <5>2
      <4> QED BY <2>2, <4>1
    <3>2. c \in Seq(Int) /\ Len(c) = N
      <4>1. c = [i \in 1..N |-> c[i]]
        BY <2>2
      <4>2. c \in Seq(Int)
        BY <1>1, <2>1
      <4> HIDE DEF c
      <4> QED BY <2>2, <4>1, <4>2
    <3> HIDE DEF c, v, N
    <3> DEFINE g == Append(c, v)
    <3>3. /\ N \in Nat /\ g \in Seq(Int) /\ Len(g) = N + 1
          /\ g[N + 1] = v /\ \A i \in 1..N : g[i] = c[i]
      BY <2>2, <2>3, <3>2
    <3> HIDE DEF g
    <3>4. g = [i \in 1..(N + 1) |-> g[i]]
      BY <3>3
    <3>5. ASSUME NEW i \in 1..(N + 1)
          PROVE  g[i] = IF i <= N THEN c[i] ELSE v
      <4>1. CASE i <= N
        BY <3>3, <4>1
      <4>2. CASE i = N + 1
        BY <3>3, <4>2
      <4> QED BY <3>3, <4>1, <4>2
    <3> QED BY <3>1, <3>4, <3>5 DEF c, g
  <2>5. SumOf(Weights(KeptAt(z, I), w)) = SumOf(Weights(k, w)) + v
    <3>1. k \in Seq(T)
      BY <2>1, KeptRange
    <3>2. KeptAt(z, I) = k \o (IF N + 1 \in I THEN <<x>> ELSE <<>>)
      BY <2>1, KeptAppend
    <3>3. CASE N + 1 \in I
      <4>1. KeptAt(z, I) = Append(k, x)
        <5> HIDE DEF k, N
        <5> QED BY <3>1, <3>2, <3>3
      <4>2. Weights(Append(k, x), w) = Append(Weights(k, w), w[x])
        <5> DEFINE a == Weights(k, w)
                   K == Len(k)
        <5>1. a \in Seq(Int)
          BY <1>1, <3>1
        <5>2. K \in Nat /\ DOMAIN k = 1..K /\ a = [i \in 1..K |-> w[k[i]]]
          <6> HIDE DEF k
          <6> QED BY <3>1 DEF Weights
        <5>3. Weights(Append(k, x), w) = [i \in 1..(K + 1) |-> IF i <= K THEN w[k[i]] ELSE w[x]]
          <6> HIDE DEF k
          <6> QED BY <3>1, <5>2 DEF Weights
        <5> HIDE DEF a, k, K
        <5>4. Len(a) = K /\ Append(a, w[x]) = [i \in 1..(K + 1) |-> IF i <= K THEN a[i] ELSE w[x]]
          BY <2>3, <5>1, <5>2
        <5>5. \A i \in 1..K : a[i] = w[k[i]]
          BY <5>2
        <5>6. [i \in 1..(K + 1) |-> IF i <= K THEN a[i] ELSE w[x]] = [i \in 1..(K + 1) |-> IF i <= K THEN w[k[i]] ELSE w[x]]
          BY <5>2, <5>5
        <5> QED BY <5>3, <5>4, <5>6 DEF a, k
      <4>3. SumOf(Append(Weights(k, w), w[x])) = SumOf(Weights(k, w)) + w[x]
        BY <1>1, <2>3, <3>1, SumAppend
      <4> QED BY <3>3, <4>1, <4>2, <4>3
    <3>4. CASE N + 1 \notin I
      <4>1. KeptAt(z, I) = k
        <5> HIDE DEF k, N
        <5> QED BY <3>1, <3>2, <3>4
      <4>2. SumOf(Weights(k, w)) \in Int
        BY <1>1, <3>1, SumIs
      <4> QED BY <3>4, <4>1, <4>2
    <3> QED BY <3>3, <3>4
  <2>6. SumOf(Append(Counted(u), v)) = SumOf(Counted(u)) + v
    BY <1>1, <2>1, <2>3, SumAppend
  <2>7. SumOf(Weights(KeptAt(z, I), w)) = SumOf(Counted(z))
    <3> HIDE DEF z, v, Counted, k
    <3> QED BY <2>1, <2>4, <2>5, <2>6
  <2> HIDE DEF Counted
  <2> QED BY <2>2, <2>7
<1>4. P = Seq(T)
  <2>1. P \in SUBSET Seq(T)
    OBVIOUS
  <2> HIDE DEF P
  <2> QED BY <1>2, <1>3, <2>1, SeqInduction
<1>5. s \in P
  BY <1>4
<1> QED BY <1>5

\* What is kept of a sequence are as many elements as places.
LEMMA KeptLength ==
  ASSUME NEW T, NEW s \in Seq(T), NEW I \in SUBSET DOMAIN s
  PROVE  Len(KeptAt(s, I)) = Cardinality(I)
<1> DEFINE u == [i \in DOMAIN s |-> IF i \in I THEN <<s[i]>> ELSE <<>>]
           N == Len(s)
           First(n) == {i \in I : i <= n}
<1>1. N \in Nat /\ DOMAIN s = 1..N /\ I \in SUBSET (1..N)
  OBVIOUS
<1>2. u \in Seq(Seq(T)) /\ Len(u) = N /\ \A i \in 1..N : u[i] = IF i \in I THEN <<s[i]>> ELSE <<>>
  <2>1. \A x \in T : <<x>> \in Seq(T)
    OBVIOUS
  <2>2. <<>> \in Seq(T)
    BY EmptySeq
  <2>3. \A i \in 1..N : (IF i \in I THEN <<s[i]>> ELSE <<>>) \in Seq(T)
    BY <2>1, <2>2
  <2> QED BY <1>1, <2>3
<1>3. KeptAt(s, I) = FlattenSeq(u)
  BY DEF KeptAt
<1> HIDE DEF u, N
<1>4. First(0) = {} /\ First(N) = I
  BY <1>1
<1>5. \A n : IsFiniteSet(First(n)) /\ Cardinality(First(n)) \in Nat
  <2>1. IsFiniteSet(1..N)
    BY <1>1, FS_Interval
  <2>2. \A n : First(n) \in SUBSET (1..N)
    BY <1>1
  <2> HIDE DEF First
  <2> QED BY <2>1, <2>2, FS_Subset, FS_CardinalityType
<1>6. CASE N = 0
  <2>1. u = <<>> /\ I = {}
    BY <1>1, <1>2, <1>6
  <2> QED BY <1>3, <2>1, FlattenEmpty, FS_EmptySet
<1>7. CASE N # 0
  <2>1. PICK f \in [0..N -> Seq(T)] :
          /\ f[0] = <<>> /\ \A n \in 1..N : f[n] = f[n - 1] \o u[n]
          /\ FlattenSeq(u) = f[N]
    BY <1>2, <1>7, FlattenIsRecursive
  <2> DEFINE lens == [n \in 0..N |-> Len(f[n])]
             sizes == [n \in 0..N |-> Cardinality(First(n))]
  <2>2. lens[0] = sizes[0]
    <3>1. 0 \in 0..N
      BY <1>1
    <3>2. Cardinality(First(0)) = 0
      BY <1>4, FS_EmptySet
    <3> HIDE DEF First
    <3> QED BY <2>1, <3>1, <3>2, EmptySeq
  <2>3. ASSUME NEW n \in 1..N, lens[n - 1] = sizes[n - 1]
        PROVE  lens[n] = sizes[n]
    <3>1. n \in 0..N /\ n - 1 \in 0..N /\ n \notin First(n - 1)
      BY <1>1
    <3>2. f[n - 1] \in Seq(T) /\ f[n] \in Seq(T) /\ u[n] \in Seq(T)
      <4>1. u[n] \in Seq(T)
        BY <1>2
      <4>2. f[n - 1] \in Seq(T) /\ f[n] \in Seq(T)
        BY <3>1
      <4> QED BY <4>1, <4>2
    <3>3. Len(f[n]) = Len(f[n - 1]) + Len(u[n])
      <4>1. Len(f[n - 1] \o u[n]) = Len(f[n - 1]) + Len(u[n])
        BY <3>2, ConcatProperties
      <4>2. f[n] = f[n - 1] \o u[n]
        BY <2>1
      <4> QED BY <4>1, <4>2
    <3>4. Len(f[n - 1]) = Cardinality(First(n - 1))
      BY <2>3, <3>1
    <3>5. Cardinality(First(n)) = Cardinality(First(n - 1)) + Len(u[n])
      <4>1. CASE n \in I
        <5>1. First(n) = First(n - 1) \cup {n}
          BY <1>1, <4>1
        <5>2. Len(u[n]) = 1
          BY <1>2, <4>1
        <5> HIDE DEF First
        <5>3. IsFiniteSet(First(n - 1)) /\ n \notin First(n - 1)
          BY <1>5, <3>1
        <5>4. Cardinality(First(n - 1) \cup {n}) = Cardinality(First(n - 1)) + 1
          BY <5>3, FS_AddElement
        <5> QED BY <5>1, <5>2, <5>4
      <4>2. CASE n \notin I
        <5>1. First(n) = First(n - 1)
          BY <1>1, <4>2
        <5>2. Len(u[n]) = 0
          BY <1>2, <4>2
        <5> HIDE DEF First
        <5> QED BY <1>5, <5>1, <5>2
      <4> QED BY <4>1, <4>2
    <3> HIDE DEF First
    <3> QED BY <3>1, <3>3, <3>4, <3>5
  <2>4. lens[N] = sizes[N]
    <3> HIDE DEF lens, sizes
    <3> QED BY <1>1, <2>2, <2>3, ValuesAgree
  <2>5. N \in 0..N
    BY <1>1
  <2>6. lens[N] = Len(f[N]) /\ sizes[N] = Cardinality(First(N))
    BY <2>5
  <2> QED BY <1>3, <1>4, <2>1, <2>4, <2>6
<1> QED BY <1>6, <1>7

\* What is kept of different elements is different.
LEMMA KeptInjective ==
  ASSUME NEW T, NEW s \in Seq(T), NEW I \in SUBSET DOMAIN s,
         \A i, j \in DOMAIN s : s[i] = s[j] => i = j
  PROVE  \A i, j \in DOMAIN KeptAt(s, I) : KeptAt(s, I)[i] = KeptAt(s, I)[j] => i = j
<1> DEFINE k == KeptAt(s, I)
           R == {s[i] : i \in I}
           f == [i \in I |-> s[i]]
<1>1. k \in Seq(T) /\ Range(k) = R
  <2>1. DOMAIN s \cap I = I
    OBVIOUS
  <2> QED BY <2>1, KeptRange
<1>2. Len(k) = Cardinality(I)
  BY KeptLength
<1> HIDE DEF k
<1>3. IsFiniteSet(I)
  <2>1. DOMAIN s = 1..Len(s) /\ Len(s) \in Nat
    OBVIOUS
  <2>2. IsFiniteSet(1..Len(s))
    BY <2>1, FS_Interval
  <2> QED BY <2>1, <2>2, FS_Subset
<1>4. IsFiniteSet(R) /\ Cardinality(R) = Cardinality(I)
  <2>1. f \in [I -> R] /\ (\A r \in R : \E i \in I : f[i] = r) /\ \A i, j \in I : f[i] = f[j] => i = j
    OBVIOUS
  <2>2. f \in Bijection(I, R)
    <3> HIDE DEF f, R
    <3> QED BY <2>1, Fun_IsBij
  <2>3. ExistsBijection(I, R)
    BY <2>2 DEF ExistsBijection
  <2> HIDE DEF R
  <2> QED BY <1>3, <2>3, FS_Bijection
<1>5. IsFiniteSet(1..Len(k)) /\ Cardinality(1..Len(k)) = Cardinality(R)
  <2>1. Len(k) \in Nat
    BY <1>1
  <2>2. IsFiniteSet(1..Len(k)) /\ Cardinality(1..Len(k)) = Len(k)
    <3> DEFINE n == Len(k)
    <3>1. n \in Nat /\ 1 \in Int /\ (IF 1 > n THEN 0 ELSE n - 1 + 1) = n
      BY <2>1
    <3> HIDE DEF n
    <3>2. IsFiniteSet(1..n) /\ Cardinality(1..n) = n
      BY <3>1, FS_Interval
    <3> QED BY <3>2 DEF n
  <2> QED BY <1>2, <1>4, <2>2
<1>6. k \in Surjection(1..Len(k), R)
  <2>1. k \in [1..Len(k) -> R] /\ \A r \in R : \E i \in 1..Len(k) : k[i] = r
    <3> HIDE DEF R
    <3> QED BY <1>1 DEF Range
  <2> HIDE DEF R
  <2> QED BY <2>1, Fun_IsSurj
<1>7. k \in Injection(1..Len(k), R)
  <2> HIDE DEF R
  <2> QED BY <1>5, <1>6, FS_SurjSameCardinalityImpliesInj
<1>8. DOMAIN k = 1..Len(k)
  BY <1>1
<1> QED BY <1>7, <1>8 DEF Injection, IsInjective, k

\* upTo is an order of the places 1 to n: those that come no later than each.
IsOrder(upTo, n) ==
  /\ upTo \in [1..n -> SUBSET (1..n)]
  /\ \A i, j \in 1..n : i \in upTo[j] \/ j \in upTo[i]
  /\ \A i, j \in 1..n : i \in upTo[j] /\ j \in upTo[i] => i = j
  /\ \A i, j, k \in 1..n : i \in upTo[j] /\ j \in upTo[k] => i \in upTo[k]

\* Each place has another number of places up to it, so that every number is used.
LEMMA PlacesAreUsed ==
  ASSUME NEW n \in Nat, NEW upTo, IsOrder(upTo, n)
  PROVE  /\ \A r \in 1..n : \E i \in 1..n : Cardinality(upTo[i]) = r
         /\ \A i, j \in 1..n : Cardinality(upTo[i]) = Cardinality(upTo[j]) => i = j
         /\ \A i, j \in 1..n : Cardinality(upTo[i]) < Cardinality(upTo[j]) => j \notin upTo[i]
         /\ \A i \in 1..n : Cardinality(upTo[i]) \in 1..n
<1> DEFINE rank == [i \in 1..n |-> Cardinality(upTo[i])]
<1>1. IsFiniteSet(1..n) /\ Cardinality(1..n) = n
  BY FS_Interval
<1>2. ASSUME NEW i \in 1..n
      PROVE  /\ upTo[i] \in SUBSET (1..n) /\ i \in upTo[i] /\ IsFiniteSet(upTo[i])
             /\ Cardinality(upTo[i]) \in Nat /\ Cardinality(upTo[i]) <= n /\ Cardinality(upTo[i]) # 0
  <2>1. upTo[i] \in SUBSET (1..n) /\ i \in upTo[i]
    BY DEF IsOrder
  <2>2. IsFiniteSet(upTo[i]) /\ Cardinality(upTo[i]) <= n
    BY <1>1, <2>1, FS_Subset
  <2>3. Cardinality(upTo[i]) # 0
    BY <2>1, <2>2, FS_EmptySet
  <2> QED BY <2>1, <2>2, <2>3, FS_CardinalityType
<1>3. ASSUME NEW i \in 1..n, NEW j \in 1..n, j \in upTo[i], j # i
      PROVE  Cardinality(upTo[j]) < Cardinality(upTo[i])
  <2>1. upTo[j] \in SUBSET (upTo[i] \ {i})
    BY <1>3, <1>2 DEF IsOrder
  <2>2. IsFiniteSet(upTo[i] \ {i}) /\ Cardinality(upTo[i] \ {i}) = Cardinality(upTo[i]) - 1
    BY <1>2, FS_RemoveElement
  <2>3. Cardinality(upTo[j]) <= Cardinality(upTo[i] \ {i})
    BY <2>1, <2>2, FS_Subset
  <2> QED BY <1>2, <2>2, <2>3
<1>4. \A i, j \in 1..n : Cardinality(upTo[i]) = Cardinality(upTo[j]) => i = j
  <2>1. SUFFICES ASSUME NEW i \in 1..n, NEW j \in 1..n, i # j
                 PROVE  Cardinality(upTo[i]) # Cardinality(upTo[j])
    OBVIOUS
  <2>2. i \in upTo[j] \/ j \in upTo[i]
    BY DEF IsOrder
  <2>3. Cardinality(upTo[i]) \in Nat /\ Cardinality(upTo[j]) \in Nat
    BY <1>2
  <2> QED BY <1>3, <2>1, <2>2, <2>3
<1>5. \A i, j \in 1..n : Cardinality(upTo[i]) < Cardinality(upTo[j]) => j \notin upTo[i]
  <2>1. SUFFICES ASSUME NEW i \in 1..n, NEW j \in 1..n, j \in upTo[i], Cardinality(upTo[i]) < Cardinality(upTo[j])
                 PROVE  FALSE
    OBVIOUS
  <2>2. Cardinality(upTo[i]) \in Nat /\ Cardinality(upTo[j]) \in Nat
    BY <1>2
  <2> QED BY <1>3, <2>1, <2>2
<1>6. \A i \in 1..n : Cardinality(upTo[i]) \in 1..n
  BY <1>2
<1>7. rank \in [1..n -> 1..n] /\ \A i, j \in 1..n : rank[i] = rank[j] => i = j
  BY <1>4, <1>6
<1>8. rank \in Injection(1..n, 1..n)
  <2> HIDE DEF rank
  <2> QED BY <1>7, Fun_IsInj
<1>9. rank \in Surjection(1..n, 1..n)
  <2> HIDE DEF rank
  <2> QED BY <1>1, <1>8, FS_Injection
<1>10. \A r \in 1..n : \E i \in 1..n : rank[i] = r
  <2> HIDE DEF rank
  <2> QED BY <1>9 DEF Surjection
<1> QED BY <1>4, <1>5, <1>6, <1>10

\* p is a rearrangement of the places 1 to n.
IsRearrangement(p, n) ==
  /\ p \in [1..n -> 1..n]
  /\ \A r, q \in 1..n : p[r] = p[q] => r = q
  /\ \A i \in 1..n : \E r \in 1..n : p[r] = i

\* p puts s into the order upTo.
IsPlacement(p, s, upTo) ==
  /\ IsRearrangement(p, Len(s))
  /\ \A r, q \in 1..Len(s) : r < q => p[q] \notin upTo[p[r]]
  /\ Placed(s, upTo) = [r \in 1..Len(s) |-> s[p[r]]]

\* What is placed in an order is rearranged into that order.
LEMMA PlacedInOrder ==
  ASSUME NEW T, NEW s \in Seq(T), NEW upTo, IsOrder(upTo, Len(s))
  PROVE  \E p : IsPlacement(p, s, upTo)
<1> DEFINE n == Len(s)
           p == [r \in 1..n |-> CHOOSE i \in 1..n : Cardinality(upTo[i]) = r]
<1>1. n \in Nat /\ DOMAIN s = 1..n
  OBVIOUS
<1>2. Placed(s, upTo) = [r \in 1..n |-> s[p[r]]]
  BY <1>1 DEF Placed
<1>3. /\ \A r \in 1..n : \E i \in 1..n : Cardinality(upTo[i]) = r
      /\ \A i, j \in 1..n : Cardinality(upTo[i]) = Cardinality(upTo[j]) => i = j
      /\ \A i, j \in 1..n : Cardinality(upTo[i]) < Cardinality(upTo[j]) => j \notin upTo[i]
      /\ \A i \in 1..n : Cardinality(upTo[i]) \in 1..n
  BY <1>1, PlacesAreUsed
<1>4. \A r \in 1..n : p[r] \in 1..n /\ Cardinality(upTo[p[r]]) = r
  BY <1>3
<1> HIDE DEF n, p
<1>5. IsRearrangement(p, n)
  <2>1. p \in [1..n -> 1..n]
    BY <1>4 DEF p
  <2>2. \A r, q \in 1..n : p[r] = p[q] => r = q
    BY <1>4
  <2>3. ASSUME NEW i \in 1..n PROVE \E r \in 1..n : p[r] = i
    <3>1. Cardinality(upTo[i]) \in 1..n
      BY <1>3
    <3> QED BY <1>3, <1>4, <3>1
  <2> QED BY <2>1, <2>2, <2>3 DEF IsRearrangement
<1>6. ASSUME NEW r \in 1..n, NEW q \in 1..n, r < q
      PROVE  p[q] \notin upTo[p[r]]
  <2>1. /\ p[r] \in 1..n /\ p[q] \in 1..n
        /\ Cardinality(upTo[p[r]]) = r /\ Cardinality(upTo[p[q]]) = q
    BY <1>4
  <2>2. Cardinality(upTo[p[r]]) < Cardinality(upTo[p[q]])
    BY <1>6, <2>1
  <2> QED BY <1>3, <2>1, <2>2
<1>7. IsPlacement(p, s, upTo)
  BY <1>2, <1>5, <1>6 DEF IsPlacement, n
<1> QED BY <1>7

\* t is s rearranged by p, the larger a first.
IsDescending(p, s, a, t) ==
  /\ IsRearrangement(p, Len(s))
  /\ \A r, q \in 1..Len(s) : r < q => a[p[r]] >= a[p[q]]
  /\ t = [r \in 1..Len(s) |-> s[p[r]]]

\* Sorting by a number, and where it is the same by another, is sorting.
LEMMA SortedByNumbers ==
  ASSUME NEW T, NEW s \in Seq(T), NEW a \in [DOMAIN s -> Int], NEW b \in [DOMAIN s -> Int],
         NEW upTo \in [DOMAIN s -> SUBSET DOMAIN s],
         \A i, j \in DOMAIN s : j \in upTo[i] <=>
           \/ a[j] > a[i] \/ (a[j] = a[i] /\ b[j] > b[i])
           \/ ~(a[i] > a[j] \/ (a[i] = a[j] /\ b[i] > b[j])) /\ j <= i
  PROVE  \E p : IsDescending(p, s, a, Placed(s, upTo))
<1> DEFINE n == Len(s)
<1>1. n \in Nat /\ DOMAIN s = 1..n
  OBVIOUS
<1> HIDE DEF n
<1>2. \A i \in 1..n : i \in Int /\ a[i] \in Int /\ b[i] \in Int
  BY <1>1
<1>3. \A i, j \in 1..n : j \in upTo[i] <=>
        a[j] > a[i] \/ (a[j] = a[i] /\ (b[j] > b[i] \/ (b[j] = b[i] /\ j <= i)))
  <2>1. SUFFICES ASSUME NEW i \in 1..n, NEW j \in 1..n
                 PROVE  j \in upTo[i] <=>
                          a[j] > a[i] \/ (a[j] = a[i] /\ (b[j] > b[i] \/ (b[j] = b[i] /\ j <= i)))
    OBVIOUS
  <2>2. j \in upTo[i] <=>
           \/ a[j] > a[i] \/ (a[j] = a[i] /\ b[j] > b[i])
           \/ ~(a[i] > a[j] \/ (a[i] = a[j] /\ b[i] > b[j])) /\ j <= i
    BY <1>1
  <2> QED BY <1>2, <2>2
<1>4. IsOrder(upTo, n)
  <2>1. upTo \in [1..n -> SUBSET (1..n)]
    BY <1>1
  <2>2. \A i, j \in 1..n : i \in upTo[j] \/ j \in upTo[i]
    BY <1>2, <1>3
  <2>3. \A i, j \in 1..n : i \in upTo[j] /\ j \in upTo[i] => i = j
    BY <1>2, <1>3
  <2>4. ASSUME NEW i \in 1..n, NEW j \in 1..n, NEW k \in 1..n, i \in upTo[j], j \in upTo[k]
        PROVE  i \in upTo[k]
    <3>1. a[i] > a[j] \/ (a[i] = a[j] /\ (b[i] > b[j] \/ (b[i] = b[j] /\ i <= j)))
      BY <1>3, <2>4
    <3>2. a[j] > a[k] \/ (a[j] = a[k] /\ (b[j] > b[k] \/ (b[j] = b[k] /\ j <= k)))
      BY <1>3, <2>4
    <3>3. a[i] > a[k] \/ (a[i] = a[k] /\ (b[i] > b[k] \/ (b[i] = b[k] /\ i <= k)))
      BY <1>2, <3>1, <3>2
    <3> QED BY <1>3, <3>3
  <2> QED BY <2>1, <2>2, <2>3, <2>4 DEF IsOrder
<1>5. PICK p : IsPlacement(p, s, upTo)
  <2>1. IsOrder(upTo, Len(s))
    BY <1>4 DEF n
  <2> QED BY <2>1, PlacedInOrder
<1>6. ASSUME NEW r \in 1..n, NEW q \in 1..n, r < q
      PROVE  a[p[r]] >= a[p[q]]
  <2>1. p[r] \in 1..n /\ p[q] \in 1..n /\ p[q] \notin upTo[p[r]]
    BY <1>5, <1>6 DEF IsPlacement, IsRearrangement, n
  <2>2. ~(a[p[q]] > a[p[r]])
    BY <1>3, <2>1
  <2> QED BY <1>2, <2>1, <2>2
<1>7. IsDescending(p, s, a, Placed(s, upTo))
  BY <1>5, <1>6 DEF IsPlacement, IsDescending, n
<1> QED BY <1>7

\* A sum is no less than what its numbers are no less than.
LEMMA SumAtLeast ==
  ASSUME NEW w \in Seq(Int), NEW c \in [0..Len(w) -> Int], c[0] = 0,
         \A n \in 1..Len(w) : c[n] <= c[n - 1] + w[n]
  PROVE  c[Len(w)] <= SumOf(w)
<1> DEFINE N == Len(w)
<1>1. N \in Nat /\ \A n \in 1..N : w[n] \in Int
  OBVIOUS
<1>2. PICK f : IsPartialSums(f, w) /\ SumOf(w) = f[N]
  BY SumIsLast
<1>3. f \in [0..N -> Int] /\ f[0] = 0 /\ \A n \in 1..N : f[n] = f[n - 1] + w[n]
  BY <1>2 DEF IsPartialSums
<1> DEFINE Good == {n \in Nat : n <= N => c[n] <= f[n]}
<1> HIDE DEF N
<1>4. 0 \in Good
  BY <1>1, <1>3
<1>5. ASSUME NEW n \in Good
      PROVE  n + 1 \in Good
  <2>1. SUFFICES ASSUME n + 1 <= N PROVE c[n + 1] <= f[n + 1]
    OBVIOUS
  <2>2. /\ n + 1 \in 1..N /\ n + 1 \in 0..N /\ n \in 0..N
        /\ (n + 1) - 1 = n /\ c[n] <= f[n]
    BY <1>1, <2>1
  <2>3. c[n + 1] <= c[n] + w[n + 1] /\ f[n + 1] = f[n] + w[n + 1]
    BY <1>3, <2>2 DEF N
  <2>4. c[n + 1] \in Int /\ c[n] \in Int /\ f[n] \in Int /\ f[n + 1] \in Int /\ w[n + 1] \in Int
    BY <1>1, <1>3, <2>2 DEF N
  <2> DEFINE c0 == c[n]
             c1 == c[n + 1]
             f0 == f[n]
             x == w[n + 1]
  <2>5. c1 <= c0 + x /\ f[n + 1] = f0 + x /\ c0 <= f0 /\ c0 \in Int /\ c1 \in Int /\ f0 \in Int /\ x \in Int
    BY <2>2, <2>3, <2>4
  <2> HIDE DEF c0, c1, f0, x
  <2>6. c1 <= f[n + 1]
    BY <2>5
  <2> QED BY <2>6 DEF c1
<1>6. Good = Nat
  <2>1. Good \in SUBSET Nat
    OBVIOUS
  <2> HIDE DEF Good
  <2> QED BY <1>4, <1>5, <2>1, SetInduction
<1>7. N \in Good
  BY <1>1, <1>6
<1> QED BY <1>1, <1>2, <1>7 DEF N

\* q has the value of every element of s, once, at has the places of those of each
\* value, and w how many they are.
IsCounted(w, s, of, q, at) ==
  /\ at \in [DOMAIN w -> SUBSET DOMAIN s]
  /\ \A k \in DOMAIN w : w[k] = Len(KeptAt(s, at[k]))
  /\ \A k \in DOMAIN w : \A i \in DOMAIN s : i \in at[k] <=> of[i] = q[k]
  /\ \A k, l \in DOMAIN w : q[k] = q[l] => k = l
  /\ \A i \in DOMAIN s : \E k \in DOMAIN w : q[k] = of[i]

\* Then they are as many as there are elements.
LEMMA CountsAddUp ==
  ASSUME NEW T, NEW s \in Seq(T), NEW w \in Seq(Int), NEW of, NEW q, NEW at, IsCounted(w, s, of, q, at)
  PROVE  SumOf(w) = Len(s)
<1>1. DOMAIN s = 1..Len(s) /\ Len(s) \in Nat
  OBVIOUS
<1>2. IsFiniteSet(DOMAIN s) /\ Cardinality(DOMAIN s) = Len(s)
  <2> DEFINE n == Len(s)
  <2>1. n \in Nat /\ 1 \in Int /\ (IF 1 > n THEN 0 ELSE n - 1 + 1) = n
    BY <1>1
  <2> HIDE DEF n
  <2>2. IsFiniteSet(1..n) /\ Cardinality(1..n) = n
    BY <2>1, FS_Interval
  <2> QED BY <1>1, <2>2 DEF n
<1>3. \A k \in DOMAIN w : w[k] = Cardinality(at[k])
  <2>1. ASSUME NEW k \in DOMAIN w PROVE w[k] = Cardinality(at[k])
    <3>1. at[k] \in SUBSET DOMAIN s
      BY DEF IsCounted
    <3>2. Len(KeptAt(s, at[k])) = Cardinality(at[k])
      BY <3>1, KeptLength
    <3> QED BY <3>2 DEF IsCounted
  <2> QED BY <2>1
<1>4. \A k, l \in DOMAIN w : k # l => at[k] \cap at[l] = {}
  BY DEF IsCounted
<1>5. \A i \in DOMAIN s : \E k \in DOMAIN w : i \in at[k]
  BY DEF IsCounted
<1> DEFINE D == DOMAIN s
<1>6. at \in [DOMAIN w -> SUBSET D] /\ IsFiniteSet(D) /\ Cardinality(D) = Len(s)
  BY <1>2 DEF IsCounted
<1>7. \A i \in D : \E k \in DOMAIN w : i \in at[k]
  BY <1>5
<1> HIDE DEF D
<1>8. SumOf(w) = Cardinality(D)
  BY <1>3, <1>4, <1>6, <1>7, SumOfParts
<1> QED BY <1>6, <1>8

\* A set of two more elements is finite too.
LEMMA FiniteByTwo ==
  ASSUME NEW S, IsFiniteSet(S), NEW x, NEW y, NEW U, \A z : z \in U <=> z \in S \/ z = x \/ z = y
  PROVE  IsFiniteSet(U)
<1>1. IsFiniteSet(S \cup {x})
  BY FS_AddElement
<1>2. IsFiniteSet((S \cup {x}) \cup {y})
  BY <1>1, FS_AddElement
<1>3. U = (S \cup {x}) \cup {y}
  OBVIOUS
<1> QED BY <1>2, <1>3, Zenon

\* A finite set has a sequence of its elements, each of them once.
LEMMA SetAsSequence ==
  ASSUME NEW V, IsFiniteSet(V)
  PROVE  /\ Cardinality(V) \in Nat /\ SetToSeq(V) \in [1..Cardinality(V) -> V]
         /\ \A k, l \in DOMAIN SetToSeq(V) : SetToSeq(V)[k] = SetToSeq(V)[l] => k = l
         /\ \A v \in V : \E k \in DOMAIN SetToSeq(V) : SetToSeq(V)[k] = v
<1> DEFINE n == Cardinality(V)
<1>1. n \in Nat /\ ExistsBijection(1..n, V)
  BY FS_CardinalityType
<1>2. PICK g : g \in Bijection(1..n, V)
  BY <1>1 DEF ExistsBijection
<1>3. g \in [1..n -> V] /\ IsInjective(g)
  <2> HIDE DEF n
  <2> QED BY <1>2 DEF Bijection, Injection, IsInjective
<1>4. SetToSeq(V) \in [1..n -> V] /\ IsInjective(SetToSeq(V))
  <2> DEFINE f == CHOOSE f \in [1..n -> V] : IsInjective(f)
  <2>1. f \in [1..n -> V] /\ IsInjective(f)
    <3> HIDE DEF n
    <3> QED BY <1>3
  <2>2. SetToSeq(V) = f
    BY DEF SetToSeq
  <2> QED BY <2>1, <2>2
<1> DEFINE q == SetToSeq(V)
<1>5. q \in Injection(1..n, V)
  <2> HIDE DEF n, q
  <2> QED BY <1>4 DEF Injection, IsInjective, q
<1>6. IsFiniteSet(1..n) /\ Cardinality(1..n) = n
  <2> HIDE DEF n
  <2> QED BY <1>1, FS_Interval
<1>7. q \in Surjection(1..n, V)
  <2>1. Cardinality(1..n) = Cardinality(V)
    BY <1>6
  <2> HIDE DEF n, q
  <2> QED BY <1>5, <2>1, FS_Injection
<1>8. DOMAIN q = 1..n
  BY <1>4
<1>9. \A v \in V : \E k \in DOMAIN q : q[k] = v
  <2> HIDE DEF n, q
  <2> QED BY <1>7, <1>8 DEF Surjection
<1>10. \A k, l \in DOMAIN q : q[k] = q[l] => k = l
  <2> HIDE DEF n, q
  <2> QED BY <1>5, <1>8 DEF Injection, IsInjective
<1> QED BY <1>1, <1>4, <1>9, <1>10

-----------------------------------------------------------------------------
(* Sequences that repeat nothing.                                            *)

\* A list of one element, or of none.
LEMMA ShortLists ==
  ASSUME NEW S
  PROVE  <<>> \in Seq(S) /\ \A x \in S : <<x>> \in Seq(S)
OBVIOUS

\* A sequence whose elements are all in U is one of elements of U.
LEMMA SeqInto ==
  ASSUME NEW T, NEW s \in Seq(T), NEW U, \A k \in DOMAIN s : s[k] \in U
  PROVE  s \in Seq(U)
OBVIOUS

\* One sequence after another repeats nothing if neither does and they share nothing.
LEMMA JoinInjective ==
  ASSUME NEW T, NEW s \in Seq(T), NEW t \in Seq(T), IsInjective(s), IsInjective(t), Range(s) \cap Range(t) = {}
  PROVE  IsInjective(s \o t)
<1> DEFINE z == s \o t
           m == Len(s)
           n == Len(t)
<1>1. /\ m \in Nat /\ n \in Nat /\ DOMAIN z = 1..(m + n)
      /\ \A i \in 1..m : z[i] = s[i] /\ z[i] \in Range(s)
      /\ \A i \in (m + 1)..(m + n) : z[i] = t[i - m] /\ i - m \in 1..n /\ z[i] \in Range(t)
  BY DEF Range
<1>2. \A i, j \in 1..m : s[i] = s[j] => i = j
  BY DEF IsInjective
<1>3. \A i, j \in 1..n : t[i] = t[j] => i = j
  BY DEF IsInjective
<1> HIDE DEF z, m, n
<1>4. ASSUME NEW i \in DOMAIN z, NEW j \in DOMAIN z, z[i] = z[j] PROVE i = j
  <2>1. CASE i <= m /\ j <= m
    BY <1>1, <1>2, <1>4, <2>1
  <2>2. CASE i > m /\ j > m
    <3>1. i \in (m + 1)..(m + n) /\ j \in (m + 1)..(m + n)
      BY <1>1, <2>2
    <3>2. t[i - m] = t[j - m] /\ i - m \in 1..n /\ j - m \in 1..n
      BY <1>1, <1>4, <3>1
    <3>3. i - m = j - m
      BY <1>3, <3>2
    <3> QED BY <1>1, <3>1, <3>3
  <2>3. CASE i <= m /\ j > m
    <3>1. i \in 1..m /\ j \in (m + 1)..(m + n)
      BY <1>1, <2>3
    <3> QED BY <1>1, <1>4, <3>1
  <2>4. CASE i > m /\ j <= m
    <3>1. j \in 1..m /\ i \in (m + 1)..(m + n)
      BY <1>1, <2>4
    <3> QED BY <1>1, <1>4, <3>1
  <2> QED BY <1>1, <2>1, <2>2, <2>3, <2>4
<1> QED BY <1>4 DEF IsInjective, z

\* Sequences that repeat nothing and share nothing repeat nothing when they are flattened.
NothingShared(s) ==
  /\ \A i \in DOMAIN s : IsInjective(s[i])
  /\ \A i, j \in DOMAIN s : i # j => Range(s[i]) \cap Range(s[j]) = {}
LEMMA FlattenInjective ==
  ASSUME NEW T, NEW s \in Seq(Seq(T)), NothingShared(s)
  PROVE  IsInjective(FlattenSeq(s))
<1> DEFINE S == Seq(T)
           P == {u \in Seq(S) : NothingShared(u) => IsInjective(FlattenSeq(u))}
<1>1. <<>> \in P
  <2>1. IsInjective(<<>>)
    BY DEF IsInjective
  <2>2. <<>> \in Seq(S)
    BY ShortLists
  <2> HIDE DEF S
  <2> QED BY <2>1, <2>2, FlattenEmpty
<1>2. ASSUME NEW u \in P, NEW x \in S
      PROVE  Append(u, x) \in P
  <2> DEFINE z == Append(u, x)
             N == Len(u)
  <2>1. u \in Seq(S)
    OBVIOUS
  <2>2. /\ N \in Nat /\ z \in Seq(S) /\ DOMAIN u = 1..N /\ DOMAIN z = 1..(N + 1)
        /\ z[N + 1] = x /\ \A i \in 1..N : z[i] = u[i]
    <3> HIDE DEF S, P
    <3> QED BY <2>1
  <2>3. FlattenSeq(u) \in Seq(T) /\ FlattenSeq(z) = FlattenSeq(u) \o x
    BY <2>1, FlattenAppend
  <2>4. ASSUME NothingShared(z)
        PROVE  IsInjective(FlattenSeq(z))
    <3>0. /\ \A i \in 1..(N + 1) : IsInjective(z[i])
          /\ \A i, j \in 1..(N + 1) : i # j => Range(z[i]) \cap Range(z[j]) = {}
      <4> HIDE DEF z, N, S, P
      <4> QED BY <2>2, <2>4 DEF NothingShared
    <3>1. NothingShared(u) /\ IsInjective(x)
      <4>1. \A i \in 1..N : i \in 1..(N + 1) /\ z[i] = u[i]
        BY <2>2
      <4>2. z[N + 1] = x /\ N + 1 \in 1..(N + 1) /\ DOMAIN u = 1..N
        BY <2>2
      <4> HIDE DEF z, N, S, P
      <4>3. \A i \in 1..N : IsInjective(u[i])
        BY <3>0, <4>1
      <4>4. \A i, j \in 1..N : i # j => Range(u[i]) \cap Range(u[j]) = {}
        BY <3>0, <4>1
      <4>5. IsInjective(x)
        BY <3>0, <4>2
      <4> QED BY <4>2, <4>3, <4>4, <4>5 DEF NothingShared
    <3>2. IsInjective(FlattenSeq(u))
      BY <3>1
    <3>3. \A i \in 1..N : Range(u[i]) \cap Range(x) = {}
      <4>1. \A i \in 1..N : i \in 1..(N + 1) /\ z[i] = u[i] /\ i # N + 1
        BY <2>2
      <4>2. z[N + 1] = x /\ N + 1 \in 1..(N + 1)
        BY <2>2
      <4> HIDE DEF z, N, S, P
      <4> QED BY <3>0, <4>1, <4>2
    <3>4. Range(FlattenSeq(u)) = UNION {Range(u[i]) : i \in DOMAIN u}
      BY <2>1, FlattenRange
    <3>5. Range(FlattenSeq(u)) \cap Range(x) = {}
      BY <2>2, <3>3, <3>4
    <3> QED BY <2>3, <3>1, <3>2, <3>5, JoinInjective
  <2> HIDE DEF z
  <2> QED BY <2>2, <2>4 DEF z
<1>3. P = Seq(S)
  <2>1. P \in SUBSET Seq(S)
    OBVIOUS
  <2> HIDE DEF P, S
  <2> QED BY <1>1, <1>2, <2>1, SeqInduction
<1> QED BY <1>3

\* Flattening singletons gives back their elements.
LEMMA FlattenSingles ==
  ASSUME NEW T, NEW s \in Seq(T)
  PROVE  FlattenSeq([i \in DOMAIN s |-> <<s[i]>>]) = s
<1> DEFINE One(u) == [i \in DOMAIN u |-> <<u[i]>>]
           P == {u \in Seq(T) : FlattenSeq(One(u)) = u}
<1>1. <<>> \in P
  <2>1. One(<<>>) = <<>> /\ <<>> \in Seq(T)
    OBVIOUS
  <2> HIDE DEF One
  <2> QED BY <2>1, FlattenEmpty
<1>2. ASSUME NEW u \in P, NEW x \in T
      PROVE  Append(u, x) \in P
  <2> DEFINE z == Append(u, x)
             N == Len(u)
             o == One(u)
             y == <<x>>
             S == Seq(T)
  <2>1. u \in Seq(T) /\ FlattenSeq(o) = u
    OBVIOUS
  <2>2. N \in Nat /\ z \in Seq(T) /\ DOMAIN u = 1..N /\ DOMAIN z = 1..(N + 1) /\ z[N + 1] = x /\ \A i \in 1..N : z[i] = u[i]
    BY <2>1
  <2>3. y \in S /\ \A i \in 1..N : o[i] = <<u[i]>> /\ o[i] \in S
    BY <2>1, <2>2
  <2>4. o = [i \in 1..N |-> o[i]]
    BY <2>2
  <2>5. One(z) = [i \in 1..(N + 1) |-> IF i <= N THEN o[i] ELSE y]
    <3>1. ASSUME NEW i \in 1..(N + 1) PROVE <<z[i]>> = IF i <= N THEN o[i] ELSE y
      <4>1. CASE i <= N
        BY <2>2, <2>3, <4>1
      <4>2. CASE i = N + 1
        BY <2>2, <4>2
      <4> QED BY <2>2, <4>1, <4>2
    <3> QED BY <2>2, <3>1
  <2> HIDE DEF o, y, N, S
  <2>6. o \in Seq(S) /\ N = Len(o)
    <3>1. \A i \in DOMAIN u : o[i] \in S
      BY <2>2, <2>3
    <3>2. o = [i \in DOMAIN u |-> o[i]]
      BY <2>2, <2>4
    <3> HIDE DEF P
    <3> QED BY <2>1, <3>1, <3>2, SamePlaces DEF N
  <2>7. Append(o, y) = [i \in 1..(N + 1) |-> IF i <= N THEN o[i] ELSE y]
    BY <2>3, <2>6, AppendIs
  <2>8. FlattenSeq(Append(o, y)) = FlattenSeq(o) \o y
    BY <2>3, <2>6, FlattenAppend DEF S
  <2>9. u \o y = z
    BY <2>1 DEF y
  <2>10. FlattenSeq(One(z)) = z
    <3> HIDE DEF One, z
    <3> QED BY <2>1, <2>5, <2>7, <2>8, <2>9
  <2> HIDE DEF One
  <2> QED BY <2>2, <2>10
<1>3. P = Seq(T)
  <2>1. P \in SUBSET Seq(T)
    OBVIOUS
  <2> HIDE DEF P
  <2> QED BY <1>1, <1>2, <2>1, SeqInduction
<1>4. s \in P
  BY <1>3
<1> QED BY <1>4

\* Keeping all of a sequence changes nothing.
LEMMA KeptAll ==
  ASSUME NEW T, NEW s \in Seq(T)
  PROVE  KeptAt(s, DOMAIN s) = s
<1>1. [i \in DOMAIN s |-> IF i \in DOMAIN s THEN <<s[i]>> ELSE <<>>] = [i \in DOMAIN s |-> <<s[i]>>]
  OBVIOUS
<1> QED BY <1>1, FlattenSingles DEF KeptAt

\* An interval from one has as many elements as its end says.
LEMMA UpToCount ==
  ASSUME NEW n \in Nat
  PROVE  IsFiniteSet(1..n) /\ Cardinality(1..n) = n
<1>1. n \in Int /\ 1 \in Int /\ (IF 1 > n THEN 0 ELSE n - 1 + 1) = n
  OBVIOUS
<1> QED BY <1>1, FS_Interval

\* A sequence has at most as many elements as its length says.
LEMMA RangeIsSmall ==
  ASSUME NEW T, NEW s \in Seq(T)
  PROVE  IsFiniteSet(Range(s)) /\ Cardinality(Range(s)) \in Nat /\ Cardinality(Range(s)) <= Len(s)
<1> DEFINE n == Len(s)
           S == 1..n
           R == Range(s)
<1>1. n \in Nat /\ s \in Surjection(S, R)
  <2>1. n \in Nat /\ s \in [S -> R] /\ \A r \in R : \E i \in S : s[i] = r
    BY DEF Range
  <2> QED BY <2>1 DEF Surjection
<1> HIDE DEF n, R
<1>2. IsFiniteSet(S) /\ Cardinality(S) = n
  BY <1>1, UpToCount
<1> HIDE DEF S
<1>3. IsFiniteSet(R) /\ Cardinality(R) <= Cardinality(S)
  BY <1>1, <1>2, FS_Surjection
<1>4. Cardinality(R) \in Nat
  BY <1>3, FS_CardinalityType
<1> QED BY <1>2, <1>3, <1>4 DEF n, R

\* t has elements of s, none more often than s.
ComesFrom(t, s, T) == t \in Seq(T) /\ Range(t) \in SUBSET Range(s) /\ (IsInjective(s) => IsInjective(t))

\* The combinations kept at some places come from those there were, and are not more.
LEMMA KeptComesFrom ==
  ASSUME NEW T, NEW s \in Seq(T), NEW I \in SUBSET DOMAIN s
  PROVE  /\ ComesFrom(KeptAt(s, I), s, T)
         /\ Range(KeptAt(s, I)) = {s[i] : i \in I}
         /\ Len(KeptAt(s, I)) = Cardinality(I) /\ Cardinality(I) \in Nat /\ Cardinality(I) <= Len(s)
<1>1. KeptAt(s, I) \in Seq(T) /\ Range(KeptAt(s, I)) = {s[i] : i \in DOMAIN s \cap I}
  BY KeptRange
<1>2. DOMAIN s \cap I = I
  OBVIOUS
<1>3. Range(KeptAt(s, I)) \in SUBSET Range(s)
  BY <1>1 DEF Range
<1>4. ASSUME IsInjective(s) PROVE IsInjective(KeptAt(s, I))
  <2>1. \A i, j \in DOMAIN s : s[i] = s[j] => i = j
    BY <1>4 DEF IsInjective
  <2>2. \A i, j \in DOMAIN KeptAt(s, I) : KeptAt(s, I)[i] = KeptAt(s, I)[j] => i = j
    BY <2>1, KeptInjective
  <2> QED BY <2>2 DEF IsInjective
<1>5. Len(KeptAt(s, I)) = Cardinality(I)
  BY KeptLength
<1>6. Cardinality(I) \in Nat /\ Cardinality(I) <= Len(s)
  <2> DEFINE D == DOMAIN s
  <2>1. Len(s) \in Nat /\ D = 1..Len(s)
    OBVIOUS
  <2>2. IsFiniteSet(D) /\ Cardinality(D) = Len(s)
    BY <2>1, UpToCount
  <2> HIDE DEF D
  <2>3. I \in SUBSET D
    BY DEF D
  <2>4. IsFiniteSet(I) /\ Cardinality(I) <= Cardinality(D)
    BY <2>2, <2>3, FS_Subset
  <2> QED BY <2>2, <2>4, FS_CardinalityType
<1> QED BY <1>1, <1>2, <1>3, <1>4, <1>5, <1>6 DEF ComesFrom
==============================================================================
