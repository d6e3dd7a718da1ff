--------------------------- MODULE TopologyProofs ---------------------------
(***************************************************************************)
(* Proofs about Topology, for every number of devices, channels and rounds *)
(* and every topology: type correctness, and that a device connects only   *)
(* to sockets that are bound now.  When every link joins a bind channel    *)
(* with a connect channel of another service, and the operator sends       *)
(* commands for one transition each or every bind channel has a peer       *)
(* (Orderly), ResolveConnectAddress finds the addresses it takes for       *)
(* granted, devices pair up by index, and every sub-socket whose number    *)
(* has one digit has one peer.                                             *)
(*                                                                         *)
(* The loops and std::sort need induction.  It is taken from the well-     *)
(* foundedness of < on the naturals, the induction hypothesis being that a *)
(* number is in a set.                                                     *)
(***************************************************************************)
EXTENDS Topology, FiniteSetTheorems, WellFoundedInduction, TLAPS

-----------------------------------------------------------------------------
(* Induction, iteration and sorting, for the loops over the peers.         *)

\* A set of naturals has a least element.
LEMMA Least ==
    ASSUME NEW T \in SUBSET Nat, T # {}
    PROVE  \E n \in T : \A m \in T : n <= m
<1>1. PICK n \in T : \A m \in T : ~ (<<m, n>> \in OpToRel(<, Nat))
    BY NatLessThanWellFounded, WFMin
<1>2. \A m \in T : m < n => <<m, n>> \in OpToRel(<, Nat)
    BY DEF OpToRel
<1>3. \A m \in T : ~ (m < n)
    BY <1>1, <1>2
<1>4. \A m \in T : n <= m
    BY <1>3
<1> QED
    BY <1>4

\* Induction up to n, the induction hypothesis being membership in a set.
LEMMA UpTo ==
    ASSUME NEW n \in Nat, NEW S, 0 \in S,
           \A i \in 1..n : i - 1 \in S => i \in S
    PROVE  0..n \subseteq S
<1> DEFINE T == {i \in 0..n : i \notin S}
<1>1. SUFFICES ASSUME T # {} PROVE FALSE
    OBVIOUS
<1>2. T \in SUBSET Nat
    OBVIOUS
<1>3. PICK i \in T : \A j \in T : i <= j
    BY <1>1, <1>2, Least
<1>4. i \in 1..n /\ i - 1 \in 0..n /\ i - 1 \notin T
    BY <1>3
<1> QED
    BY <1>3, <1>4

\* Induction over all naturals.
LEMMA AllNaturals ==
    ASSUME NEW S, 0 \in S, \A i \in Nat : i \in S => i + 1 \in S
    PROVE  Nat \subseteq S
<1> SUFFICES ASSUME NEW n \in Nat PROVE n \in S
    OBVIOUS
<1>1. \A i \in 1..n : i - 1 \in S => i \in S
  <2> SUFFICES ASSUME NEW i \in 1..n, i - 1 \in S PROVE i \in S
    OBVIOUS
  <2>1. i - 1 \in Nat /\ (i - 1) + 1 = i
    OBVIOUS
  <2> QED
    BY <2>1
<1>2. 0..n \subseteq S
    BY <1>1, UpTo
<1> QED
    BY <1>2

\* A step that stays in V can be iterated n times from a start in V.
IsStep(n, V, z, G) ==
    n \in Nat /\ z \in V /\ G \in [V \X (1..n) -> V]

\* The sequence of the values.
Iterates(n, V, z, G) ==
    \E r \in [0..n -> V] : /\ r[0] = z
                           /\ \A i \in 1..n : r[i] = G[<<r[i - 1], i>>]

\* It exists.
LEMMA Iteration ==
    ASSUME NEW n, NEW V, NEW z, NEW G, IsStep(n, V, z, G)
    PROVE  Iterates(n, V, z, G)
<1> USE DEF IsStep
<1> DEFINE Good(m, r) == /\ r[0] = z
                         /\ \A i \in 1..m : r[i] = G[<<r[i - 1], i>>]
           S == {m \in 0..n : \E r \in [0..m -> V] : Good(m, r)}
<1>1. 0 \in S
  <2> DEFINE f == [i \in 0..0 |-> z]
  <2>1. f \in [0..0 -> V] /\ Good(0, f)
    OBVIOUS
  <2> HIDE DEF f
  <2> QED
    BY <2>1
<1>2. ASSUME NEW m \in 1..n, m - 1 \in S PROVE m \in S
  <2>1. PICK r \in [0..(m - 1) -> V] : Good(m - 1, r)
    BY <1>2
  <2> DEFINE q == [i \in 0..m |-> IF i = m THEN G[<<r[m - 1], m>>] ELSE r[i]]
  <2>2. r[m - 1] \in V /\ G[<<r[m - 1], m>>] \in V
    BY <2>1
  <2>3. q \in [0..m -> V]
    BY <2>1, <2>2
  <2>4. Good(m, q)
    <3>1. q[0] = z
      BY <2>1
    <3>2. ASSUME NEW i \in 1..m PROVE q[i] = G[<<q[i - 1], i>>]
      <4>1. i - 1 \in 0..(m - 1) /\ i - 1 # m
        OBVIOUS
      <4>2. CASE i = m
        BY <4>1, <4>2
      <4>3. CASE i # m
        <5>1. i \in 1..(m - 1)
            BY <4>3
        <5> QED
            BY <4>1, <4>3, <5>1, <2>1
      <4> QED
        BY <4>2, <4>3
    <3> QED
      BY <3>1, <3>2
  <2> HIDE DEF q
  <2> QED
    BY <2>3, <2>4
<1>3. n \in S
  <2> HIDE DEF S
  <2>1. 0..n \subseteq S
    BY <1>1, <1>2, UpTo
  <2> QED
    BY <2>1
<1> QED
    BY <1>3 DEF Iterates

\* A concatenation has the elements of both sequences.
LEMMA Concatenation ==
    ASSUME NEW S, NEW s \in Seq(S), NEW t \in Seq(S)
    PROVE  ToSet(s \o t) = ToSet(s) \union ToSet(t)
<1>1. ASSUME NEW a \in ToSet(s \o t) PROVE a \in ToSet(s) \union ToSet(t)
  <2>1. PICK i \in 1..(Len(s) + Len(t)) : a = (s \o t)[i]
    BY DEF ToSet
  <2>2. CASE i <= Len(s)
    BY <2>1, <2>2 DEF ToSet
  <2>3. CASE i > Len(s)
    <3>1. a = t[i - Len(s)] /\ i - Len(s) \in 1..Len(t)
      BY <2>1, <2>3
    <3> QED
      BY <3>1 DEF ToSet
  <2> QED
    BY <2>2, <2>3
<1>2. ASSUME NEW i \in 1..Len(s) PROVE s[i] \in ToSet(s \o t)
  <2>1. i \in 1..Len(s \o t) /\ (s \o t)[i] = s[i]
    OBVIOUS
  <2> QED
    BY <2>1 DEF ToSet
<1>3. ASSUME NEW i \in 1..Len(t) PROVE t[i] \in ToSet(s \o t)
  <2>1. Len(s) + i \in 1..Len(s \o t) /\ (s \o t)[Len(s) + i] = t[i]
    OBVIOUS
  <2> QED
    BY <2>1 DEF ToSet
<1>4. /\ \A a \in ToSet(s) : \E i \in 1..Len(s) : a = s[i]
      /\ \A a \in ToSet(t) : \E i \in 1..Len(t) : a = t[i]
    BY DEF ToSet
<1> QED
    BY <1>1, <1>2, <1>3, <1>4

\* The elements of a concatenation, by their places.
LEMMA Parts ==
    ASSUME NEW S, NEW x \in Seq(S), NEW y \in Seq(S)
    PROVE  /\ Len(x \o y) = Len(x) + Len(y)
           /\ \A i \in 1..Len(x) : (x \o y)[i] = x[i]
           /\ \A i \in 1..Len(y) : (x \o y)[Len(x) + i] = y[i]
<1>1. ASSUME NEW i \in 1..Len(x) PROVE (x \o y)[i] = x[i]
    OBVIOUS
<1>2. ASSUME NEW i \in 1..Len(y) PROVE (x \o y)[Len(x) + i] = y[i]
    OBVIOUS
<1> QED
    BY <1>1, <1>2

\* To append the one element of a sequence is to append the sequence.
LEMMA OneMore ==
    ASSUME NEW S, NEW x \in Seq(S), NEW y \in Seq(S)
    PROVE  Len(y) = 1 => x \o y = Append(x, y[1])
<1> DEFINE u == x \o y
           n == Len(x)
           m == Len(y)
<1>1. /\ u \in Seq(S) /\ Len(u) = n + m /\ n \in Nat /\ m \in Nat
      /\ \A i \in 1..n : u[i] = x[i]
      /\ \A i \in 1..m : u[n + i] = y[i] /\ y[i] \in S
    BY Parts
<1> HIDE DEF u, m
<1>2. SUFFICES ASSUME m = 1 PROVE u = Append(x, y[1])
    BY DEF u, m
<1> DEFINE v == Append(x, y[1])
<1>3. y[1] \in S /\ u[n + 1] = y[1] /\ Len(u) = n + 1
    BY <1>1, <1>2
<1>4. /\ v \in Seq(S) /\ Len(v) = n + 1 /\ v[n + 1] = y[1]
      /\ \A i \in 1..n : v[i] = x[i]
    BY <1>3
<1> HIDE DEF v, n
<1>5. \A j \in 1..(n + 1) : u[j] = v[j]
  <2>1. \A j \in 1..(n + 1) : j \in 1..n \/ j = n + 1
    BY <1>1
  <2> QED
    BY <1>1, <1>3, <1>4, <2>1
<1>6. u = v
    BY <1>1, <1>3, <1>4, <1>5
<1> QED
    BY <1>6 DEF v

-----------------------------------------------------------------------------
(* The texts of the numbers of sub-sockets.                                *)

\* A text of one digit starts with no other number's text.
LEMMA OneDigit ==
    ASSUME NEW i \in 0..(Base - 1), NEW j \in 0..(Base - 1), StartsWith(j, i)
    PROVE  i = j
<1> DEFINE V == 0..(Base - 1)
           G == [x \in V \X (1..j) |-> x[1] \div Base]
           cut == CHOOSE q : q = [m \in 0..j |-> IF m = 0 THEN j
                                                 ELSE q[m - 1] \div Base]
<1>1. Base \in Nat /\ Base >= 2 /\ j \in Nat /\ j \in V
    BY TopologyAssumption
<1>2. \A x \in V : x \div Base = 0 /\ 0 \in V
    BY <1>1
<1>3. PICK m \in 0..j : cut[m] = i /\ (m > 0 => i > 0)
    BY DEF StartsWith
<1> HIDE DEF V
<1>4. /\ G \in [V \X (1..j) -> V]
      /\ \A v \in V, l \in 1..j : G[<<v, l>>] = v \div Base
    BY <1>2
<1> HIDE DEF G, cut
<1>5. PICK q \in [0..j -> V] :
          q[0] = j /\ \A l \in 1..j : q[l] = G[<<q[l - 1], l>>]
  <2>1. IsStep(j, V, j, G)
    BY <1>1, <1>4 DEF IsStep
  <2>2. Iterates(j, V, j, G)
    BY <2>1, Iteration
  <2> QED
    BY <2>2 DEF Iterates
<1>6. \A l \in 1..j : /\ l - 1 \in 0..j /\ q[l - 1] \in V
                      /\ q[l] = q[l - 1] \div Base
  <2>1. \A l \in 1..j : l - 1 \in 0..j
    BY <1>1
  <2>2. \A l \in 1..j : q[l - 1] \in V
    BY <1>5, <2>1
  <2> QED
    BY <1>4, <1>5, <2>1, <2>2
<1>7. q = [l \in 0..j |-> IF l = 0 THEN j ELSE q[l - 1] \div Base]
    BY <1>1, <1>5, <1>6
<1>8. cut = [l \in 0..j |-> IF l = 0 THEN j ELSE cut[l - 1] \div Base]
    BY <1>7 DEF cut
<1> DEFINE S == {l \in 0..j : cut[l] \in V}
<1>9. cut[0] = j /\ \A l \in 1..j : cut[l] = cut[l - 1] \div Base
    BY <1>1, <1>8
<1>10. 0 \in S
    BY <1>1, <1>9
<1>11. ASSUME NEW l \in 1..j, l - 1 \in S PROVE l \in S
  <2>1. cut[l - 1] \in V /\ cut[l] = cut[l - 1] \div Base
    BY <1>9, <1>11
  <2>2. cut[l] = 0 /\ 0 \in V
    BY <1>2, <2>1
  <2>3. cut[l] \in V /\ l \in 0..j
    BY <1>1, <2>2
  <2> QED
    BY <2>3
<1>12. 0..j \subseteq S
  <2> HIDE DEF S
  <2> QED
    BY <1>1, <1>10, <1>11, UpTo
<1>13. CASE m = 0
    BY <1>3, <1>9, <1>13
<1>14. CASE m > 0
  <2>1. m \in 1..j /\ m - 1 \in 0..j
    BY <1>1, <1>3, <1>14
  <2>2. cut[m - 1] \in V
    BY <1>12, <2>1
  <2>3. cut[m] = 0
    BY <1>2, <1>9, <2>1, <2>2
  <2> QED
    BY <1>3, <1>14, <2>3
<1> QED
    BY <1>1, <1>3, <1>13, <1>14

\* The place of a sub-socket among n is one of the n places.
LEMMA RankRange ==
    ASSUME NEW n \in Nat, NEW i \in 0..(n - 1)
    PROVE  Rank(i, n) \in 0..(n - 1)
<1> DEFINE A == 0..(n - 1)
           T == {j \in A \ {i} : TextBefore(j, i)}
<1>1. IsFiniteSet(A) /\ Cardinality(A) = n
    BY FS_Interval
<1>2. IsFiniteSet(A \ {i}) /\ Cardinality(A \ {i}) = n - 1
    BY <1>1, FS_RemoveElement
<1>3. T \subseteq A \ {i}
    OBVIOUS
<1> HIDE DEF T
<1>4. IsFiniteSet(T) /\ Cardinality(T) <= Cardinality(A \ {i})
    BY <1>2, <1>3, FS_Subset
<1>6. Cardinality(T) \in Nat
    BY <1>4, FS_CardinalityType
<1>5. Rank(i, n) = Cardinality(T)
    BY DEF Rank, T
<1> QED
    BY <1>2, <1>4, <1>5, <1>6

\* The published addresses are addresses of the channel, as many as it has, and
\* the same list as long as the numbers of the sub-sockets have one digit.
LEMMA PublishedList ==
    ASSUME NEW S, NEW list \in Seq(S)
    PROVE  /\ Published(list) \in Seq(S) /\ Len(Published(list)) = Len(list)
           /\ ToSet(Published(list)) \subseteq ToSet(list)
           /\ Len(list) <= Base => Published(list) = list
<1> DEFINE n == Len(list)
           U(t) == {u \in t..n : Alike(t, u, n)}
           f == [t \in 1..n |-> list[Max(U(t))]]
<1>1. n \in Nat /\ Base \in Nat
    BY TopologyAssumption
<1>2. Published(list) = f
    BY DEF Published
<1>3. ASSUME NEW t \in 1..n
      PROVE  Max(U(t)) \in U(t) /\ Max(U(t)) \in 1..n
  <2> DEFINE T == {v \in 0..n : n - v \in U(t)}
  <2>1. t \in U(t) /\ U(t) \subseteq 1..n
    BY <1>1 DEF Alike
  <2> HIDE DEF U
  <2>2. T \in SUBSET Nat /\ n - t \in T
    BY <1>1, <2>1
  <2>3. PICK v \in T : \A w \in T : v <= w
    BY <2>2, Least
  <2>4. n - v \in U(t) /\ \A u \in U(t) : n - v >= u
    <3>1. ASSUME NEW u \in U(t) PROVE n - v >= u
      <4>1. u \in 1..n /\ n - u \in 0..n /\ n - (n - u) = u
        BY <1>1, <2>1
      <4>2. n - u \in T
        BY <4>1
      <4>3. v \in 0..n /\ v <= n - u
        BY <2>3, <4>2
      <4> QED
        BY <1>1, <4>1, <4>3
    <3> QED
      BY <2>3, <3>1
  <2>5. Max(U(t)) \in U(t)
    BY <2>4 DEF Max
  <2> QED
    BY <2>1, <2>5
<1>4. ASSUME n <= Base, NEW t \in 1..n PROVE Max(U(t)) = t
  <2>1. ASSUME NEW u \in t..n, Alike(t, u, n) PROVE u = t
    <3>1. CASE \E i, j \in 0..(n - 1) : /\ Rank(i, n) = t - 1
                                        /\ Rank(j, n) = u - 1
                                        /\ StartsWith(j, i)
      <4>1. PICK i \in 0..(n - 1), j \in 0..(n - 1) :
                /\ Rank(i, n) = t - 1 /\ Rank(j, n) = u - 1 /\ StartsWith(j, i)
        BY <3>1
      <4>2. i \in 0..(Base - 1) /\ j \in 0..(Base - 1)
        BY <1>1, <1>4
      <4>3. i = j
        BY <4>1, <4>2, OneDigit
      <4> QED
        BY <1>1, <4>1, <4>3
    <3> QED
      BY <2>1, <3>1 DEF Alike
  <2>2. Max(U(t)) \in U(t)
    BY <1>3
  <2> HIDE DEF n
  <2> QED
    BY <2>1, <2>2
<1> HIDE DEF U
<1>5. \A t \in 1..n : f[t] = list[Max(U(t))] /\ f[t] \in S /\ f[t] \in ToSet(list)
    BY <1>3 DEF ToSet
<1>6. f \in Seq(S) /\ Len(f) = n
    BY <1>1, <1>5
<1>7. ToSet(f) \subseteq ToSet(list)
    BY <1>1, <1>5, <1>6 DEF ToSet
<1>8. n <= Base => f = list
    BY <1>1, <1>4
<1> QED
    BY <1>2, <1>6, <1>7, <1>8

-----------------------------------------------------------------------------
\* The parts of a key.
LEMMA Keys ==
    ASSUME NEW k \in Key
    PROVE  /\ k[1] \in Device /\ k[2] \in Channel /\ k = <<k[1], k[2]>>
           /\ k[1].service \in Nat /\ k[1].index \in Nat /\ k[2] \in Nat
<1>1. k[1] \in Device /\ k[2] \in Channel /\ k = <<k[1], k[2]>>
    BY DEF Key
<1>2. Device \subseteq [service : Nat, index : Nat] /\ Channel \subseteq Nat
    BY TopologyAssumption
<1>3. k[1] \in [service : Nat, index : Nat]
    BY <1>1, <1>2
<1> QED
    BY <1>1, <1>2, <1>3

\* Before orders the keys completely.
LEMMA Ordered ==
    ASSUME NEW k \in Key, NEW l \in Key, k # l
    PROVE  Before(k, l) \/ Before(l, k)
<1>1. {k[1], l[1]} \subseteq [service : Nat, index : Nat]
    BY Keys, TopologyAssumption
<1>2. k[1].service = l[1].service /\ k[1].index = l[1].index => k[1] = l[1]
    BY <1>1
<1>3. k[1] = l[1] => k[2] # l[2]
    BY Keys
<1> QED
    BY <1>2, <1>3, Keys DEF Before

\* A set of keys has a first one.
LEMMA First ==
    ASSUME NEW S \in SUBSET Key, S # {}
    PROVE  \E m \in S : \A k \in S \ {m} : Before(m, k)
<1> DEFINE A == {k[1].service : k \in S}
<1>1. PICK a \in S : \A k \in S : a[1].service <= k[1].service
  <2>1. A \in SUBSET Nat /\ A # {}
    BY Keys
  <2>2. PICK n \in A : \A m \in A : n <= m
    BY <2>1, Least
  <2> QED
    BY <2>2
<1> DEFINE SB == {k \in S : k[1].service = a[1].service}
           B == {k[1].index : k \in SB}
<1>2. PICK b \in SB : \A k \in SB : b[1].index <= k[1].index
  <2>1. B \in SUBSET Nat /\ B # {}
    BY Keys
  <2>2. PICK n \in B : \A m \in B : n <= m
    BY <2>1, Least
  <2> QED
    BY <2>2
<1> DEFINE SC == {k \in SB : k[1].index = b[1].index}
           C == {k[2] : k \in SC}
<1>3. PICK c \in SC : \A k \in SC : c[2] <= k[2]
  <2>1. C \in SUBSET Nat /\ C # {}
    BY Keys
  <2>2. PICK n \in C : \A m \in C : n <= m
    BY <2>1, Least
  <2> QED
    BY <2>2
<1>4. ASSUME NEW k \in S \ {c} PROVE ~ Before(k, c)
    BY <1>1, <1>2, <1>3, Keys DEF Before
<1> QED
    BY <1>3, <1>4, Ordered

\* What std::sort leaves: every key once, in order.
Ordering(s, S) ==
    /\ s \in SetToSeqs(S)
    /\ \A i, j \in 1..Cardinality(S) : i < j => Before(s[i], s[j])

\* It exists: take the first of the keys and then the ordering of the others.
LEMMA OrderingExists ==
    ASSUME NEW S \in SUBSET Key, IsFiniteSet(S)
    PROVE  \E s : Ordering(s, S)
<1> DEFINE N == {n \in Nat : \A U \in SUBSET Key :
                    IsFiniteSet(U) /\ Cardinality(U) = n =>
                    \E s : Ordering(s, U)}
<1>1. 0 \in N
  <2> SUFFICES ASSUME NEW U \in SUBSET Key, IsFiniteSet(U), Cardinality(U) = 0
               PROVE  \E s : Ordering(s, U)
    OBVIOUS
  <2>1. U = {}
    BY FS_EmptySet
  <2>2. Ordering([i \in 1..0 |-> 0], U)
    BY <2>1 DEF Ordering, SetToSeqs
  <2> QED
    BY <2>2
<1>2. ASSUME NEW n \in Nat, n \in N PROVE n + 1 \in N
  <2> SUFFICES ASSUME NEW U \in SUBSET Key, IsFiniteSet(U),
                      Cardinality(U) = n + 1
               PROVE  \E s : Ordering(s, U)
    OBVIOUS
  <2>1. U # {}
    BY FS_EmptySet
  <2>2. PICK m \in U : \A k \in U \ {m} : Before(m, k)
    BY <2>1, First
  <2>3. /\ IsFiniteSet(U \ {m}) /\ Cardinality(U \ {m}) = n
        /\ U \ {m} \in SUBSET Key
    <3>1. /\ IsFiniteSet(U \ {m})
          /\ Cardinality(U \ {m}) = Cardinality(U) - 1
      BY FS_RemoveElement
    <3> QED
      BY <3>1
  <2>4. PICK s : Ordering(s, U \ {m})
    BY <1>2, <2>3
  <2>5. /\ s \in [1..n -> U \ {m}]
        /\ \A i, j \in 1..n : i # j => s[i] # s[j]
        /\ \A i, j \in 1..n : i < j => Before(s[i], s[j])
    BY <2>3, <2>4 DEF Ordering, SetToSeqs
  <2> DEFINE q == [i \in 1..(n + 1) |-> IF i = 1 THEN m ELSE s[i - 1]]
  <2>6. \A i \in 2..(n + 1) : i - 1 \in 1..n /\ q[i] = s[i - 1]
    OBVIOUS
  <2>7. q[1] = m
    OBVIOUS
  <2>8. q \in [1..(n + 1) -> U]
    BY <2>5, <2>6
  <2> HIDE DEF q
  <2>9. \A i, j \in 1..(n + 1) : i # j => q[i] # q[j]
    <3>1. \A i \in 2..(n + 1) : q[i] # m
      BY <2>5, <2>6
    <3>2. \A i, j \in 2..(n + 1) : i # j => q[i] # q[j]
      <4> SUFFICES ASSUME NEW i \in 2..(n + 1), NEW j \in 2..(n + 1), i # j
                   PROVE  q[i] # q[j]
        OBVIOUS
      <4>1. i - 1 # j - 1
        OBVIOUS
      <4> QED
        BY <4>1, <2>5, <2>6
    <3> QED
      BY <3>1, <3>2, <2>7
  <2>10. \A i, j \in 1..(n + 1) : i < j => Before(q[i], q[j])
    <3> SUFFICES ASSUME NEW i \in 1..(n + 1), NEW j \in 1..(n + 1), i < j
                 PROVE  Before(q[i], q[j])
      OBVIOUS
    <3>1. CASE i = 1
      BY <3>1, <2>2, <2>5, <2>6, <2>7
    <3>2. CASE i # 1
      <4>1. i \in 2..(n + 1) /\ j \in 2..(n + 1) /\ i - 1 < j - 1
        BY <3>2
      <4> QED
        BY <4>1, <2>5, <2>6
    <3> QED
      BY <3>1, <3>2
  <2>11. Ordering(q, U)
    BY <2>8, <2>9, <2>10 DEF Ordering, SetToSeqs
  <2> QED
    BY <2>11
<1>3. Nat \subseteq N
  <2> HIDE DEF N
  <2> QED
    BY <1>1, <1>2, AllNaturals
<1> QED
    BY <1>3, FS_CardinalityType

\* SortedKeys sorts.
LEMMA Sorts ==
    ASSUME NEW S \in SUBSET Key, IsFiniteSet(S)
    PROVE  /\ Ordering(SortedKeys(S), S)
           /\ SortedKeys(S) \in Seq(S) /\ Len(SortedKeys(S)) = Cardinality(S)
<1>1. Ordering(SortedKeys(S), S)
    BY OrderingExists DEF Ordering, SortedKeys
<1>2. Cardinality(S) \in Nat
    BY FS_CardinalityType
<1> QED
    BY <1>1, <1>2 DEF Ordering, SetToSeqs

\* Nothing is lost: an injection from 1..n to a set of n elements is onto.
LEMMA SortsAll ==
    ASSUME NEW S \in SUBSET Key, IsFiniteSet(S)
    PROVE  ToSet(SortedKeys(S)) = S
<1> DEFINE n == Cardinality(S)
           s == SortedKeys(S)
<1>1. n \in Nat /\ Len(s) = n
    BY Sorts, FS_CardinalityType
<1>2. s \in [1..n -> S] /\ \A i, j \in 1..n : i # j => s[i] # s[j]
    BY Sorts DEF Ordering, SetToSeqs
<1> HIDE DEF s
<1>3. s \in Injection(1..n, S)
    BY <1>2 DEF Injection, IsInjective
<1>4. Cardinality(1..n) = n
  <2>1. IsFiniteSet(1..n)
          /\ Cardinality(1..n) = IF 1 > n THEN 0 ELSE n - 1 + 1
    BY <1>1, FS_Interval
  <2> QED
    BY <1>1, <2>1
<1>5. s \in Surjection(1..n, S)
    BY <1>3, <1>4, FS_Injection
<1> QED
    BY <1>1, <1>2, <1>5 DEF Surjection, ToSet, s

-----------------------------------------------------------------------------
(* What the loops over the peers return.                                   *)

\* A place is a position in the list, from 0, or its length.
LEMMA Places ==
    ASSUME NEW s \in Seq(Key), NEW k
    PROVE  /\ PlaceIn(s, k) \in 0..Len(s)
           /\ k \in ToSet(s) => /\ PlaceIn(s, k) < Len(s)
                               /\ s[PlaceIn(s, k) + 1] = k
<1> DEFINE I == {i \in 1..Len(s) : s[i] = k}
<1>1. I \in SUBSET Nat /\ Len(s) \in Nat
    OBVIOUS
<1>2. SelectInSeq(s, LAMBDA n : n = k) = IF I # {} THEN Min(I) ELSE 0
    BY DEF SelectInSeq
<1>3. CASE I = {}
  <2>1. k \notin ToSet(s)
    BY <1>3 DEF ToSet
  <2> QED
    BY <1>1, <1>2, <1>3, <2>1 DEF PlaceIn
<1>4. CASE I # {}
  <2>1. \E i \in I : \A j \in I : i <= j
    BY <1>1, <1>4, Least
  <2>2. Min(I) \in I
    BY <2>1 DEF Min
  <2>3. PlaceIn(s, k) = Min(I) - 1
    BY <1>1, <1>2, <1>4, <2>2 DEF PlaceIn
  <2> QED
    BY <1>1, <2>2, <2>3
<1> QED
    BY <1>3, <1>4

\* The addresses in the registry, and the values of r in ResolvedUpTo.
Addresses == UNION {ToSet(socketKey[p]) : p \in Key}

Results == [found : Seq(Addresses), peerIndex : Nat, is1to1 : BOOLEAN,
            stop : BOOLEAN, undefined : BOOLEAN]

\* What the registry and the channels of a device hold.
Lists ==
    /\ numSockets \in [Key -> Nat]
    /\ channelKey \in [Key -> [bound : BOOLEAN, numSockets : Nat]]
    /\ peerKey \in [Key -> Seq(Key)]
    /\ \A k \in Key : socketKey[k] \in Seq(Addresses)

\* One round of the loop: its result, and when a check fails.
Missing(k, p) ==
    \/ Len(socketKey[p]) = 0
    \/ Len(socketKey[p]) # 1 /\ channelKey[p].numSockets <= 1
    \/ /\ channelKey[p].numSockets > 1
       /\ PlaceIn(peerKey[p], k) >= Len(socketKey[p])

\* A round returns a result, and fails only over a peer that is missing.
LEMMA ResolvePeerResult ==
    ASSUME Lists, NEW k \in Key, NEW p \in Key, NEW r \in Results
    PROVE  /\ ResolvePeer(k, peerKey[k], r, p) \in Results
           /\ ResolvePeer(k, peerKey[k], r, p).undefined =>
                 r.undefined \/ Missing(k, p)
<1> DEFINE myIndex == PlaceIn(peerKey[p], k)
           found   == socketKey[p]
           mine    == numSockets[k]
           theirs  == channelKey[p].numSockets
           next    == [r EXCEPT !.peerIndex = @ + 1]
           Take(i, f) == IF i < Len(found) THEN [next EXCEPT !.found = f]
                                           ELSE [next EXCEPT !.undefined = TRUE]
           R == ResolvePeer(k, peerKey[k], r, p)
<1>1. R = IF r.stop \/ r.undefined THEN r
          ELSE IF r.is1to1 /\ myIndex # r.peerIndex THEN next
          ELSE CASE mine <= 1 /\ theirs <= 1 ->
                      IF myIndex = r.peerIndex \/ Len(peerKey[k]) = 1
                      THEN [Take(0, <<found[1]>>) EXCEPT !.stop = TRUE]
                      ELSE [next EXCEPT !.is1to1 = TRUE]
                 [] mine <= 1 /\ theirs > 1 ->
                      Take(myIndex, <<found[myIndex + 1]>>)
                 [] mine > 1 /\ theirs <= 1 ->
                      IF Len(found) = 1 THEN [next EXCEPT !.found = @ \o found]
                                        ELSE [next EXCEPT !.undefined = TRUE]
                 [] mine > 1 /\ theirs > 1 ->
                      Take(myIndex, Append(r.found, found[myIndex + 1]))
    BY DEF ResolvePeer, ReadPeerAddress
<1>2. myIndex \in Nat /\ found \in Seq(Addresses) /\ mine \in Nat /\ theirs \in Nat
    BY Places DEF Lists
<1>3. \/ Len(found) = 0
      \/ Len(found) # 1 /\ theirs <= 1
      \/ theirs > 1 /\ myIndex >= Len(found)
      => Missing(k, p)
    BY DEF Missing
<1> SUFFICES R \in Results /\ (R.undefined => r.undefined \/ Missing(k, p))
    OBVIOUS
<1> HIDE DEF myIndex, found, mine, theirs, R, Missing
<1>4. next \in Results /\ next.undefined = r.undefined /\ next.found = r.found
    BY DEF Results
<1>5. ASSUME NEW q \in Results, NEW f \in Seq(Addresses)
      PROVE  /\ [q EXCEPT !.found = f] \in Results
             /\ [q EXCEPT !.found = f].undefined = q.undefined
             /\ [q EXCEPT !.undefined = TRUE] \in Results
             /\ [q EXCEPT !.stop = TRUE] \in Results
             /\ [q EXCEPT !.stop = TRUE].undefined = q.undefined
             /\ [q EXCEPT !.is1to1 = TRUE] \in Results
             /\ [q EXCEPT !.is1to1 = TRUE].undefined = q.undefined
    BY DEF Results
<1>6. ASSUME NEW i \in Nat, NEW f, i < Len(found) => f \in Seq(Addresses)
      PROVE  /\ Take(i, f) \in Results
             /\ Take(i, f).undefined => r.undefined \/ i >= Len(found)
  <2> HIDE DEF next
  <2>1. CASE i < Len(found)
    <3>1. Take(i, f) = [next EXCEPT !.found = f]
      BY <2>1
    <3> QED
      BY <2>1, <3>1, <1>4, <1>5, <1>6
  <2>2. CASE ~ (i < Len(found))
    <3>1. <<>> \in Seq(Addresses)
      OBVIOUS
    <3>2. Take(i, f) = [next EXCEPT !.undefined = TRUE]
      BY <2>2
    <3>3. i >= Len(found)
      BY <2>2, <1>2
    <3> QED
      BY <3>1, <3>2, <3>3, <1>4, <1>5
  <2> QED
    BY <2>1, <2>2
<1>7. \A i \in Nat : i < Len(found) => found[i + 1] \in Addresses
    BY <1>2
<1> HIDE DEF Take
<1>8. r.found \in Seq(Addresses) /\ <<>> \in Seq(Addresses)
    BY DEF Results
<1>9. CASE r.stop \/ r.undefined
    BY <1>9, <1>1
<1> DEFINE Goes == ~ (r.stop \/ r.undefined)
           Tries == Goes /\ ~ (r.is1to1 /\ myIndex # r.peerIndex)
<1>10. CASE Goes /\ r.is1to1 /\ myIndex # r.peerIndex
  <2>1. R = next
    BY <1>10, <1>1
  <2> QED
    BY <2>1, <1>4
<1>11. CASE Tries /\ mine <= 1 /\ theirs <= 1
  <2>1. R = IF myIndex = r.peerIndex \/ Len(peerKey[k]) = 1
            THEN [Take(0, <<found[1]>>) EXCEPT !.stop = TRUE]
            ELSE [next EXCEPT !.is1to1 = TRUE]
    BY <1>11, <1>1, <1>2
  <2>2. /\ Take(0, <<found[1]>>) \in Results
        /\ Take(0, <<found[1]>>).undefined => r.undefined \/ 0 >= Len(found)
    <3>1. 0 < Len(found) => <<found[1]>> \in Seq(Addresses)
      BY <1>2
    <3> QED
      BY <3>1, <1>6
  <2> HIDE DEF next
  <2>3. CASE myIndex = r.peerIndex \/ Len(peerKey[k]) = 1
    <3>1. R = [Take(0, <<found[1]>>) EXCEPT !.stop = TRUE]
      BY <2>1, <2>3
    <3>2. 0 >= Len(found) => Missing(k, p)
      BY <1>2, <1>3
    <3> QED
      BY <3>1, <3>2, <2>2, <1>5, <1>8
  <2>4. CASE ~ (myIndex = r.peerIndex \/ Len(peerKey[k]) = 1)
    <3>1. R = [next EXCEPT !.is1to1 = TRUE]
      BY <2>1, <2>4
    <3> QED
      BY <3>1, <1>4, <1>5, <1>8
  <2> QED
    BY <2>3, <2>4
<1>12. CASE Tries /\ mine <= 1 /\ theirs > 1
  <2>1. R = Take(myIndex, <<found[myIndex + 1]>>)
    BY <1>12, <1>1, <1>2
  <2>2. myIndex < Len(found) => <<found[myIndex + 1]>> \in Seq(Addresses)
    BY <1>2, <1>7
  <2> QED
    BY <2>1, <2>2, <1>2, <1>3, <1>6, <1>12
<1>13. CASE Tries /\ mine > 1 /\ theirs <= 1
  <2>1. R = IF Len(found) = 1 THEN [next EXCEPT !.found = @ \o found]
                              ELSE [next EXCEPT !.undefined = TRUE]
    BY <1>13, <1>1, <1>2
  <2> HIDE DEF next
  <2>2. CASE Len(found) = 1
    <3>1. R = [next EXCEPT !.found = next.found \o found]
      BY <2>1, <2>2
    <3>2. next.found \o found \in Seq(Addresses)
      BY <1>2, <1>4, <1>8
    <3> QED
      BY <3>1, <3>2, <1>4, <1>5
  <2>3. CASE Len(found) # 1
    <3>1. R = [next EXCEPT !.undefined = TRUE] /\ Missing(k, p)
      BY <2>1, <2>3, <1>3, <1>13
    <3> QED
      BY <3>1, <1>4, <1>5, <1>8
  <2> QED
    BY <2>2, <2>3
<1>14. CASE Tries /\ mine > 1 /\ theirs > 1
  <2>1. R = Take(myIndex, Append(r.found, found[myIndex + 1]))
    BY <1>14, <1>1, <1>2
  <2>2. myIndex < Len(found) =>
            Append(r.found, found[myIndex + 1]) \in Seq(Addresses)
    BY <1>2, <1>7, <1>8
  <2> QED
    BY <2>1, <2>2, <1>2, <1>3, <1>6, <1>14
<1>15. (mine <= 1 \/ mine > 1) /\ (theirs <= 1 \/ theirs > 1)
    BY <1>2
<1> QED
    BY <1>9, <1>10, <1>11, <1>12, <1>13, <1>14, <1>15

\* What the loop starts from.
NothingFound == [found |-> <<>>, peerIndex |-> 0, is1to1 |-> FALSE,
                 stop |-> FALSE, undefined |-> FALSE]

\* The recursive function is defined, and takes one round after the other.
LEMMA ResolvedSteps ==
    ASSUME Lists, NEW k \in Key
    PROVE  /\ ResolvedUpTo(k)[0] = NothingFound
           /\ \A i \in 1..Len(peerKey[k]) :
                 ResolvedUpTo(k)[i] = ResolvePeer(k, peerKey[k],
                                         ResolvedUpTo(k)[i - 1], peerKey[k][i])
           /\ \A i \in 0..Len(peerKey[k]) : ResolvedUpTo(k)[i] \in Results
<1> DEFINE s == peerKey[k]
           n == Len(s)
           z == NothingFound
           Round(v, i) == ResolvePeer(k, s, v, s[i])
           G == [x \in Results \X (1..n) |-> Round(x[1], x[2])]
           r == ResolvedUpTo(k)
<1>1. s \in Seq(Key) /\ n \in Nat
    BY DEF Lists
<1>2. z \in Results
    BY DEF Results, NothingFound
<1>3. ASSUME NEW v \in Results, NEW i \in 1..n PROVE Round(v, i) \in Results
  <2>1. s[i] \in Key
    BY <1>1
  <2> QED
    BY <2>1, ResolvePeerResult
<1>4. G \in [Results \X (1..n) -> Results]
    BY <1>3
<1>5. r = CHOOSE q : q = [i \in 0..n |-> IF i = 0 THEN z
                                         ELSE Round(q[i - 1], i)]
    BY DEF ResolvedUpTo, NothingFound
<1> HIDE DEF s, n, z, Round, G, r
<1>6. PICK q \in [0..n -> Results] :
          q[0] = z /\ \A i \in 1..n : q[i] = G[<<q[i - 1], i>>]
  <2>1. IsStep(n, Results, z, G)
    BY <1>1, <1>2, <1>4 DEF IsStep
  <2>2. Iterates(n, Results, z, G)
    BY <2>1, Iteration
  <2> QED
    BY <2>2 DEF Iterates
<1>7. \A i \in 1..n : i - 1 \in 0..n /\ q[i - 1] \in Results
                      /\ q[i] = Round(q[i - 1], i)
    BY <1>1, <1>6 DEF G
<1>8. q = [i \in 0..n |-> IF i = 0 THEN z ELSE Round(q[i - 1], i)]
    BY <1>1, <1>6, <1>7
<1>9. r = [i \in 0..n |-> IF i = 0 THEN z ELSE Round(r[i - 1], i)]
    BY <1>5, <1>8
<1>10. r[0] = z /\ \A i \in 1..n : r[i] = Round(r[i - 1], i)
    BY <1>1, <1>9
<1> DEFINE S == {i \in 0..n : r[i] \in Results}
<1>11. 0 \in S
    BY <1>1, <1>2, <1>10
<1>12. ASSUME NEW i \in 1..n, i - 1 \in S PROVE i \in S
    BY <1>1, <1>3, <1>10, <1>12
<1>13. 0..n \subseteq S
  <2> HIDE DEF S
  <2> QED
    BY <1>1, <1>11, <1>12, UpTo
<1> QED
    BY <1>10, <1>13 DEF r, n, s, z, Round

\* ResolveConnectAddress takes its addresses from the registry, and a check
\* fails only over a peer in the list whose addresses are missing.
LEMMA ResolutionResult ==
    ASSUME Lists, NEW k \in Key
    PROVE  /\ Resolution(k) \in Results
           /\ Resolution(k).undefined =>
                 \E p \in ToSet(peerKey[k]) : Missing(k, p)
<1> DEFINE s == peerKey[k]
           n == Len(s)
           r == ResolvedUpTo(k)
           S == {i \in 0..n : r[i].undefined =>
                                 \E j \in 1..n : Missing(k, s[j])}
<1>1. s \in Seq(Key) /\ n \in Nat
    BY DEF Lists
<1>2. /\ r[0] = NothingFound /\ \A i \in 0..n : r[i] \in Results
      /\ \A i \in 1..n : r[i] = ResolvePeer(k, s, r[i - 1], s[i])
    BY ResolvedSteps
<1>0. \A v \in Results : \A p \in Key :
          ResolvePeer(k, s, v, p).undefined => v.undefined \/ Missing(k, p)
    BY ResolvePeerResult
<1> HIDE DEF s, n, r
<1>3. 0 \in S
    BY <1>1, <1>2 DEF NothingFound
<1>4. ASSUME NEW i \in 1..n, i - 1 \in S PROVE i \in S
  <2>1. s[i] \in Key /\ r[i - 1] \in Results
    BY <1>1, <1>2 DEF n
  <2>2. r[i].undefined => r[i - 1].undefined \/ Missing(k, s[i])
    BY <1>0, <1>2, <2>1
  <2> QED
    BY <1>1, <1>4, <2>2
<1>5. n \in S
  <2> HIDE DEF S
  <2>1. 0..n \subseteq S
    BY <1>1, <1>3, <1>4, UpTo
  <2> QED
    BY <1>1, <2>1
<1>6. Resolution(k) = r[n]
    BY DEF Resolution, r, n, s
<1>7. \A j \in 1..n : s[j] \in ToSet(peerKey[k])
    BY <1>1 DEF s, n, ToSet
<1> QED
    BY <1>1, <1>2, <1>5, <1>6, <1>7

\* findAddress returns addresses of the registry.
LEMMA FindAddressResult ==
    ASSUME Lists, NEW k, NEW p \in PeerName
    PROVE  FindAddress(k, p) \in Seq(Addresses)
<1> DEFINE n == Named(p)
           a == socketKey[<<n.device, n.channel>>]
<1>1. n.channel \in Channel /\ n.sub \in Nat
    BY DEF Named, PeerName
<1>2. CASE n.device \in Up /\ n.sub < Len(a)
  <2>1. <<n.device, n.channel>> \in Key
    BY <1>1, <1>2 DEF Key, Up
  <2>2. a \in Seq(Addresses)
    BY <2>1 DEF Lists
  <2>3. Len(a) \in Nat /\ n.sub \in 0..(Len(a) - 1)
    BY <1>1, <1>2, <2>2
  <2> DEFINE m == Rank(n.sub, Len(a))
  <2>4. m \in 0..(Len(a) - 1)
    BY <2>3, RankRange
  <2> HIDE DEF m, n
  <2>5. a[m + 1] \in Addresses
    BY <2>2, <2>3, <2>4
  <2>6. FindAddress(k, p) = <<>> \/ FindAddress(k, p) = <<a[m + 1]>>
    BY DEF FindAddress, m, n
  <2> DEFINE x == a[m + 1]
  <2>7. x \in Addresses /\ (FindAddress(k, p) = <<>> \/ FindAddress(k, p) = <<x>>)
    BY <2>5, <2>6
  <2> HIDE DEF x
  <2>8. <<>> \in Seq(Addresses) /\ <<x>> \in Seq(Addresses)
    BY <2>7
  <2> QED
    BY <2>7, <2>8
<1>3. CASE ~ (n.device \in Up /\ n.sub < Len(a))
  <2>1. CASE n.device \in Up
    <3>1. <<n.device, n.channel>> \in Key
      BY <1>1, <2>1 DEF Key, Up
    <3>2. a \in Seq(Addresses)
      BY <3>1 DEF Lists
    <3>3. n.sub >= Len(a)
      BY <3>2, <2>1, <1>1, <1>3
    <3> QED
      BY <3>3 DEF FindAddress
  <2>2. CASE n.device \notin Up
    BY <2>2 DEF FindAddress
  <2> QED
    BY <2>1, <2>2
<1> QED
    BY <1>2, <1>3

\* So does ConfigConnect.
LEMMA ConfiguredResult ==
    ASSUME Lists, topo \in Topologies, NEW k,
           <<k[1].service, k[2]>> \in DOMAIN topo.connectConfig
    PROVE  Configured(k) \in Seq(Addresses)
<1> DEFINE s == topo.connectConfig[<<k[1].service, k[2]>>]
           n == Len(s)
           V == Seq(Addresses)
           Round(v, i) == v \o FindAddress(k, s[i])
           G == [x \in V \X (1..n) |-> Round(x[1], x[2])]
           r == ConfiguredUpTo(k)
<1>1. s \in Seq(PeerName) /\ n \in Nat
  <2>1. s \in Seq(PeerName)
    BY TopologyAssumption
  <2> QED
    BY <2>1
<1>2. <<>> \in V
    OBVIOUS
<1>3. ASSUME NEW v \in V, NEW i \in 1..n PROVE Round(v, i) \in V
  <2>1. FindAddress(k, s[i]) \in Seq(Addresses)
    BY <1>1, FindAddressResult
  <2> QED
    BY <2>1
<1>4. G \in [V \X (1..n) -> V]
    BY <1>3
<1>5. r = CHOOSE q : q = [i \in 0..n |->
                            IF i = 0 THEN <<>> ELSE Round(q[i - 1], i)]
    BY DEF ConfiguredUpTo
<1> HIDE DEF s, n, V, Round, G, r
<1>6. PICK q \in [0..n -> V] :
          q[0] = <<>> /\ \A i \in 1..n : q[i] = G[<<q[i - 1], i>>]
  <2>1. IsStep(n, V, <<>>, G)
    BY <1>1, <1>2, <1>4 DEF IsStep
  <2>2. Iterates(n, V, <<>>, G)
    BY <2>1, Iteration
  <2> QED
    BY <2>2 DEF Iterates
<1>7. \A i \in 1..n : i - 1 \in 0..n /\ q[i - 1] \in V
                      /\ q[i] = Round(q[i - 1], i)
  <2>1. \A i \in 1..n : i - 1 \in 0..n
    BY <1>1
  <2>2. \A i \in 1..n : q[i - 1] \in V
    BY <1>6, <2>1
  <2>3. \A v \in V, i \in 1..n : G[<<v, i>>] = Round(v, i)
    BY DEF G
  <2> QED
    BY <1>6, <2>1, <2>2, <2>3
<1>8. q = [i \in 0..n |-> IF i = 0 THEN <<>> ELSE Round(q[i - 1], i)]
    BY <1>1, <1>6, <1>7
<1>9. r = [i \in 0..n |-> IF i = 0 THEN <<>> ELSE Round(r[i - 1], i)]
    BY <1>5, <1>8
<1>10. r[0] = <<>> /\ \A i \in 1..n : r[i] = Round(r[i - 1], i)
    BY <1>1, <1>9
<1> DEFINE S == {i \in 0..n : r[i] \in V}
<1>11. 0 \in S
    BY <1>1, <1>2, <1>10
<1>12. ASSUME NEW i \in 1..n, i - 1 \in S PROVE i \in S
    BY <1>1, <1>3, <1>10, <1>12
<1>13. n \in S
  <2> HIDE DEF S
  <2>1. 0..n \subseteq S
    BY <1>1, <1>11, <1>12, UpTo
  <2> QED
    BY <1>1, <2>1
<1>14. Configured(k) = r[n]
    BY DEF Configured, r, n, s
<1> QED
    BY <1>13, <1>14 DEF V

-----------------------------------------------------------------------------
(* The types of what the actions compute.                                  *)

\* The types of the registry are those the loops need.
LEMMA ListsTyped ==
    ASSUME TypeOK
    PROVE  Lists /\ Addresses \subseteq SocketAddress
<1>1. ASSUME NEW k \in Key PROVE socketKey[k] \in Seq(Addresses)
  <2>1. socketKey[k] \in Seq(SocketAddress)
    BY DEF TypeOK
  <2>2. \A i \in 1..Len(socketKey[k]) : socketKey[k][i] \in Addresses
    BY <2>1 DEF Addresses, ToSet
  <2> QED
    BY <2>1, <2>2
<1>2. Addresses \subseteq SocketAddress
  <2> SUFFICES ASSUME NEW k \in Key, NEW a \in ToSet(socketKey[k])
               PROVE  a \in SocketAddress
    BY DEF Addresses
  <2>1. socketKey[k] \in Seq(SocketAddress)
    BY DEF TypeOK
  <2> QED
    BY <2>1 DEF ToSet
<1> QED
    BY <1>1, <1>2 DEF Lists, TypeOK

\* A device has finitely many links, between ends.
LEMMA LinkTypes ==
    ASSUME topo \in Topologies, NEW d \in Device
    PROVE  Links(d) \subseteq [my : End, peer : End] /\ IsFiniteSet(Links(d))
<1> DEFINE K == {k \in topo.link : d.service \in {k.L[1], k.R[1]}}
           f == [l \in K |-> IF l.L[1] = d.service
                             THEN [my |-> l.L, peer |-> l.R]
                             ELSE [my |-> l.R, peer |-> l.L]]
<1>1. topo.link \subseteq [L : End, R : End] /\ IsFiniteSet(topo.link)
    BY TopologyAssumption
<1>2. IsFiniteSet(K)
    BY <1>1, FS_Subset
<1>3. Links(d) = {f[l] : l \in K}
    BY DEF Links
<1>4. f \in Surjection(K, Links(d))
    BY <1>3 DEF Surjection
<1>5. IsFiniteSet(Links(d))
    BY <1>2, <1>4, FS_Surjection
<1>6. ASSUME NEW l \in K PROVE f[l] \in [my : End, peer : End]
    BY <1>1
<1> QED
    BY <1>3, <1>5, <1>6

\* It finds finitely many peers, which are channels of devices.
LEMMA PeerTypes ==
    ASSUME topo \in Topologies, NEW d \in Device, NEW c \in Channel
    PROVE  /\ PeersOf(d, c) \subseteq Key /\ IsFiniteSet(PeersOf(d, c))
           /\ IsFiniteSet(Found(d, c)) /\ Cardinality(Found(d, c)) \in Nat
<1>1. LinksOf(d, c) \subseteq Links(d)
    BY DEF LinksOf
<1>2. \A l \in LinksOf(d, c) : FarEnd(l, c) \in End
    BY <1>1, LinkTypes DEF FarEnd
<1>3. PeersOf(d, c) \subseteq Key
    BY <1>2 DEF PeersOf, Found, Key, End
<1>4. IsFiniteSet(Device) /\ IsFiniteSet(Channel)
    BY TopologyAssumption
<1>5. IsFiniteSet(Key)
    BY <1>4, FS_Product DEF Key
<1>6. IsFiniteSet(LinksOf(d, c))
    BY <1>1, LinkTypes, FS_Subset
<1>7. IsFiniteSet(LinksOf(d, c) \X Device)
    BY <1>4, <1>6, FS_Product
<1>8. Found(d, c) \in SUBSET (LinksOf(d, c) \X Device)
    BY DEF Found
<1>9. IsFiniteSet(Found(d, c))
    BY <1>7, <1>8, FS_Subset
<1> QED
    BY <1>3, <1>5, <1>9, FS_Subset, FS_CardinalityType

\* The channels WaitBindAddress waits for.
Needs(d) ==
    ChannelsAt(UNION {OtherEnds(d, c) : c \in ChannelsOf(d, "connect")})

\* They are channels of devices.
LEMMA NeedsTypes ==
    ASSUME topo \in Topologies, NEW d \in Device
    PROVE  Needs(d) \subseteq Key
<1> DEFINE E == UNION {OtherEnds(d, c) : c \in ChannelsOf(d, "connect")}
<1>1. \A c \in Channel : OtherEnds(d, c) \subseteq End
    BY LinkTypes DEF OtherEnds
<1>2. E \subseteq End
    BY <1>1 DEF ChannelsOf
<1>3. ASSUME NEW e \in E PROVE Present(e[1]) \X {e[2]} \subseteq Key
    BY <1>2 DEF Present, Key, End
<1> QED
    BY <1>3 DEF Needs, ChannelsAt

\* The address of socket i of channel k.
IsSocket(a, k, i) == a.owner = k[1] /\ a.channel = k[2] /\ a.sub = i - 1

\* The address of one of its sockets.
OfChannel(a, k) == <<a.owner, a.channel>> = <<k[1], k[2]>>

\* FairMQ binds one socket, or as many as ToChannelConfig asks for.
LEMMA BoundSocketTypes ==
    ASSUME TypeOK, NEW d \in Device, NEW c \in Channel
    PROVE  /\ BoundSockets(d, c) \in Seq(SocketAddress)
           /\ Len(BoundSockets(d, c)) =
                 IF numSockets[<<d, c>>] <= 1 THEN 1 ELSE numSockets[<<d, c>>]
           /\ \A i \in DOMAIN BoundSockets(d, c) :
                 IsSocket(BoundSockets(d, c)[i], <<d, c>>, i)
<1> DEFINE n == numSockets[<<d, c>>]
<1>1. n \in Nat /\ round \in Nat
  <2>1. topo.rounds \in Nat
    BY TopologyAssumption DEF TypeOK
  <2> QED
    BY <2>1 DEF TypeOK, Key
<1>2. Max({1, n}) = IF n <= 1 THEN 1 ELSE n
    BY <1>1 DEF Max
<1>3. Max({1, n}) \in Nat
    BY <1>1, <1>2
<1> DEFINE m == Max({1, n})
<1>4. ASSUME NEW i \in 1..m
      PROVE  [owner |-> d, channel |-> c, sub |-> i - 1, round |-> round]
                \in SocketAddress
  <2>1. i - 1 \in Nat
    BY <1>3
  <2> QED
    BY <2>1, <1>1 DEF SocketAddress
<1>5. BoundSockets(d, c) \in [1..m -> SocketAddress]
    BY <1>4 DEF BoundSockets
<1>6. m \in Nat
    BY <1>3
<1>8. \A i \in DOMAIN BoundSockets(d, c) :
          IsSocket(BoundSockets(d, c)[i], <<d, c>>, i)
    BY DEF BoundSockets, IsSocket
<1> HIDE DEF m
<1>7. BoundSockets(d, c) \in Seq(SocketAddress) /\ Len(BoundSockets(d, c)) = m
    BY <1>5, <1>6
<1> QED
    BY <1>2, <1>7, <1>8 DEF m

-----------------------------------------------------------------------------
(* Type correctness: which commands a device can have in which state.      *)

Phases ==
    \A d \in Device :
        /\ state[d] \in {"Down", "Aborted"} => order[d] = "none"
        /\ order[d] = "INIT_DEVICE" => state[d] = "Idle"
        /\ order[d] = "BIND" =>
              state[d] \in {"Idle", "InitializingDevice", "Initialized"}
        /\ order[d] = "CONNECT" =>
              state[d] \in {"Idle", "InitializingDevice", "Initialized", "Bound"}
        /\ order[d] = "RESET_DEVICE" =>
              state[d] \in {"Initialized", "Bound", "DeviceReady"}
        /\ step[d] = "init" <=> state[d] = "InitializingDevice"
        /\ step[d] \notin {"none", "init"} => state[d] = "Bound"

\* The inductive invariant.
TypeInv == TypeOK /\ Phases

\* It holds at the start,
LEMMA TypeInit == Init => TypeInv
<1> SUFFICES ASSUME Init PROVE TypeInv
    OBVIOUS
<1>1. round \in 0..topo.rounds
    BY TopologyAssumption DEF Init
<1>2. <<>> \in Seq(Key) /\ <<>> \in Seq(SocketAddress)
    OBVIOUS
<1> QED
    BY <1>1, <1>2 DEF Init, TypeInv, TypeOK, Phases, Absent

\* A command is sent in states in which the devices carry it out.
LEMMA SentStates ==
    ASSUME topo \in Topologies, NEW cmd \in DOMAIN Accepts,
           NEW s \in topo.sentIn[cmd]
    PROVE  /\ cmd = "INIT_DEVICE" => s = "Idle"
           /\ cmd = "BIND" => s \in {"Idle", "Initialized"}
           /\ cmd = "CONNECT" => s \in {"Idle", "Initialized", "Bound"}
           /\ cmd = "RESET_DEVICE" => s \in {"Initialized", "Bound", "DeviceReady"}
           /\ s # "Aborted"
<1>1. s \in Accepts[cmd]
    BY TopologyAssumption
<1> QED
    BY <1>1 DEF Accepts

\* and every step keeps it.
LEMMA TypeNext ==
    ASSUME TypeInv, [Next]_vars
    PROVE  TypeInv'
<1> USE DEF TypeInv
<1>0. topo \in Topologies /\ DOMAIN Accepts = {"INIT_DEVICE", "BIND", "CONNECT",
                                             "RESET_DEVICE"}
    BY TopologyAssumption DEF TypeOK, Accepts
<1>1. ASSUME NEW d \in Device, Start(d) PROVE TypeInv'
    BY <1>0, <1>1 DEF Start, TypeOK, Phases, channels, registry
<1>2. ASSUME NEW d \in Device, Leave(d) PROVE TypeInv'
    BY <1>0, <1>2 DEF Leave, Quiet, Unregister, TypeOK, Phases, Absent
<1>3. ASSUME NEW cmd \in DOMAIN Accepts, Broadcast(cmd) PROVE TypeInv'
  <2>1. PICK s \in topo.sentIn[cmd] : \A d \in Up : state[d] = s
    BY <1>3 DEF Broadcast
  <2>2. /\ cmd = "INIT_DEVICE" => s = "Idle"
        /\ cmd = "BIND" => s \in {"Idle", "Initialized"}
        /\ cmd = "CONNECT" => s \in {"Idle", "Initialized", "Bound"}
        /\ cmd = "RESET_DEVICE" => s \in {"Initialized", "Bound", "DeviceReady"}
    BY <1>0, SentStates
  <2>3. \A d \in Device : d \in Up \/ order[d] = "none"
    BY DEF Up, Phases
  <2>4. order' = [d \in Device |-> IF d \in Up THEN cmd ELSE "none"]
    BY <1>3 DEF Broadcast
  <2>5. round' \in 0..topo.rounds
    <3>1. topo.rounds \in Nat
      BY <1>0, TopologyAssumption
    <3>2. \/ round < topo.rounds /\ round' = round + 1
          \/ round' = round
      BY <1>3 DEF Broadcast
    <3> QED
      BY <3>1, <3>2 DEF TypeOK
  <2>6. UNCHANGED <<topo, wanted, state, canceled, step, todo, channels,
                    registry>> /\ \A d \in Up : order[d] = "none"
    BY <1>3 DEF Broadcast
  <2>7. TypeOK'
    BY <1>0, <2>3, <2>4, <2>5, <2>6 DEF TypeOK, channels, registry
  <2>8. Phases'
    BY <1>0, <2>1, <2>2, <2>4, <2>6 DEF Phases, Up
  <2> QED
    BY <2>7, <2>8
<1>4. ASSUME NEW d \in Device, InitDevice(d) PROVE TypeInv'
    BY <1>0, <1>4 DEF InitDevice, ChannelsOf, TypeOK, Phases, channels, registry
<1>5. ASSUME NEW d \in Device, InitializeDone(d) PROVE TypeInv'
    BY <1>0, <1>5 DEF InitializeDone, TypeOK, Phases, channels, registry
<1>6. ASSUME NEW d \in Device, Bind(d) PROVE TypeInv'
  <2>1. address' \in [Key -> Seq(SocketAddress)]
    <3>1. ASSUME NEW k \in Key, k[1] = d
          PROVE  BoundSockets(d, k[2]) \in Seq(SocketAddress)
      BY <3>1, Keys, BoundSocketTypes
    <3> QED
      BY <1>6, <3>1 DEF Bind, TypeOK
  <2>2. UNCHANGED <<topo, round, wanted, canceled, numSockets,
                    fRegisteredKeys, registry>>
    BY <1>6 DEF Bind
  <2>3. TypeOK'
    BY <1>0, <1>6, <2>1, <2>2 DEF Bind, ChannelsOf, TypeOK, Phases, registry
  <2>4. Phases'
    BY <1>0, <1>6 DEF Bind, TypeOK, Phases
  <2> QED
    BY <2>3, <2>4
<1>7. ASSUME NEW d \in Device, WaitBindAddress(d) PROVE TypeInv'
  <2>1. wanted' = [wanted EXCEPT ![d] = Needs(d)] /\ Needs(d) \subseteq Key
    BY <1>0, <1>7, NeedsTypes DEF WaitBindAddress, Needs
  <2>2. /\ step[d] = "written" /\ step' = [step EXCEPT ![d] = "waitBind"]
        /\ UNCHANGED <<topo, round, state, order, canceled, todo, channels,
                       registry>>
    BY <1>7 DEF WaitBindAddress
  <2> QED
    BY <1>0, <2>1, <2>2 DEF TypeOK, Phases, channels, registry
<1>8. ASSUME NEW d \in Device, WaitBindAddressReturns(d) PROVE TypeInv'
    BY <1>0, <1>8 DEF WaitBindAddressReturns, ChannelsOf, TypeOK, Phases,
                      channels, registry
<1>9. ASSUME NEW d \in Device, WriteConnectAddress(d) PROVE TypeInv'
  <2>1. socketKey' \in [Key -> Seq(SocketAddress)]
    <3>1. \A k \in Key : Published(address[k]) \in Seq(SocketAddress)
      BY PublishedList DEF TypeOK
    <3> QED
      BY <1>9, <3>1 DEF WriteConnectAddress, TypeOK
  <2>2. fRegisteredKeys' \in [Device -> SUBSET (Kinds \X Channel)]
    BY <1>9 DEF WriteConnectAddress, ChannelsOf, TypeOK, Kinds
  <2>3. /\ step[d] = "resolved" /\ step' = [step EXCEPT ![d] = "waitPeers"]
        /\ UNCHANGED <<topo, round, wanted, state, order, canceled, todo,
                       numSockets, address, channelKey, peerKey>>
    BY <1>9 DEF WriteConnectAddress
  <2> QED
    BY <1>0, <2>1, <2>2, <2>3 DEF TypeOK, Phases
<1>10. ASSUME NEW d \in Device, WaitForPeerConnection(d) PROVE TypeInv'
    BY <1>0, <1>10 DEF WaitForPeerConnection, TypeOK, Phases, channels, registry
<1>11. ASSUME NEW d \in Device, HandshakeCanceled(d) PROVE TypeInv'
    BY <1>0, <1>11 DEF HandshakeCanceled, TypeOK, Phases, channels, registry
<1>12. ASSUME NEW d \in Device, Connect(d) PROVE TypeInv'
    BY <1>0, <1>12 DEF Connect, TypeOK, Phases, channels, registry
<1>13. ASSUME NEW d \in Device, ReceiveReset(d) PROVE TypeInv'
    BY <1>0, <1>13 DEF ReceiveReset, TypeOK, Phases, channels, registry
<1>14. ASSUME NEW d \in Device, ResetDevice(d) PROVE TypeInv'
    BY <1>0, <1>14 DEF ResetDevice, Forget, Unregister, TypeOK, Phases, Absent
<1>15. ASSUME NEW d \in Device, Expire(d) PROVE TypeInv'
    BY <1>0, <1>15 DEF Expire, Unregister, TypeOK, Phases, Absent
<1>16. ASSUME NEW d \in Device, NEW c \in todo[d], InitializeChannel(d, c)
       PROVE  TypeInv'
  <2>0. c \in Channel /\ <<d, c>> \in Key
    BY DEF TypeOK, Key
  <2> DEFINE n == numSockets[<<d, c>>] +
                  IF Endpoint(d, c).autoSubChannel
                  THEN Cardinality(Found(d, c)) ELSE 0
  <2>1. n \in Nat
    BY <1>0, <2>0, PeerTypes DEF TypeOK
  <2>2. SortedKeys(PeersOf(d, c)) \in Seq(Key)
    BY <1>0, <2>0, PeerTypes, Sorts
  <2>3. /\ numSockets' = [numSockets EXCEPT ![<<d, c>>] = n]
        /\ WriteChannel(d, c, n, PeersOf(d, c))
        /\ todo' = [todo EXCEPT ![d] = @ \ {c}]
        /\ UNCHANGED <<topo, round, wanted, state, order, canceled, step,
                       address>>
    BY <1>16 DEF InitializeChannel
  <2> HIDE DEF n
  <2>4. /\ fRegisteredKeys' \in [Device -> SUBSET (Kinds \X Channel)]
        /\ channelKey' \in [Key -> [bound : BOOLEAN, numSockets : Nat]]
        /\ socketKey' = socketKey
    <3>1. CASE PeersOf(d, c) = {}
      BY <2>3, <3>1 DEF WriteChannel, registry, TypeOK
    <3>2. CASE PeersOf(d, c) # {}
      <4>1. {<<"channel", c>>, <<"peer", c>>} \subseteq Kinds \X Channel
        BY <2>0 DEF Kinds
      <4>2. [bound |-> FALSE, numSockets |-> n]
                \in [bound : BOOLEAN, numSockets : Nat]
        BY <2>1
      <4>3. /\ channelKey' = [channelKey EXCEPT ![<<d, c>>] =
                                  [bound |-> FALSE, numSockets |-> n]]
            /\ fRegisteredKeys' = [fRegisteredKeys EXCEPT ![d] =
                                  @ \union {<<"channel", c>>, <<"peer", c>>}]
            /\ socketKey' = socketKey
        BY <2>3, <3>2 DEF WriteChannel
      <4>4. channelKey' \in [Key -> [bound : BOOLEAN, numSockets : Nat]]
        BY <2>0, <4>2, <4>3 DEF TypeOK
      <4>5. fRegisteredKeys' \in [Device -> SUBSET (Kinds \X Channel)]
        BY <4>1, <4>3 DEF TypeOK
      <4> QED
        BY <4>3, <4>4, <4>5
    <3> QED
      BY <3>1, <3>2
  <2>5. peerKey' \in [Key -> Seq(Key)]
    <3>1. peerKey[<<d, c>>] \o SortedKeys(PeersOf(d, c)) \in Seq(Key)
      BY <2>0, <2>2 DEF TypeOK
    <3> QED
      BY <2>0, <2>3, <3>1 DEF WriteChannel, registry, TypeOK
  <2>6. numSockets' \in [Key -> Nat]
    BY <2>0, <2>1, <2>3 DEF TypeOK
  <2>7. TypeOK'
    BY <1>0, <2>3, <2>4, <2>5, <2>6 DEF TypeOK
  <2>8. Phases'
    BY <2>3 DEF Phases
  <2> QED
    BY <2>7, <2>8
<1>17. ASSUME NEW d \in Device, NEW c \in todo[d], WriteBindAddress(d, c)
       PROVE  TypeInv'
  <2>1. c \in Channel /\ <<d, c>> \in Key
    BY DEF TypeOK, Key
  <2>2. channelKey' \in [Key -> [bound : BOOLEAN, numSockets : Nat]]
    <3>1. channelKey' = [channelKey EXCEPT ![<<d, c>>] = [@ EXCEPT !.bound = TRUE]]
      BY <1>17 DEF WriteBindAddress
    <3>2. [channelKey[<<d, c>>] EXCEPT !.bound = TRUE]
              \in [bound : BOOLEAN, numSockets : Nat]
      BY <2>1 DEF TypeOK
    <3> QED
      BY <2>1, <3>1, <3>2 DEF TypeOK
  <2>3. fRegisteredKeys' \in [Device -> SUBSET (Kinds \X Channel)]
    BY <1>17, <2>1 DEF WriteBindAddress, TypeOK, Kinds
  <2>4. socketKey' \in [Key -> Seq(SocketAddress)]
    <3>1. Published(address[<<d, c>>]) \in Seq(SocketAddress)
      BY <2>1, PublishedList DEF TypeOK
    <3> QED
      BY <1>17, <2>1, <3>1 DEF WriteBindAddress, TypeOK
  <2>5. /\ todo' = [todo EXCEPT ![d] = @ \ {c}]
        /\ step' = [step EXCEPT ![d] = IF todo[d] = {c} THEN "written" ELSE @]
        /\ step[d] = "writeBind"
        /\ UNCHANGED <<topo, round, wanted, state, order, canceled, numSockets,
                       address, peerKey>>
    BY <1>17 DEF WriteBindAddress
  <2> QED
    BY <1>0, <2>2, <2>3, <2>4, <2>5 DEF TypeOK, Phases
<1>18. ASSUME NEW d \in Device, NEW c \in todo[d], ConfigConnect(d, c)
       PROVE  TypeInv'
  <2>1. c \in Channel /\ <<d, c>> \in Key
    BY DEF TypeOK, Key
  <2>2. address' \in [Key -> Seq(SocketAddress)]
    <3>1. CASE <<d.service, c>> \in DOMAIN topo.connectConfig
      <4>1. Configured(<<d, c>>) \in Seq(SocketAddress)
        BY <1>0, <2>1, <3>1, ListsTyped, ConfiguredResult
      <4>2. address[<<d, c>>] \o Configured(<<d, c>>) \in Seq(SocketAddress)
        BY <2>1, <4>1 DEF TypeOK
      <4> QED
        BY <1>18, <2>1, <3>1, <4>2 DEF ConfigConnect, TypeOK
    <3>2. CASE <<d.service, c>> \notin DOMAIN topo.connectConfig
      BY <1>18, <2>1, <3>2 DEF ConfigConnect, TypeOK
    <3> QED
      BY <3>1, <3>2
  <2>3. /\ todo' = [todo EXCEPT ![d] = @ \ {c}]
        /\ step' = [step EXCEPT ![d] = IF todo[d] = {c} THEN "resolved" ELSE @]
        /\ step[d] = "resolve"
        /\ UNCHANGED <<topo, round, wanted, state, order, canceled, numSockets,
                       fRegisteredKeys, registry>>
    BY <1>18 DEF ConfigConnect
  <2> QED
    BY <1>0, <2>1, <2>2, <2>3 DEF TypeOK, Phases, registry
<1>19. ASSUME NEW d \in Device, NEW c \in todo[d], ResolveConnectAddress(d, c)
       PROVE  TypeInv'
  <2>1. c \in Channel /\ <<d, c>> \in Key
    BY DEF TypeOK, Key
  <2>2. address' \in [Key -> Seq(SocketAddress)]
    <3>1. Resolution(<<d, c>>).found \in Seq(SocketAddress)
      BY <2>1, ListsTyped, ResolutionResult DEF Results
    <3> QED
      BY <1>19, <2>1, <3>1 DEF ResolveConnectAddress, TypeOK
  <2>3. /\ todo' = [todo EXCEPT ![d] = @ \ {c}]
        /\ step' = [step EXCEPT ![d] = IF todo[d] = {c} THEN "resolved" ELSE @]
        /\ step[d] = "resolve"
        /\ UNCHANGED <<topo, round, wanted, state, order, canceled, numSockets,
                       fRegisteredKeys, registry>>
    BY <1>19 DEF ResolveConnectAddress
  <2> QED
    BY <1>0, <2>1, <2>2, <2>3 DEF TypeOK, Phases, registry
<1>20. ASSUME NEW d \in Device, NEW c \in todo[d], Aborts(d, c) PROVE TypeInv'
    BY <1>0, <1>20 DEF Aborts, Forget, TypeOK, Phases, registry
<1>21. ASSUME NEW d \in Device, NEW k \in wanted[d], BoundFound(d, k) PROVE TypeInv'
    BY <1>0, <1>21 DEF BoundFound, TypeOK, Phases, channels, registry
<1>22. CASE UNCHANGED vars
    BY <1>22 DEF vars, device, channels, registry, TypeOK, Phases
<1> QED
    BY <1>1, <1>2, <1>3, <1>4, <1>5, <1>6, <1>7, <1>8, <1>9, <1>10, <1>11,
       <1>12, <1>13, <1>14, <1>15, <1>16, <1>17, <1>18, <1>19, <1>20, <1>21,
       <1>22 DEF Next, DeviceStep

\* Everything has its type, and a device is canceled only while it has a reset
\* to carry out: for every topology, whatever its links, and any devices.
THEOREM TypeCorrect == Spec => []TypeOK
<1>1. Init => TypeInv
    BY TypeInit
<1>2. TypeInv /\ [Next]_vars => TypeInv'
    BY TypeNext
<1>3. TypeInv => TypeOK
    BY DEF TypeInv
<1> QED
    BY <1>1, <1>2, <1>3, PTL DEF Spec

-----------------------------------------------------------------------------
(* Addresses are current.                                                  *)

\* The devices are being reset.
Resetting ==
    \E d \in Device : order[d] = "RESET_DEVICE" \/ state[d] = "Aborted"

\* Then all of them have been told to, or have done so.
AllReset ==
    Resetting =>
        \A d \in Device :
            \/ order[d] = "RESET_DEVICE"
            \/ order[d] = "none" /\ state[d] \in {"Idle", "Aborted", "Down"}

\* A device that is not bound has no addresses, and what it has written will
\* be deleted.
Cleared ==
    \A k \in Key :
        /\ state[k[1]] \notin {"Bound", "DeviceReady"} => address[k] = <<>>
        /\ state[k[1]] \notin {"Bound", "DeviceReady", "Aborted"} =>
              socketKey[k] = <<>>
        /\ socketKey[k] # <<>> => <<"socket", k[2]>> \in fRegisteredKeys[k[1]]

\* An address of a socket that is bound now.
Current(a) ==
    /\ state[a.owner] \in {"Bound", "DeviceReady"}
    /\ a.channel \in ChannelsOf(a.owner, "bind")
    /\ a \in ToSet(address[<<a.owner, a.channel>>])

\* Unless devices are being reset, every address anywhere is current.
AllCurrent ==
    ~ Resetting =>
        \A k \in Key :
            \A a \in ToSet(address[k]) \union ToSet(socketKey[k]) : Current(a)

\* The inductive invariant.
CurrentInv == AllReset /\ Cleared /\ AllCurrent

\* It holds at the start.
LEMMA CurrentInit == Init => CurrentInv
BY DEF Init, CurrentInv, AllReset, Cleared, AllCurrent, Resetting, ToSet, Key

\* The resets that are under way end together.
LEMMA ResetStep ==
    ASSUME TypeInv, AllReset, AddressesFound, [Next]_vars
    PROVE  /\ AllReset'
           /\ Resetting /\ ~ Resetting' => Quiet'
<1> USE DEF TypeInv
<1>1. ASSUME NEW d \in Device, Start(d) \/ Leave(d)
      PROVE  AllReset' /\ ~ Resetting
    BY <1>1 DEF Start, Leave, Quiet, AllReset, Resetting, TypeOK
<1>2. ASSUME NEW cmd \in DOMAIN Accepts, Broadcast(cmd)
      PROVE  AllReset' /\ (Resetting => Resetting')
  <2>1. \A d \in Device : d \in Up \/ state[d] = "Down"
    BY DEF Up
  <2>2. /\ \A d \in Up : order[d] = "none"
        /\ order' = [d \in Device |-> IF d \in Up THEN cmd ELSE "none"]
        /\ state' = state
    BY <1>2 DEF Broadcast
  <2>3. ~ Resetting
    <3>1. PICK s \in topo.sentIn[cmd] : \A d \in Up : state[d] = s
      BY <1>2 DEF Broadcast
    <3>2. s # "Aborted"
      BY SentStates DEF TypeOK
    <3> QED
      BY <2>1, <2>2, <3>1, <3>2 DEF Resetting, Phases, Up
  <2>4. \A d \in Device : order'[d] = IF d \in Up THEN cmd ELSE "none"
    BY <2>2
  <2>5. CASE cmd = "RESET_DEVICE"
    BY <2>1, <2>2, <2>3, <2>4, <2>5 DEF AllReset
  <2>6. CASE cmd # "RESET_DEVICE"
    BY <2>1, <2>2, <2>3, <2>4, <2>6 DEF AllReset, Resetting
  <2> QED
    BY <2>3, <2>5, <2>6
<1>3. ASSUME NEW d \in Device, InitDevice(d) \/ InitializeDone(d) \/ Bind(d)
                               \/ Connect(d)
      PROVE  AllReset' /\ ~ Resetting
    BY <1>3 DEF InitDevice, InitializeDone, Bind, Connect, AllReset, Resetting,
                TypeOK, Phases
<1>4. ASSUME NEW d \in Device, ResetDevice(d) \/ Expire(d)
      PROVE  /\ AllReset'
             /\ ~ Resetting' => Quiet'
  <2>1. Resetting
    BY <1>4 DEF ResetDevice, Expire, Resetting
  <2>2. /\ \/ state' = [state EXCEPT ![d] = "Idle"]
           \/ state' = [state EXCEPT ![d] = "Down"]
        /\ order' = [order EXCEPT ![d] = "none"]
    BY <1>4 DEF ResetDevice, Forget, Expire, TypeOK, Phases
  <2>3. ASSUME NEW e \in Device, e # d
        PROVE  state'[e] = state[e] /\ order'[e] = order[e]
    BY <2>2, <2>3 DEF TypeOK
  <2>4. state'[d] \in {"Idle", "Down"} /\ order'[d] = "none"
    BY <2>2 DEF TypeOK
  <2>5. AllReset'
    BY <2>1, <2>3, <2>4 DEF AllReset
  <2>6. ASSUME ~ Resetting', NEW e \in Device
        PROVE  state'[e] \in {"Idle", "Down"} /\ order'[e] = "none"
    BY <2>1, <2>3, <2>4, <2>6 DEF AllReset, Resetting
  <2> QED
    BY <2>5, <2>6 DEF Quiet
<1>5. ASSUME NEW d \in Device, NEW c \in todo[d], Aborts(d, c)
      PROVE  AllReset' /\ Resetting'
  <2>1. order[d] = "RESET_DEVICE"
    BY <1>5 DEF Aborts, AddressesFound, Unresolvable, TypeOK
  <2> QED
    BY <1>5, <2>1 DEF Aborts, Forget, AllReset, Resetting, TypeOK
<1>6. ASSUME UNCHANGED <<state, order>>
      PROVE  AllReset' /\ (Resetting => Resetting')
    BY <1>6 DEF AllReset, Resetting
<1>7. ASSUME NEW d \in Device, DeviceStep(d)
      PROVE  \/ InitDevice(d) \/ InitializeDone(d) \/ Bind(d) \/ Connect(d)
             \/ ResetDevice(d) \/ Expire(d) \/ \E c \in todo[d] : Aborts(d, c)
             \/ UNCHANGED <<state, order>>
    BY <1>7 DEF DeviceStep, WaitBindAddress, WaitBindAddressReturns,
                WriteConnectAddress, WaitForPeerConnection, HandshakeCanceled,
                ReceiveReset, InitializeChannel, WriteBindAddress,
                ConfigConnect, ResolveConnectAddress, BoundFound
<1>8. UNCHANGED vars => UNCHANGED <<state, order>>
    BY DEF vars, device
<1> QED
    BY <1>1, <1>2, <1>3, <1>4, <1>5, <1>6, <1>7, <1>8 DEF Next

\* A device that leaves Bound clears its addresses and deletes its keys.
LEMMA ClearedStep ==
    ASSUME TypeInv, Cleared, [Next]_vars
    PROVE  Cleared'
<1> USE DEF TypeInv
<1>1. ASSUME NEW d \in Device, Start(d) PROVE Cleared'
    BY <1>1, Keys DEF Start, Cleared, TypeOK, channels, registry
<1>2. ASSUME NEW d \in Device, Leave(d) \/ Expire(d) PROVE Cleared'
  <2>1. state' = [state EXCEPT ![d] = "Down"] /\ UNCHANGED address /\ Unregister(d)
    BY <1>2 DEF Leave, Expire
  <2>2. state[d] \notin {"Bound", "DeviceReady"}
    BY <1>2 DEF Leave, Expire
  <2> QED
    BY <2>1, <2>2, Keys DEF Unregister, Cleared, TypeOK
<1>3. ASSUME NEW d \in Device, InitDevice(d) \/ InitializeDone(d) \/ Connect(d)
      PROVE  Cleared'
  <2>1. /\ state' = [state EXCEPT ![d] = state'[d]]
        /\ \/ state'[d] = "DeviceReady" /\ state[d] = "Bound"
           \/ state[d] \notin {"Bound", "DeviceReady", "Aborted"}
        /\ UNCHANGED <<channels, registry>>
    BY <1>3 DEF InitDevice, InitializeDone, Connect, TypeOK, Phases
  <2> QED
    BY <2>1, Keys DEF Cleared, TypeOK, channels, registry
<1>4. ASSUME NEW d \in Device, Bind(d) PROVE Cleared'
    BY <1>4, Keys DEF Bind, Cleared, TypeOK, Phases, registry
<1>5. ASSUME NEW d \in Device, ResetDevice(d) PROVE Cleared'
    BY <1>5, Keys DEF ResetDevice, Forget, Unregister, Cleared, TypeOK
<1>6. ASSUME NEW d \in Device, NEW c \in todo[d], Aborts(d, c) PROVE Cleared'
    BY <1>6, Keys DEF Aborts, Forget, Cleared, TypeOK, registry
<1>7. ASSUME NEW d \in Device, NEW c \in todo[d], InitializeChannel(d, c)
      PROVE  Cleared'
  <2>1. /\ UNCHANGED <<state, address, socketKey>>
        /\ \A e \in Device : fRegisteredKeys[e] \subseteq fRegisteredKeys'[e]
    <3>1. /\ UNCHANGED <<state, address>>
          /\ \E n : WriteChannel(d, c, n, PeersOf(d, c))
      BY <1>7 DEF InitializeChannel
    <3>2. \/ UNCHANGED <<fRegisteredKeys, socketKey>>
          \/ /\ fRegisteredKeys' = [fRegisteredKeys EXCEPT ![d] =
                                  @ \union {<<"channel", c>>, <<"peer", c>>}]
             /\ socketKey' = socketKey
      BY <3>1 DEF WriteChannel, registry
    <3>3. CASE UNCHANGED fRegisteredKeys
      BY <3>1, <3>2, <3>3
    <3>4. CASE fRegisteredKeys' = [fRegisteredKeys EXCEPT ![d] =
                                  @ \union {<<"channel", c>>, <<"peer", c>>}]
      BY <3>1, <3>2, <3>4 DEF TypeOK
    <3> QED
      BY <3>2, <3>3, <3>4
  <2> QED
    BY <2>1, Keys DEF Cleared
<1>8. ASSUME NEW d \in Device, NEW c \in todo[d], WriteBindAddress(d, c)
      PROVE  Cleared'
  <2>1. /\ UNCHANGED <<state, address>> /\ state[d] = "Bound"
        /\ \A e \in Device : fRegisteredKeys[e] \subseteq fRegisteredKeys'[e]
        /\ <<"socket", c>> \in fRegisteredKeys'[d]
    BY <1>8 DEF WriteBindAddress, TypeOK, Phases
  <2>2. \A k \in Key : k # <<d, c>> => socketKey'[k] = socketKey[k]
    BY <1>8 DEF WriteBindAddress, TypeOK
  <2>3. \A k \in Key : k = <<d, c>> => k[1] = d /\ k[2] = c
    OBVIOUS
  <2> QED
    BY <2>1, <2>2, <2>3, Keys DEF Cleared
<1>9. ASSUME NEW d \in Device, WriteConnectAddress(d) PROVE Cleared'
    BY <1>9, Keys DEF WriteConnectAddress, Cleared, TypeOK, Phases
<1>10. ASSUME NEW d \in Device, NEW c \in todo[d],
              ConfigConnect(d, c) \/ ResolveConnectAddress(d, c)
       PROVE  Cleared'
  <2>1. /\ state[d] = "Bound" /\ UNCHANGED <<state, fRegisteredKeys, registry>>
        /\ \A k \in Key : k[1] # d => address'[k] = address[k]
    <3>1. step[d] = "resolve" /\ UNCHANGED <<state, fRegisteredKeys, registry>>
      BY <1>10 DEF ConfigConnect, ResolveConnectAddress
    <3>2. address' = [address EXCEPT ![<<d, c>>] = address'[<<d, c>>]]
      <4>1. <<d, c>> \in Key
        BY DEF TypeOK, Key
      <4> QED
        BY <1>10, <4>1 DEF ConfigConnect, ResolveConnectAddress, TypeOK
    <3>3. \A k \in Key : k[1] # d => k # <<d, c>>
      OBVIOUS
    <3>4. state[d] = "Bound"
      BY <3>1 DEF Phases
    <3>5. \A k \in Key : k[1] # d => address'[k] = address[k]
      BY <3>2, <3>3 DEF TypeOK
    <3> QED
      BY <3>1, <3>4, <3>5
  <2> QED
    BY <2>1, Keys DEF Cleared, registry
<1>11. ASSUME UNCHANGED <<state, channels, registry>> PROVE Cleared'
    BY <1>11 DEF Cleared, channels, registry
<1>12. ASSUME NEW d \in Device,
              \/ WaitBindAddress(d) \/ WaitBindAddressReturns(d)
              \/ WaitForPeerConnection(d) \/ HandshakeCanceled(d)
              \/ ReceiveReset(d) \/ \E k \in wanted[d] : BoundFound(d, k)
       PROVE  UNCHANGED <<state, channels, registry>>
    BY <1>12 DEF WaitBindAddress, WaitBindAddressReturns,
                 WaitForPeerConnection, HandshakeCanceled, ReceiveReset,
                 BoundFound
<1>13. ASSUME NEW cmd \in DOMAIN Accepts, Broadcast(cmd)
       PROVE  UNCHANGED <<state, channels, registry>>
    BY <1>13 DEF Broadcast
<1>14. UNCHANGED vars => UNCHANGED <<state, channels, registry>>
    BY DEF vars, device
<1>15. ASSUME NEW d \in Device, DeviceStep(d) PROVE Cleared'
    BY <1>2, <1>3, <1>4, <1>5, <1>6, <1>7, <1>8, <1>9, <1>10, <1>11, <1>12,
       <1>15 DEF DeviceStep
<1> QED
    BY <1>1, <1>2, <1>11, <1>13, <1>14, <1>15 DEF Next

\* The channels a loop of a callback still has to go through.
Todo ==
    \A d \in Device :
        /\ step[d] = "init" => todo[d] \subseteq ChannelsOf(d, "bind")
                                             \union ChannelsOf(d, "connect")
        /\ step[d] = "writeBind" => todo[d] \subseteq ChannelsOf(d, "bind")
        /\ step[d] = "resolve" => todo[d] \subseteq ChannelsOf(d, "connect")

\* Every step keeps that, and the configuration.
LEMMA TodoStep ==
    ASSUME TypeInv, Todo, [Next]_vars
    PROVE  Todo' /\ topo' = topo /\ \A d, m : ChannelsOf(d, m)' = ChannelsOf(d, m)
<1> USE DEF TypeInv
<1>1. topo' = topo
  <2>1. ASSUME NEW d \in Device,
               \/ Start(d) \/ Leave(d) \/ InitDevice(d) \/ InitializeDone(d)
               \/ Bind(d) \/ WaitBindAddress(d) \/ WaitBindAddressReturns(d)
        PROVE  topo' = topo
    BY <2>1 DEF Start, Leave, InitDevice, InitializeDone, Bind,
                WaitBindAddress, WaitBindAddressReturns
  <2>2. ASSUME NEW d \in Device,
               \/ WriteConnectAddress(d) \/ WaitForPeerConnection(d)
               \/ HandshakeCanceled(d) \/ Connect(d) \/ ReceiveReset(d)
               \/ ResetDevice(d) \/ Expire(d)
               \/ \E k \in wanted[d] : BoundFound(d, k)
        PROVE  topo' = topo
    BY <2>2 DEF WriteConnectAddress, WaitForPeerConnection, HandshakeCanceled,
                Connect, ReceiveReset, ResetDevice, Expire, BoundFound
  <2>3. ASSUME NEW d \in Device, NEW c \in todo[d],
               \/ InitializeChannel(d, c) \/ WriteBindAddress(d, c)
               \/ ConfigConnect(d, c) \/ ResolveConnectAddress(d, c) \/ Aborts(d, c)
        PROVE  topo' = topo
    BY <2>3 DEF InitializeChannel, WriteBindAddress, ConfigConnect,
                ResolveConnectAddress, Aborts
  <2>4. ASSUME NEW cmd \in DOMAIN Accepts, Broadcast(cmd) PROVE topo' = topo
    BY <2>4 DEF Broadcast
  <2>5. UNCHANGED vars => topo' = topo
    BY DEF vars
  <2>6. ASSUME NEW d \in Device, DeviceStep(d) PROVE topo' = topo
    BY <2>1, <2>2, <2>3, <2>6 DEF DeviceStep
  <2> QED
    BY <2>1, <2>4, <2>5, <2>6 DEF Next
<1>2. \A d, m : ChannelsOf(d, m)' = ChannelsOf(d, m)
    BY <1>1 DEF ChannelsOf
<1>3. ASSUME NEW d \in Device,
             \/ step' = step /\ todo' = todo
             \/ /\ \A e \in Device \ {d} : step'[e] = step[e] /\ todo'[e] = todo[e]
                /\ \/ step'[d] \notin {"init", "writeBind", "resolve"}
                   \/ step'[d] = "init" /\ todo'[d] = ChannelsOf(d, "bind")
                                                 \union ChannelsOf(d, "connect")
                   \/ step'[d] = step[d] /\ todo'[d] \subseteq todo[d]
                   \/ step'[d] = "writeBind" /\ todo'[d] = ChannelsOf(d, "bind")
                   \/ step'[d] = "resolve" /\ todo'[d] = ChannelsOf(d, "connect")
      PROVE  Todo'
    BY <1>2, <1>3 DEF Todo
<1>4. ASSUME NEW d \in Device, Start(d) \/ Leave(d) PROVE Todo'
    BY <1>3, <1>4 DEF Start, Leave
<1>5. ASSUME NEW cmd \in DOMAIN Accepts, Broadcast(cmd) PROVE Todo'
    BY <1>2, <1>5 DEF Broadcast, Todo
<1>6. ASSUME NEW d \in Device, InitDevice(d) \/ InitializeDone(d) \/ Bind(d)
      PROVE  Todo'
    BY <1>3, <1>6 DEF InitDevice, InitializeDone, Bind, TypeOK
<1>7. ASSUME NEW d \in Device, WaitBindAddress(d) \/ WaitBindAddressReturns(d)
                               \/ WriteConnectAddress(d)
      PROVE  Todo'
    BY <1>3, <1>7 DEF WaitBindAddress, WaitBindAddressReturns,
                      WriteConnectAddress, TypeOK
<1>8. ASSUME NEW d \in Device, WaitForPeerConnection(d) \/ HandshakeCanceled(d)
                               \/ Connect(d) \/ ReceiveReset(d)
      PROVE  Todo'
    BY <1>3, <1>8 DEF WaitForPeerConnection, HandshakeCanceled, Connect,
                      ReceiveReset, TypeOK
<1>9. ASSUME NEW d \in Device, ResetDevice(d) \/ Expire(d)
      PROVE  Todo'
    BY <1>3, <1>9 DEF ResetDevice, Expire
<1>10. ASSUME NEW d \in Device, NEW c \in todo[d],
              InitializeChannel(d, c) \/ WriteBindAddress(d, c) \/ Aborts(d, c)
       PROVE  Todo'
    BY <1>3, <1>10 DEF InitializeChannel, WriteBindAddress, Aborts, TypeOK
<1>11. ASSUME NEW d \in Device, NEW c \in todo[d],
              ConfigConnect(d, c) \/ ResolveConnectAddress(d, c)
       PROVE  Todo'
  <2>1. /\ todo' = [todo EXCEPT ![d] = @ \ {c}]
        /\ step' = [step EXCEPT ![d] = IF todo[d] = {c} THEN "resolved" ELSE @]
    BY <1>11 DEF ConfigConnect, ResolveConnectAddress
  <2>2. /\ \A e \in Device \ {d} : step'[e] = step[e] /\ todo'[e] = todo[e]
        /\ \/ step'[d] = "resolved"
           \/ step'[d] = step[d] /\ todo'[d] \subseteq todo[d]
    BY <2>1 DEF TypeOK
  <2> QED
    BY <1>3, <2>2
<1>12. ASSUME NEW d \in Device, NEW k \in wanted[d], BoundFound(d, k)
       PROVE  Todo'
    BY <1>3, <1>12 DEF BoundFound
<1>13. CASE UNCHANGED vars
    BY <1>2, <1>13 DEF vars, device, Todo
<1>14. ASSUME NEW d \in Device, DeviceStep(d) PROVE Todo'
    BY <1>6, <1>7, <1>8, <1>9, <1>10, <1>11, <1>12, <1>14 DEF DeviceStep
<1> QED
    BY <1>1, <1>2, <1>4, <1>5, <1>13, <1>14 DEF Next

\* Where an address comes from.
Known(a) == \E k \in Key : a \in ToSet(address[k]) \union ToSet(socketKey[k])

\* Sockets stay bound while the devices are not being reset, and an address is
\* read from the registry or is that of a socket just bound.
StaysBound ==
    \A d \in Device :
        state[d] \in {"Bound", "DeviceReady"} =>
            /\ state'[d] \in {"Bound", "DeviceReady"}
            /\ \A c \in ChannelsOf(d, "bind") : address'[<<d, c>>] = address[<<d, c>>]

\* A step that makes no other address than those of the sockets it binds.
FromKnown ==
    \A k \in Key : \A a \in ToSet(address'[k]) \union ToSet(socketKey'[k]) :
        Known(a) \/ Current(a)'

\* The addresses a device can read are known.
LEMMA KnownParts ==
    ASSUME NEW k \in Key
    PROVE  /\ \A a \in ToSet(address[k]) : Known(a)
           /\ \A a \in ToSet(socketKey[k]) : Known(a)
           /\ \A a \in Addresses : Known(a)
BY DEF Known, Addresses

\* Every step of devices that are not being reset is such a step.
LEMMA AddressStep ==
    ASSUME TypeInv, Todo, ~ Resetting, AddressesFound, [Next]_vars
    PROVE  StaysBound /\ FromKnown
<1> USE DEF TypeInv
<1>1. ASSUME UNCHANGED <<address, socketKey>>,
             \A d \in Device : state[d] \in {"Bound", "DeviceReady"} =>
                                state'[d] \in {"Bound", "DeviceReady"}
      PROVE  StaysBound /\ FromKnown
    BY <1>1 DEF StaysBound, FromKnown, Known
<1>2. ASSUME NEW d \in Device, Start(d) PROVE StaysBound /\ FromKnown
    BY <1>1, <1>2 DEF Start, TypeOK, channels, registry
<1>3. ASSUME NEW d \in Device, Leave(d) PROVE StaysBound /\ FromKnown
  <2>1. /\ UNCHANGED address /\ state[d] = "Idle"
        /\ \A e \in Device : e # d => state'[e] = state[e]
        /\ \A k \in Key : socketKey'[k] = <<>> \/ socketKey'[k] = socketKey[k]
    BY <1>3 DEF Leave, Unregister, TypeOK
  <2>2. ToSet(<<>>) = {}
    BY DEF ToSet
  <2> QED
    BY <2>1, <2>2 DEF StaysBound, FromKnown, Known
<1>4. ASSUME NEW cmd \in DOMAIN Accepts, Broadcast(cmd)
      PROVE  StaysBound /\ FromKnown
    BY <1>1, <1>4 DEF Broadcast, channels, registry
<1>5. ASSUME NEW d \in Device, InitDevice(d) \/ InitializeDone(d) \/ Connect(d)
      PROVE  StaysBound /\ FromKnown
    BY <1>1, <1>5 DEF InitDevice, InitializeDone, Connect, Phases, TypeOK,
                      channels, registry
<1>6. ASSUME NEW d \in Device, Bind(d) PROVE StaysBound /\ FromKnown
  <2>1. state[d] = "Initialized" /\ state' = [state EXCEPT ![d] = "Bound"]
    BY <1>6 DEF Bind, Phases
  <2>2. address' = [k \in Key |->
                     IF k[1] = d /\ k[2] \in ChannelsOf(d, "bind")
                     THEN BoundSockets(d, k[2]) ELSE address[k]]
    BY <1>6 DEF Bind
  <2>3. socketKey' = socketKey /\ topo' = topo
    BY <1>6 DEF Bind, registry
  <2>4. StaysBound
    <3>1. ASSUME NEW e \in Device, NEW c \in ChannelsOf(e, "bind"), e # d
          PROVE  address'[<<e, c>>] = address[<<e, c>>]
      <4>1. <<e, c>> \in Key /\ <<e, c>>[1] # d
        BY <3>1 DEF Key, ChannelsOf
      <4> QED
        BY <2>2, <4>1
    <3> QED
      BY <2>1, <3>1 DEF StaysBound, TypeOK
  <2>5. ASSUME NEW k \in Key, k[1] = d, k[2] \in ChannelsOf(d, "bind"),
               NEW a \in ToSet(address'[k])
        PROVE  Current(a)'
    <3>1. address'[k] = BoundSockets(d, k[2]) /\ k = <<d, k[2]>>
      BY <2>2, <2>5, Keys
    <3>2. a.owner = d /\ a.channel = k[2]
      BY <2>5, <3>1 DEF BoundSockets, ToSet
    <3>3. ChannelsOf(d, "bind")' = ChannelsOf(d, "bind")
      BY <2>3 DEF ChannelsOf
    <3> QED
      BY <2>1, <2>5, <3>1, <3>2, <3>3 DEF Current, ChannelsOf, TypeOK
  <2>6. ASSUME NEW k \in Key, ~ (k[1] = d /\ k[2] \in ChannelsOf(d, "bind"))
        PROVE  address'[k] = address[k]
    BY <2>2, <2>6
  <2> QED
    BY <2>3, <2>4, <2>5, <2>6 DEF FromKnown, Known
<1>7. ASSUME NEW d \in Device, ResetDevice(d) \/ Expire(d) PROVE FALSE
    BY <1>7 DEF ResetDevice, Expire, Resetting
<1>8. ASSUME NEW d \in Device, NEW c \in todo[d], Aborts(d, c) PROVE FALSE
    BY <1>8 DEF Aborts, AddressesFound, Unresolvable, Resetting, TypeOK
<1>9. ASSUME NEW d \in Device, NEW c \in todo[d], InitializeChannel(d, c)
      PROVE  StaysBound /\ FromKnown
  <2>1. /\ UNCHANGED <<state, address>>
        /\ \E n : WriteChannel(d, c, n, PeersOf(d, c))
    BY <1>9 DEF InitializeChannel
  <2>2. socketKey' = socketKey
    BY <2>1 DEF WriteChannel, registry
  <2> QED
    BY <1>1, <2>1, <2>2
<1>10. ASSUME NEW d \in Device, NEW c \in todo[d], WriteBindAddress(d, c)
       PROVE  StaysBound /\ FromKnown
  <2>1. <<d, c>> \in Key
    BY DEF Key, TypeOK
  <2>2. /\ UNCHANGED <<state, address>>
        /\ \A k \in Key : \/ socketKey'[k] = socketKey[k]
                          \/ socketKey'[k] = Published(address[k])
    BY <1>10, <2>1 DEF WriteBindAddress, TypeOK
  <2>3. \A k \in Key : ToSet(Published(address[k])) \subseteq ToSet(address[k])
    BY PublishedList DEF TypeOK
  <2> QED
    BY <2>2, <2>3 DEF StaysBound, FromKnown, Known
<1>11. ASSUME NEW d \in Device, WriteConnectAddress(d)
       PROVE  StaysBound /\ FromKnown
  <2>1. /\ UNCHANGED <<state, address>>
        /\ \A k \in Key : \/ socketKey'[k] = socketKey[k]
                          \/ socketKey'[k] = Published(address[k])
    BY <1>11 DEF WriteConnectAddress, TypeOK
  <2>2. \A k \in Key : ToSet(Published(address[k])) \subseteq ToSet(address[k])
    BY PublishedList DEF TypeOK
  <2> QED
    BY <2>1, <2>2 DEF StaysBound, FromKnown, Known
<1>12. ASSUME NEW d \in Device, NEW c \in todo[d],
              ConfigConnect(d, c) \/ ResolveConnectAddress(d, c)
       PROVE  StaysBound /\ FromKnown
  <2>1. <<d, c>> \in Key /\ c \in Channel
    BY DEF Key, TypeOK
  <2>2. c \notin ChannelsOf(d, "bind")
    BY <1>12 DEF ConfigConnect, ResolveConnectAddress, Todo, ChannelsOf
  <2>3. /\ UNCHANGED <<state, socketKey>>
        /\ address' = [address EXCEPT ![<<d, c>>] = address'[<<d, c>>]]
    BY <1>12, <2>1 DEF ConfigConnect, ResolveConnectAddress, TypeOK, registry
  <2>4. ASSUME NEW a \in ToSet(address'[<<d, c>>]) PROVE Known(a)
    <3>1. CASE ResolveConnectAddress(d, c)
      <4>1. address'[<<d, c>>] = Resolution(<<d, c>>).found
        BY <3>1, <2>1 DEF ResolveConnectAddress, TypeOK
      <4>2. address'[<<d, c>>] \in Seq(Addresses)
        BY <4>1, <2>1, ListsTyped, ResolutionResult DEF Results
      <4>3. a \in Addresses
        BY <4>2 DEF ToSet
      <4> QED
        BY <4>3, <2>1, KnownParts
    <3>2. CASE ConfigConnect(d, c) /\ <<d.service, c>> \in DOMAIN topo.connectConfig
      <4>1. address'[<<d, c>>] = address[<<d, c>>] \o Configured(<<d, c>>)
        BY <3>2, <2>1 DEF ConfigConnect, TypeOK
      <4>2. Configured(<<d, c>>) \in Seq(Addresses)
        BY <3>2, ListsTyped, ConfiguredResult DEF TypeOK
      <4>3. address[<<d, c>>] \in Seq(SocketAddress)
        BY <2>1 DEF TypeOK
      <4>4. a \in ToSet(address[<<d, c>>]) \/ a \in Addresses
        <5>1. Configured(<<d, c>>) \in Seq(SocketAddress)
          BY <4>2, ListsTyped
        <5>2. a \in ToSet(address[<<d, c>>]) \/ a \in ToSet(Configured(<<d, c>>))
          BY <4>1, <4>3, <5>1, Concatenation
        <5> QED
          BY <4>2, <5>2 DEF ToSet
      <4> QED
        BY <4>4, <2>1, KnownParts
    <3>3. CASE ConfigConnect(d, c) /\ <<d.service, c>> \notin DOMAIN topo.connectConfig
      <4>1. address'[<<d, c>>] = address[<<d, c>>]
        BY <3>3, <2>1 DEF ConfigConnect, TypeOK
      <4> QED
        BY <4>1, <2>1, KnownParts
    <3> QED
      BY <1>12, <3>1, <3>2, <3>3
  <2>5. \A k \in Key : k # <<d, c>> => address'[k] = address[k]
    BY <2>1, <2>3 DEF TypeOK
  <2>6. FromKnown
    BY <2>3, <2>4, <2>5, KnownParts DEF FromKnown
  <2>7. ASSUME NEW e \in Device, NEW b \in ChannelsOf(e, "bind")
        PROVE  address'[<<e, b>>] = address[<<e, b>>]
    <3>1. <<e, b>> \in Key /\ <<e, b>> # <<d, c>>
      BY <2>2 DEF Key, ChannelsOf
    <3> QED
      BY <2>5, <3>1
  <2> QED
    BY <2>3, <2>6, <2>7 DEF StaysBound
<1>13. ASSUME NEW d \in Device,
              \/ WaitBindAddress(d) \/ WaitBindAddressReturns(d)
              \/ WaitForPeerConnection(d) \/ HandshakeCanceled(d)
              \/ ReceiveReset(d) \/ \E k \in wanted[d] : BoundFound(d, k)
       PROVE  StaysBound /\ FromKnown
  <2>1. UNCHANGED <<state, address, socketKey>>
    BY <1>13 DEF WaitBindAddress, WaitBindAddressReturns,
                 WaitForPeerConnection, HandshakeCanceled, ReceiveReset,
                 BoundFound, channels, registry
  <2> QED
    BY <1>1, <2>1
<1>14. CASE UNCHANGED vars
    BY <1>1, <1>14 DEF vars, device, channels, registry
<1>15. ASSUME NEW d \in Device, DeviceStep(d) PROVE StaysBound /\ FromKnown
    BY <1>5, <1>6, <1>7, <1>8, <1>9, <1>10, <1>11, <1>12, <1>13, <1>15
    DEF DeviceStep
<1> QED
    BY <1>2, <1>3, <1>4, <1>14, <1>15 DEF Next

\* Every step keeps the invariant while addresses are found.
LEMMA CurrentStep ==
    ASSUME TypeInv, TypeInv', Todo, CurrentInv, AddressesFound, [Next]_vars
    PROVE  CurrentInv'
<1>1. /\ AllReset'
      /\ Resetting /\ ~ Resetting' => Quiet'
    BY ResetStep DEF CurrentInv
<1>2. Cleared'
    BY ClearedStep DEF CurrentInv
<1>3. ASSUME ~ Resetting', NEW k \in Key,
             NEW a \in ToSet(address'[k]) \union ToSet(socketKey'[k])
      PROVE  Current(a)'
  <2>1. CASE Resetting
    <3>1. state'[k[1]] \in {"Idle", "Down"}
      BY <1>1, <1>3, <2>1, Keys DEF Quiet
    <3>2. address'[k] = <<>> /\ socketKey'[k] = <<>>
      BY <1>2, <3>1 DEF Cleared
    <3> QED
      BY <1>3, <3>2 DEF ToSet
  <2>2. CASE ~ Resetting
    <3>1. StaysBound /\ FromKnown
      BY <2>2, AddressStep
    <3>2. CASE Known(a)
      <4>1. Current(a)
        BY <2>2, <3>2 DEF CurrentInv, AllCurrent, Known
      <4>2. a \in SocketAddress
        <5>1. address'[k] \in Seq(SocketAddress) /\ socketKey'[k] \in Seq(SocketAddress)
          BY DEF TypeInv, TypeOK
        <5> QED
          BY <1>3, <5>1 DEF ToSet
      <4>3. a.owner \in Device
        BY <4>2 DEF SocketAddress
      <4>4. /\ state'[a.owner] \in {"Bound", "DeviceReady"}
            /\ a \in ToSet(address'[<<a.owner, a.channel>>])
        BY <3>1, <4>1, <4>3 DEF StaysBound, Current
      <4>5. a.channel \in ChannelsOf(a.owner, "bind")'
        BY <4>1, TodoStep DEF Current
      <4> QED
        BY <4>4, <4>5 DEF Current
    <3> QED
      BY <1>3, <3>1, <3>2 DEF FromKnown
  <2> QED
    BY <2>1, <2>2
<1>4. AllCurrent'
    BY <1>3 DEF AllCurrent
<1> QED
    BY <1>1, <1>2, <1>4 DEF CurrentInv

\* A device connects only to sockets that are bound now, for every topology, as
\* long as what ResolveConnectAddress takes for granted holds.
THEOREM CurrentAddresses ==
    Spec /\ []AddressesFound => []UsesCurrentAddresses
<1> DEFINE I == TypeInv /\ Todo /\ CurrentInv
<1>1. Init => I
  <2>1. Init => Todo
    BY DEF Init, Todo
  <2> QED
    BY <2>1, TypeInit, CurrentInit
<1>2. I /\ AddressesFound /\ [Next]_vars => I'
    BY TypeNext, TodoStep, CurrentStep
<1>3. I => UsesCurrentAddresses
  <2> SUFFICES ASSUME I, NEW d \in Device, Connected(d),
                      NEW c \in ChannelsOf(d, "connect"),
                      NEW a \in ToSet(address[<<d, c>>])
               PROVE  Current(a)
    BY DEF UsesCurrentAddresses, Current
  <2>1. ~ Resetting
    BY DEF CurrentInv, AllReset, Connected
  <2>2. <<d, c>> \in Key
    BY DEF Key, ChannelsOf
  <2> QED
    BY <2>1, <2>2 DEF CurrentInv, AllCurrent
<1> HIDE DEF I
<1> QED
    BY <1>1, <1>2, <1>3, PTL DEF Spec

-----------------------------------------------------------------------------
(* Addresses are found when the links are as in scripts/: each joins a      *)
(* channel that binds with a channel of another service that connects.      *)

Crossing ==
    \A t \in Topologies : \A l \in t.link :
        /\ l.L[1] # l.R[1]
        /\ {l.L, l.R} \subseteq DOMAIN t.endpoint
        /\ t.endpoint[l.L].method # t.endpoint[l.R].method

\* Then a link followed from a channel leads to a channel of the other method,
\* and back.
LEMMA CrossingLinks ==
    ASSUME Crossing, topo \in Topologies, NEW d \in Device, NEW c \in Channel,
           NEW l \in LinksOf(d, c)
    PROVE  /\ l \in [my : End, peer : End]
           /\ l.my = <<d.service, c>> /\ FarEnd(l, c) = l.peer
           /\ {l.my, l.peer} \subseteq DOMAIN topo.endpoint
           /\ topo.endpoint[l.my].method # topo.endpoint[l.peer].method
           /\ l \in Links(d)
           /\ \A e \in Device : e.service = l.peer[1] =>
                 [my |-> l.peer, peer |-> l.my] \in Links(e)
<1>1. l \in Links(d) /\ (l.my[1] = l.peer[1] \/ l.my[2] = c)
    BY DEF LinksOf
<1>2. l \in [my : End, peer : End]
    BY <1>1, LinkTypes
<1>3. PICK k \in topo.link : /\ d.service \in {k.L[1], k.R[1]}
                             /\ l = IF k.L[1] = d.service
                                    THEN [my |-> k.L, peer |-> k.R]
                                    ELSE [my |-> k.R, peer |-> k.L]
    BY <1>1 DEF Links
<1>4. /\ k.L[1] # k.R[1] /\ {k.L, k.R} \subseteq DOMAIN topo.endpoint
      /\ topo.endpoint[k.L].method # topo.endpoint[k.R].method
    BY DEF Crossing
<1>5. /\ l.my[1] = d.service /\ l.my[1] # l.peer[1]
      /\ {l.my, l.peer} \subseteq DOMAIN topo.endpoint
      /\ topo.endpoint[l.my].method # topo.endpoint[l.peer].method
    BY <1>3, <1>4
<1>6. l.my = <<d.service, c>>
    BY <1>1, <1>2, <1>5 DEF End
<1>7. FarEnd(l, c) = l.peer
    BY <1>5 DEF FarEnd
<1>8. ASSUME NEW e \in Device, e.service = l.peer[1]
      PROVE  [my |-> l.peer, peer |-> l.my] \in Links(e)
  <2>1. e.service \in {k.L[1], k.R[1]}
    BY <1>3, <1>8
  <2>2. [my |-> l.peer, peer |-> l.my] =
            IF k.L[1] = e.service THEN [my |-> k.L, peer |-> k.R]
                                  ELSE [my |-> k.R, peer |-> k.L]
    BY <1>3, <1>4, <1>8
  <2> QED
    BY <2>1, <2>2 DEF Links
<1> QED
    BY <1>1, <1>2, <1>5, <1>6, <1>7, <1>8

\* A peer is at the other end of a link, and lists the channel.
LEMMA PeersLinked ==
    ASSUME Crossing, topo \in Topologies, NEW d \in Up, NEW c \in Channel,
           NEW p \in PeersOf(d, c)
    PROVE  /\ p \in Key /\ p[1] \in Up /\ <<d, c>> \in PeersOf(p[1], p[2])
           /\ \E l \in LinksOf(d, c) : l.peer = <<p[1].service, p[2]>>
<1>0. d \in Device
    BY DEF Up
<1>1. PICK f \in Found(d, c) : p = <<f[2], FarEnd(f[1], c)[2]>>
    BY DEF PeersOf
<1> DEFINE l == f[1]
           e == f[2]
<1>2. l \in LinksOf(d, c) /\ e \in Device /\ e \in Present(FarEnd(l, c)[1])
    BY <1>1 DEF Found
<1>3. /\ l \in [my : End, peer : End]
      /\ l.my = <<d.service, c>> /\ FarEnd(l, c) = l.peer
      /\ {l.my, l.peer} \subseteq DOMAIN topo.endpoint
      /\ topo.endpoint[l.my].method # topo.endpoint[l.peer].method
      /\ l \in Links(d)
      /\ \A x \in Device : x.service = l.peer[1] =>
            [my |-> l.peer, peer |-> l.my] \in Links(x)
    BY <1>0, <1>2, CrossingLinks
<1>4. p = <<e, l.peer[2]>> /\ p[1] = e /\ p[2] = l.peer[2]
    BY <1>1, <1>3
<1>5. e.service = l.peer[1] /\ state[e] # "Down" /\ e \in Up
    BY <1>2, <1>3 DEF Present, Up
<1>6. l.peer = <<e.service, p[2]>> /\ p[2] \in Channel
    BY <1>3, <1>4, <1>5 DEF End
<1>7. p \in Key
    BY <1>2, <1>4, <1>6 DEF Key
<1>8. <<d, c>> \in PeersOf(p[1], p[2])
  <2> DEFINE b == [my |-> l.peer, peer |-> l.my]
  <2>1. b \in Links(e) /\ b.my = l.peer /\ b.peer = <<d.service, c>>
    BY <1>2, <1>3, <1>5
  <2>2. b \in LinksOf(e, p[2])
    BY <2>1, <1>6 DEF LinksOf
  <2>3. FarEnd(b, p[2]) = <<d.service, c>>
    BY <1>2, <1>6, <2>1, <2>2, CrossingLinks
  <2>4. d \in Present(d.service)
    BY DEF Present, Up
  <2>5. <<b, d>> \in Found(e, p[2])
    BY <1>0, <2>2, <2>3, <2>4 DEF Found
  <2>6. <<d, c>> = << <<b, d>>[2], FarEnd(<<b, d>>[1], p[2])[2] >>
    BY <2>3
  <2> QED
    BY <1>4, <2>5, <2>6 DEF PeersOf
<1> QED
    BY <1>2, <1>4, <1>5, <1>6, <1>7, <1>8

\* A peer of a connect channel binds, and is waited for; one of a bind channel
\* connects.
LEMMA PeersBind ==
    ASSUME Crossing, topo \in Topologies, NEW d \in Up, NEW c \in Channel,
           NEW p \in PeersOf(d, c)
    PROVE  /\ c \in ChannelsOf(d, "connect") =>
                 p \in Needs(d) /\ p[2] \in ChannelsOf(p[1], "bind")
           /\ c \in ChannelsOf(d, "bind") => p[2] \in ChannelsOf(p[1], "connect")
<1>0. d \in Device
    BY DEF Up
<1>1. /\ p \in Key /\ p[1] \in Up /\ p[1] \in Device /\ p[2] \in Channel
      /\ p = <<p[1], p[2]>>
    BY PeersLinked, Keys
<1>2. PICK l \in LinksOf(d, c) : l.peer = <<p[1].service, p[2]>>
    BY PeersLinked
<1>3. /\ l.my = <<d.service, c>> /\ l \in Links(d)
      /\ {l.my, l.peer} \subseteq DOMAIN topo.endpoint
      /\ topo.endpoint[l.my].method # topo.endpoint[l.peer].method
    BY <1>0, CrossingLinks
<1>4. /\ topo.endpoint[l.my] \in EndpointType
      /\ topo.endpoint[l.peer] \in EndpointType
    BY <1>3, TopologyAssumption
<1>5. ASSUME NEW m, NEW w, {m, w} = {"bind", "connect"}, c \in ChannelsOf(d, m)
      PROVE  p[2] \in ChannelsOf(p[1], w)
  <2>1. topo.endpoint[l.my].method = m
    BY <1>3, <1>5 DEF ChannelsOf
  <2>2. topo.endpoint[l.peer].method = w
    BY <1>3, <1>4, <1>5, <2>1 DEF EndpointType
  <2> QED
    BY <1>1, <1>2, <1>3, <2>2 DEF ChannelsOf
<1>6. ASSUME c \in ChannelsOf(d, "connect") PROVE p \in Needs(d)
  <2>1. l.peer \in OtherEnds(d, c)
    BY <1>3 DEF OtherEnds
  <2>2. p[1] \in Present(p[1].service)
    BY <1>1 DEF Present, Up
  <2>3. p \in Present(l.peer[1]) \X {l.peer[2]}
    BY <1>1, <1>2, <2>2
  <2> QED
    BY <1>6, <2>1, <2>3 DEF Needs, ChannelsAt
<1> QED
    BY <1>5, <1>6

\* Each peer is found along one link only.
LEMMA OneLinkPerPeer ==
    ASSUME Crossing, topo \in Topologies, NEW d \in Device, NEW c \in Channel
    PROVE  Cardinality(Found(d, c)) = Cardinality(PeersOf(d, c))
<1> DEFINE f == [x \in Found(d, c) |-> <<x[2], FarEnd(x[1], c)[2]>>]
<1>1. PeersOf(d, c) = {f[x] : x \in Found(d, c)}
    BY DEF PeersOf
<1>2. f \in Surjection(Found(d, c), PeersOf(d, c))
    BY <1>1 DEF Surjection
<1>3. ASSUME NEW x \in Found(d, c), NEW y \in Found(d, c), f[x] = f[y]
      PROVE  x = y
  <2>1. /\ x = <<x[1], x[2]>> /\ y = <<y[1], y[2]>>
        /\ x[1] \in LinksOf(d, c) /\ y[1] \in LinksOf(d, c)
        /\ x[2].service = FarEnd(x[1], c)[1] /\ y[2].service = FarEnd(y[1], c)[1]
    BY DEF Found, Present
  <2>2. /\ x[1] \in [my : End, peer : End] /\ y[1] \in [my : End, peer : End]
        /\ x[1].my = y[1].my
        /\ FarEnd(x[1], c) = x[1].peer /\ FarEnd(y[1], c) = y[1].peer
    BY <2>1, CrossingLinks
  <2>3. x[2] = y[2] /\ FarEnd(x[1], c)[2] = FarEnd(y[1], c)[2]
    BY <1>3
  <2>4. x[1].peer = y[1].peer
    BY <2>1, <2>2, <2>3 DEF End
  <2>5. x[1] = y[1]
    BY <2>2, <2>4
  <2> QED
    BY <2>1, <2>3, <2>5
<1>4. f \in Injection(Found(d, c), PeersOf(d, c))
    BY <1>1, <1>3 DEF Injection, IsInjective
<1>5. IsFiniteSet(Found(d, c))
    BY PeerTypes
<1> HIDE DEF f
<1> QED
    BY <1>2, <1>4, <1>5, FS_Surjection

\* If every command asks for one transition, the devices go from phase to phase
\* together.
PhaseSets ==
    {{<<"Idle", "none">>},
     {<<"Idle", "INIT_DEVICE">>, <<"InitializingDevice", "none">>,
      <<"Initialized", "none">>},
     {<<"Initialized", "BIND">>, <<"Bound", "none">>},
     {<<"Bound", "CONNECT">>, <<"DeviceReady", "none">>}}

\* Unless they are being reset, all devices are in one phase.
InStep ==
    ~ Resetting =>
        \E P \in PhaseSets : \A d \in Up : <<state[d], order[d]>> \in P

\* Every step keeps them together.
LEMMA PhaseStep ==
    ASSUME Stepwise, TypeInv, AllReset, InStep, AddressesFound, [Next]_vars
    PROVE  InStep'
<1> USE DEF TypeInv
<1>1. CASE Resetting
  <2>1. ~ Resetting' => Quiet'
    BY <1>1, ResetStep
  <2> QED
    BY <2>1 DEF InStep, Quiet, PhaseSets, Up
<1>2. CASE ~ Resetting
  <2>0. PICK P \in PhaseSets : \A d \in Up : <<state[d], order[d]>> \in P
    BY <1>2 DEF InStep
  <2>1. ASSUME NEW d \in Device, Start(d) \/ Leave(d) PROVE InStep'
    <3>1. Quiet'
      BY <2>1 DEF Start, Leave, Quiet, TypeOK
    <3> QED
      BY <3>1 DEF InStep, Quiet, PhaseSets, Up
  <2>2. ASSUME NEW cmd \in DOMAIN Accepts, Broadcast(cmd) PROVE InStep'
    <3>1. PICK s \in topo.sentIn[cmd] : \A d \in Up : state[d] = s
      BY <2>2 DEF Broadcast
    <3>2. /\ Up # {} /\ state' = state
          /\ order' = [d \in Device |-> IF d \in Up THEN cmd ELSE "none"]
      BY <2>2 DEF Broadcast
    <3>3. \A d \in Up : d \in Device /\ state'[d] = s /\ order'[d] = cmd
      BY <3>1, <3>2 DEF Up
    <3>4. Up' = Up
      BY <3>2 DEF Up
    <3>5. CASE cmd = "RESET_DEVICE"
      BY <3>2, <3>3, <3>5 DEF InStep, Resetting
    <3>6. CASE cmd # "RESET_DEVICE"
      <4>1. <<s, cmd>> \in {<<"Idle", "INIT_DEVICE">>, <<"Initialized", "BIND">>,
                            <<"Bound", "CONNECT">>}
        <5>1. cmd \in {"INIT_DEVICE", "BIND", "CONNECT"}
          BY <3>6, TopologyAssumption DEF Accepts
        <5> QED
          BY <3>1, <5>1 DEF Stepwise
      <4>2. \E Q \in PhaseSets : <<s, cmd>> \in Q
        BY <4>1 DEF PhaseSets
      <4> QED
        BY <3>3, <3>4, <4>2 DEF InStep
    <3> QED
      BY <3>5, <3>6
  <2>3. ASSUME NEW d \in Device,
               \A e \in Device : e # d => state'[e] = state[e] /\ order'[e] = order[e],
               \A Q \in PhaseSets : <<state[d], order[d]>> \in Q =>
                                    <<state'[d], order'[d]>> \in Q,
               state[d] # "Down"
        PROVE  InStep'
    <3>1. Up' \subseteq Up
      BY <2>3 DEF Up
    <3>2. \A e \in Up' : <<state'[e], order'[e]>> \in P
      BY <2>0, <2>3, <3>1 DEF Up
    <3> QED
      BY <3>2 DEF InStep
  <2>4. ASSUME NEW d \in Device, InitDevice(d) PROVE InStep'
    <3>0. d \in Up /\ <<state[d], order[d]>> \in P
          /\ state[d] = "Idle" /\ order[d] # "none"
      BY <2>0, <2>4 DEF InitDevice, Up
    <3>3. order[d] = "INIT_DEVICE"
      BY <3>0 DEF PhaseSets
    <3>1. /\ \A e \in Device : e # d => /\ state'[e] = state[e]
                                        /\ order'[e] = order[e]
          /\ <<state[d], order[d]>> = <<"Idle", "INIT_DEVICE">>
          /\ <<state'[d], order'[d]>> = <<"InitializingDevice", "none">>
      BY <2>4, <3>3 DEF InitDevice, TypeOK, Phases
    <3>2. \A Q \in PhaseSets :
             <<"Idle", "INIT_DEVICE">> \in Q => <<"InitializingDevice", "none">> \in Q
      BY DEF PhaseSets
    <3> QED
      BY <2>3, <3>1, <3>2
  <2>5. ASSUME NEW d \in Device, InitializeDone(d) PROVE InStep'
    <3>0. d \in Up /\ state[d] = "InitializingDevice"
      BY <2>5 DEF InitializeDone, Phases, Up
    <3>3. order[d] = "none"
      BY <2>0, <3>0 DEF PhaseSets
    <3>1. /\ \A e \in Device : e # d => /\ state'[e] = state[e]
                                        /\ order'[e] = order[e]
          /\ <<state[d], order[d]>> = <<"InitializingDevice", "none">>
          /\ <<state'[d], order'[d]>> = <<"Initialized", "none">>
      BY <2>5, <3>0, <3>3 DEF InitializeDone, TypeOK
    <3>2. \A Q \in PhaseSets :
             <<"InitializingDevice", "none">> \in Q => <<"Initialized", "none">> \in Q
      BY DEF PhaseSets
    <3> QED
      BY <2>3, <3>1, <3>2
  <2>6. ASSUME NEW d \in Device, Bind(d) PROVE InStep'
    <3>0. d \in Up /\ <<state[d], order[d]>> \in P
          /\ state[d] = "Initialized" /\ order[d] # "none"
      BY <2>0, <2>6 DEF Bind, Up
    <3>3. order[d] = "BIND"
      BY <3>0 DEF PhaseSets
    <3>1. /\ \A e \in Device : e # d => /\ state'[e] = state[e]
                                        /\ order'[e] = order[e]
          /\ <<state[d], order[d]>> = <<"Initialized", "BIND">>
          /\ <<state'[d], order'[d]>> = <<"Bound", "none">>
      BY <2>6, <3>3 DEF Bind, TypeOK, Phases
    <3>2. \A Q \in PhaseSets :
             <<"Initialized", "BIND">> \in Q => <<"Bound", "none">> \in Q
      BY DEF PhaseSets
    <3> QED
      BY <2>3, <3>1, <3>2
  <2>7. ASSUME NEW d \in Device, Connect(d) PROVE InStep'
    <3>1. /\ \A e \in Device : e # d => /\ state'[e] = state[e]
                                        /\ order'[e] = order[e]
          /\ <<state[d], order[d]>> = <<"Bound", "CONNECT">>
          /\ <<state'[d], order'[d]>> = <<"DeviceReady", "none">>
      BY <2>7 DEF Connect, TypeOK, Phases
    <3>2. \A Q \in PhaseSets :
             <<"Bound", "CONNECT">> \in Q => <<"DeviceReady", "none">> \in Q
      BY DEF PhaseSets
    <3> QED
      BY <2>3, <3>1, <3>2
  <2>8. ASSUME NEW d \in Device, ResetDevice(d) \/ Expire(d) PROVE FALSE
    BY <1>2, <2>8 DEF ResetDevice, Expire, Resetting
  <2>9. ASSUME NEW d \in Device, NEW c \in todo[d], Aborts(d, c) PROVE FALSE
    BY <1>2, <2>9 DEF Aborts, AddressesFound, Unresolvable, Resetting, TypeOK
  <2>10. ASSUME UNCHANGED <<state, order>> PROVE InStep'
    BY <1>2, <2>10 DEF InStep, Resetting, Up
  <2>11. ASSUME NEW d \in Device, DeviceStep(d)
         PROVE  \/ InitDevice(d) \/ InitializeDone(d) \/ Bind(d) \/ Connect(d)
                \/ UNCHANGED <<state, order>>
    BY <2>8, <2>9, <2>11
    DEF DeviceStep, WaitBindAddress, WaitBindAddressReturns,
        WriteConnectAddress, WaitForPeerConnection, HandshakeCanceled,
        ReceiveReset, InitializeChannel, WriteBindAddress,
        ConfigConnect, ResolveConnectAddress, BoundFound
  <2>12. UNCHANGED vars => UNCHANGED <<state, order>>
    BY DEF vars, device
  <2> QED
    BY <2>1, <2>2, <2>4, <2>5, <2>6, <2>7, <2>10, <2>11, <2>12 DEF Next
<1> QED
    BY <1>1, <1>2

\* While the devices are in step, nobody comes or goes.
LEMMA UpStep ==
    ASSUME TypeInv, AllReset, Todo, AddressesFound, ~ Resetting, [Next]_vars
    PROVE  \/ Quiet'
           \/ /\ Up' = Up
              /\ \A d, c : Found(d, c)' = Found(d, c)
              /\ \A d, c : PeersOf(d, c)' = PeersOf(d, c)
              /\ \A d : Needs(d)' = Needs(d)
              /\ \A d, c : Endpoint(d, c)' = Endpoint(d, c)
<1> USE DEF TypeInv
<1>1. topo' = topo
    BY TodoStep
<1>2. ASSUME NEW d \in Device, Start(d) \/ Leave(d) PROVE Quiet'
    BY <1>2 DEF Start, Leave, Quiet, TypeOK
<1>3. ASSUME NEW d \in Device,
             InitDevice(d) \/ InitializeDone(d) \/ Bind(d) \/ Connect(d)
      PROVE  Up' = Up
    BY <1>3 DEF InitDevice, InitializeDone, Bind, Connect, Up, TypeOK, Phases
<1>4. ASSUME NEW d \in Device, ResetDevice(d) \/ Expire(d) PROVE FALSE
    BY <1>4 DEF ResetDevice, Expire, Resetting
<1>5. ASSUME NEW d \in Device, NEW c \in todo[d], Aborts(d, c) PROVE FALSE
    BY <1>5 DEF Aborts, AddressesFound, Unresolvable, Resetting, TypeOK
<1>6. ASSUME NEW d \in Device, DeviceStep(d) PROVE Up' = Up
    BY <1>3, <1>4, <1>5, <1>6
    DEF DeviceStep, WaitBindAddress, WaitBindAddressReturns,
        WriteConnectAddress, WaitForPeerConnection, HandshakeCanceled,
        ReceiveReset, InitializeChannel, WriteBindAddress,
        ConfigConnect, ResolveConnectAddress, BoundFound, Up
<1>7. ASSUME NEW cmd \in DOMAIN Accepts, Broadcast(cmd) PROVE Up' = Up
    BY <1>7 DEF Broadcast, Up
<1>8. UNCHANGED vars => Up' = Up
    BY DEF vars, device, Up
<1>9. Quiet' \/ Up' = Up
    BY <1>2, <1>6, <1>7, <1>8 DEF Next
<1>10. ASSUME Up' = Up
       PROVE  /\ \A d, c : Found(d, c)' = Found(d, c)
              /\ \A d, c : PeersOf(d, c)' = PeersOf(d, c)
              /\ \A d : Needs(d)' = Needs(d)
              /\ \A d, c : Endpoint(d, c)' = Endpoint(d, c)
  <2>1. \A s : Present(s)' = Present(s)
    <3>1. \A s : Present(s) = {e \in Up : e.service = s}
      BY DEF Present, Up
    <3>2. \A s : Present(s)' = {e \in Up' : e.service = s}
      BY DEF Present, Up
    <3> QED
      BY <1>10, <3>1, <3>2
  <2>2. \A d : Links(d)' = Links(d)
    BY <1>1 DEF Links
  <2>3. \A d, c : Found(d, c)' = Found(d, c)
    BY <2>1, <2>2 DEF Found, LinksOf
  <2>4. \A d, c : PeersOf(d, c)' = PeersOf(d, c)
    BY <2>3 DEF PeersOf
  <2>5. \A d : Needs(d)' = Needs(d)
    <3>1. \A d, c : OtherEnds(d, c)' = OtherEnds(d, c)
      BY <2>2 DEF OtherEnds
    <3>2. \A d : ChannelsOf(d, "connect")' = ChannelsOf(d, "connect")
      BY <1>1 DEF ChannelsOf
    <3> QED
      BY <2>1, <3>1, <3>2 DEF Needs, ChannelsAt
  <2>6. \A d, c : Endpoint(d, c)' = Endpoint(d, c)
    BY <1>1 DEF Endpoint
  <2> QED
    BY <2>3, <2>4, <2>5, <2>6
<1> QED
    BY <1>9, <1>10

\* Initialize has gone through channel k.
Written(k) ==
    /\ k[2] \in ChannelsOf(k[1], "bind") \union ChannelsOf(k[1], "connect")
    /\ \/ state[k[1]] \in {"Initialized", "Bound", "DeviceReady"}
       \/ state[k[1]] = "InitializingDevice" /\ k[2] \notin todo[k[1]]

\* A channel it has not gone through has no sockets and no list of peers, and a
\* reset will delete the list of the others.
Fresh ==
    \A k \in Key :
        /\ ~ Written(k) => numSockets[k] = 0
        /\ ~ Written(k) /\ state[k[1]] # "Aborted" => peerKey[k] = <<>>
        /\ peerKey[k] # <<>> => <<"peer", k[2]>> \in fRegisteredKeys[k[1]]

\* A step that leaves what Initialize has computed for channel k.
Stays(k) ==
    /\ Written(k)' <=> Written(k)
    /\ numSockets'[k] = numSockets[k] /\ peerKey'[k] = peerKey[k]
    /\ channelKey'[k].numSockets = channelKey[k].numSockets

\* A step of device d that does so for all channels, and takes no key from
\* fRegisteredKeys.
LeavesLists ==
    /\ \A k \in Key : Stays(k)
    /\ \A k \in Key : state'[k[1]] = "Aborted" <=> state[k[1]] = "Aborted"
    /\ \A d \in Device : fRegisteredKeys[d] \subseteq fRegisteredKeys'[d]

\* All steps are, other than those that begin or end a round.
LEMMA OthersLeaveLists ==
    ASSUME TypeInv, Todo, [Next]_vars,
           ~ \E d \in Device :
                \/ Leave(d) \/ ResetDevice(d) \/ Expire(d)
                \/ \E c \in todo[d] : InitializeChannel(d, c) \/ Aborts(d, c)
    PROVE  LeavesLists
<1> USE DEF TypeInv
<1>0. \A d, m : ChannelsOf(d, m)' = ChannelsOf(d, m)
    BY TodoStep
<1>1. ASSUME UNCHANGED <<numSockets, peerKey, channelKey, fRegisteredKeys>>,
             NEW d \in Device, \A e \in Device \ {d} : /\ state'[e] = state[e]
                                                      /\ todo'[e] = todo[e],
             \/ state'[d] = state[d] /\ state[d] # "InitializingDevice"
             \/ {state[d], state'[d]} \subseteq {"Down", "Idle"}
             \/ {state[d], state'[d]} \subseteq {"Initialized", "Bound", "DeviceReady"}
             \/ /\ state[d] = "Idle" /\ state'[d] = "InitializingDevice"
                /\ todo'[d] = ChannelsOf(d, "bind") \union ChannelsOf(d, "connect")
             \/ /\ state[d] = "InitializingDevice" /\ todo[d] = {}
                /\ state'[d] = "Initialized"
      PROVE  LeavesLists
  <2>1. ASSUME NEW k \in Key PROVE Written(k)' <=> Written(k)
    <3>1. k[1] \in Device
      BY Keys
    <3>2. CASE k[1] # d
      BY <1>0, <1>1, <3>1, <3>2 DEF Written
    <3>3. CASE k[1] = d
      BY <1>0, <1>1, <3>3 DEF Written
    <3> QED
      BY <3>2, <3>3
  <2>2. ASSUME NEW k \in Key
        PROVE  state'[k[1]] = "Aborted" <=> state[k[1]] = "Aborted"
    BY <1>1, Keys
  <2> QED
    BY <1>1, <2>1, <2>2 DEF LeavesLists, Stays
<1>2. ASSUME NEW d \in Device, Start(d) PROVE LeavesLists
    BY <1>1, <1>2 DEF Start, TypeOK, channels, registry
<1>3. ASSUME NEW d \in Device, InitDevice(d) PROVE LeavesLists
    BY <1>1, <1>3 DEF InitDevice, TypeOK, Phases, channels, registry
<1>4. ASSUME NEW d \in Device, InitializeDone(d) PROVE LeavesLists
    BY <1>1, <1>4 DEF InitializeDone, TypeOK, Phases, channels, registry
<1>5. ASSUME NEW d \in Device, Bind(d) PROVE LeavesLists
    BY <1>1, <1>5 DEF Bind, TypeOK, Phases, registry
<1>6. ASSUME NEW d \in Device, Connect(d) PROVE LeavesLists
    BY <1>1, <1>6 DEF Connect, TypeOK, Phases, channels, registry
<1>7. ASSUME NEW d \in Device,
             \/ WaitBindAddress(d) \/ WaitBindAddressReturns(d)
             \/ WaitForPeerConnection(d) \/ HandshakeCanceled(d)
             \/ \E k \in wanted[d] : BoundFound(d, k)
      PROVE  LeavesLists
  <2>1. /\ UNCHANGED <<state, channels, registry>>
        /\ \A e \in Device \ {d} : todo'[e] = todo[e]
    BY <1>7 DEF WaitBindAddress, WaitBindAddressReturns, WaitForPeerConnection,
                HandshakeCanceled, BoundFound, TypeOK
  <2>2. step[d] \in {"written", "waitBind", "waitPeers", "resolved"}
    BY <1>7 DEF WaitBindAddress, WaitBindAddressReturns, WaitForPeerConnection,
                HandshakeCanceled, BoundFound
  <2>3. state[d] = "Bound"
    BY <2>2 DEF Phases
  <2> QED
    BY <1>1, <2>1, <2>3 DEF channels, registry
<1>8. ASSUME NEW d \in Device, NEW c \in todo[d],
             ConfigConnect(d, c) \/ ResolveConnectAddress(d, c)
      PROVE  LeavesLists
  <2>1. /\ UNCHANGED <<state, numSockets, fRegisteredKeys, registry>>
        /\ \A e \in Device \ {d} : todo'[e] = todo[e]
        /\ step[d] = "resolve"
    BY <1>8 DEF ConfigConnect, ResolveConnectAddress, TypeOK
  <2>2. state[d] = "Bound"
    BY <2>1 DEF Phases
  <2> QED
    BY <1>1, <2>1, <2>2 DEF registry
<1>9. ASSUME UNCHANGED <<state, todo, numSockets, peerKey, channelKey>>,
             \A d \in Device : fRegisteredKeys[d] \subseteq fRegisteredKeys'[d]
      PROVE  LeavesLists
    BY <1>0, <1>9 DEF LeavesLists, Stays, Written
<1>10. ASSUME NEW d \in Device, WriteConnectAddress(d) \/ ReceiveReset(d)
       PROVE  LeavesLists
  <2>1. CASE WriteConnectAddress(d)
    <3>1. UNCHANGED <<state, todo, numSockets, peerKey, channelKey>>
      BY <2>1 DEF WriteConnectAddress
    <3>2. fRegisteredKeys' = [fRegisteredKeys EXCEPT ![d] =
                                @ \union {"socket"} \X ChannelsOf(d, "connect")]
      BY <2>1 DEF WriteConnectAddress
    <3>3. \A e \in Device : fRegisteredKeys[e] \subseteq fRegisteredKeys'[e]
      BY <3>2 DEF TypeOK
    <3> QED
      BY <1>9, <3>1, <3>3
  <2>2. CASE ReceiveReset(d)
    <3>1. UNCHANGED <<state, todo, numSockets, peerKey, channelKey, fRegisteredKeys>>
      BY <2>2 DEF ReceiveReset, channels, registry
    <3> QED
      BY <1>9, <3>1
  <2> QED
    BY <1>10, <2>1, <2>2
<1>11. ASSUME NEW d \in Device, NEW c \in todo[d], WriteBindAddress(d, c)
       PROVE  LeavesLists
  <2>1. /\ UNCHANGED <<state, numSockets, peerKey>> /\ step[d] = "writeBind"
        /\ \A e \in Device \ {d} : todo'[e] = todo[e]
        /\ \A e \in Device : fRegisteredKeys[e] \subseteq fRegisteredKeys'[e]
        /\ channelKey' = [channelKey EXCEPT ![<<d, c>>].bound = TRUE]
    BY <1>11 DEF WriteBindAddress, TypeOK
  <2>2. state[d] = "Bound"
    BY <2>1 DEF Phases
  <2>3. \A k \in Key : channelKey'[k].numSockets = channelKey[k].numSockets
    BY <2>1 DEF TypeOK
  <2>4. \A k \in Key : Written(k)' <=> Written(k)
    BY <1>0, <2>1, <2>2, Keys DEF Written
  <2> QED
    BY <2>1, <2>3, <2>4 DEF LeavesLists, Stays
<1>12. ASSUME NEW cmd \in DOMAIN Accepts, Broadcast(cmd) PROVE LeavesLists
    BY <1>9, <1>12 DEF Broadcast, channels, registry
<1>13. CASE UNCHANGED vars
    BY <1>9, <1>13 DEF vars, device, channels, registry
<1>14. ASSUME NEW d \in Device, DeviceStep(d) PROVE LeavesLists
    BY <1>3, <1>4, <1>5, <1>6, <1>7, <1>8, <1>10, <1>11, <1>14 DEF DeviceStep
<1> QED
    BY <1>2, <1>12, <1>13, <1>14 DEF Next

\* What Initialize does for one channel.
LEMMA InitializeStep ==
    ASSUME TypeInv, Todo, [Next]_vars, NEW d \in Device, NEW c \in todo[d],
           InitializeChannel(d, c)
    PROVE  /\ <<d, c>> \in Key /\ state[d] = "InitializingDevice"
           /\ UNCHANGED <<state, order, step, address, socketKey>>
           /\ \A k \in Key : k # <<d, c>> =>
                 Stays(k) /\ channelKey'[k] = channelKey[k]
           /\ ~ Written(<<d, c>>) /\ Written(<<d, c>>)'
           /\ numSockets'[<<d, c>>] = numSockets[<<d, c>>] +
                 (IF Endpoint(d, c).autoSubChannel
                  THEN Cardinality(Found(d, c)) ELSE 0)
           /\ PeersOf(d, c) = {} => peerKey' = peerKey
           /\ PeersOf(d, c) # {} =>
                 /\ peerKey'[<<d, c>>] =
                       peerKey[<<d, c>>] \o SortedKeys(PeersOf(d, c))
                 /\ channelKey'[<<d, c>>] =
                       [bound |-> FALSE, numSockets |-> numSockets'[<<d, c>>]]
                 /\ {<<"channel", c>>, <<"peer", c>>} \subseteq fRegisteredKeys'[d]
           /\ \A e \in Device : fRegisteredKeys[e] \subseteq fRegisteredKeys'[e]
<1> USE DEF TypeInv
<1> DEFINE k0 == <<d, c>>
           n == numSockets[k0] + IF Endpoint(d, c).autoSubChannel
                                 THEN Cardinality(Found(d, c)) ELSE 0
<1>1. /\ k0 \in Key /\ c \in Channel /\ step[d] = "init"
      /\ state[d] = "InitializingDevice"
    BY DEF InitializeChannel, TypeOK, Phases, Key
<1>2. /\ UNCHANGED <<topo, state, order, step, address>>
      /\ todo' = [todo EXCEPT ![d] = @ \ {c}]
      /\ numSockets' = [numSockets EXCEPT ![k0] = n]
      /\ WriteChannel(d, c, n, PeersOf(d, c))
    BY DEF InitializeChannel
<1>3. \A e, m : ChannelsOf(e, m)' = ChannelsOf(e, m)
    BY TodoStep
<1>4. /\ UNCHANGED socketKey
      /\ PeersOf(d, c) = {} => UNCHANGED <<peerKey, channelKey, fRegisteredKeys>>
      /\ PeersOf(d, c) # {} =>
            /\ peerKey' = [peerKey EXCEPT ![k0] = @ \o SortedKeys(PeersOf(d, c))]
            /\ channelKey' = [channelKey EXCEPT ![k0] =
                                 [bound |-> FALSE, numSockets |-> n]]
            /\ fRegisteredKeys' = [fRegisteredKeys EXCEPT ![d] =
                                 @ \union {<<"channel", c>>, <<"peer", c>>}]
    BY <1>2 DEF WriteChannel, registry
<1> HIDE DEF n
<1>5. numSockets'[k0] = n /\ \A k \in Key \ {k0} : numSockets'[k] = numSockets[k]
    BY <1>1, <1>2 DEF TypeOK
<1>6. /\ PeersOf(d, c) # {} =>
            /\ peerKey'[k0] = peerKey[k0] \o SortedKeys(PeersOf(d, c))
            /\ channelKey'[k0] = [bound |-> FALSE, numSockets |-> n]
            /\ <<"peer", c>> \in fRegisteredKeys'[d]
      /\ \A e \in Device : fRegisteredKeys[e] \subseteq fRegisteredKeys'[e]
  <2>1. CASE PeersOf(d, c) = {}
    BY <1>4, <2>1
  <2>2. CASE PeersOf(d, c) # {}
    <3>1. peerKey'[k0] = peerKey[k0] \o SortedKeys(PeersOf(d, c))
      BY <1>1, <1>4, <2>2 DEF TypeOK
    <3>2. channelKey'[k0] = [bound |-> FALSE, numSockets |-> n]
      BY <1>1, <1>4, <2>2 DEF TypeOK
    <3>3. fRegisteredKeys' = [fRegisteredKeys EXCEPT ![d] =
                                 @ \union {<<"channel", c>>, <<"peer", c>>}]
      BY <1>4, <2>2
    <3>4. /\ <<"peer", c>> \in fRegisteredKeys'[d]
          /\ \A e \in Device : fRegisteredKeys[e] \subseteq fRegisteredKeys'[e]
      BY <3>3 DEF TypeOK
    <3> QED
      BY <3>1, <3>2, <3>4
  <2> QED
    BY <2>1, <2>2
<1>7. \A k \in Key \ {k0} : /\ peerKey'[k] = peerKey[k]
                            /\ channelKey'[k] = channelKey[k]
  <2>1. CASE PeersOf(d, c) = {}
    BY <1>4, <2>1
  <2>2. CASE PeersOf(d, c) # {}
    BY <1>1, <1>4, <2>2 DEF TypeOK
  <2> QED
    BY <2>1, <2>2
<1>8. ASSUME NEW k \in Key, k # k0 PROVE Written(k)' <=> Written(k)
  <2>1. k[1] \in Device /\ k = <<k[1], k[2]>>
    BY Keys
  <2>2. k[2] \in todo'[k[1]] <=> k[2] \in todo[k[1]]
    BY <1>2, <1>8, <2>1 DEF TypeOK
  <2> QED
    BY <1>2, <1>3, <2>2 DEF Written
<1>9. ~ Written(k0)
    BY <1>1 DEF Written
<1>10. Written(k0)'
  <2>1. c \in ChannelsOf(d, "bind") \union ChannelsOf(d, "connect")
    BY <1>1 DEF Todo
  <2>2. c \notin todo'[d]
    BY <1>2 DEF TypeOK
  <2> QED
    BY <1>1, <1>2, <1>3, <2>1, <2>2 DEF Written
<1>11. ASSUME NEW k \in Key, k # k0
       PROVE  Stays(k) /\ channelKey'[k] = channelKey[k]
  <2>1. k \in Key \ {k0}
    BY <1>11
  <2> QED
    BY <1>5, <1>7, <1>8, <2>1 DEF Stays
<1>12. UNCHANGED <<state, order, step, address, socketKey>>
    BY <1>2, <1>4
<1>13. numSockets'[k0] = numSockets[k0] +
          (IF Endpoint(d, c).autoSubChannel THEN Cardinality(Found(d, c)) ELSE 0)
    BY <1>5 DEF n
<1>14. PeersOf(d, c) = {} => peerKey' = peerKey
    BY <1>4
<1>15. PeersOf(d, c) # {} =>
          channelKey'[k0] = [bound |-> FALSE, numSockets |-> numSockets'[k0]]
    BY <1>5, <1>6
<1>16. PeersOf(d, c) # {} =>
          {<<"channel", c>>, <<"peer", c>>} \subseteq fRegisteredKeys'[d]
  <2> SUFFICES ASSUME PeersOf(d, c) # {}
               PROVE  {<<"channel", c>>, <<"peer", c>>} \subseteq fRegisteredKeys'[d]
    OBVIOUS
  <2>1. fRegisteredKeys' = [fRegisteredKeys EXCEPT ![d] =
                               @ \union {<<"channel", c>>, <<"peer", c>>}]
    BY <1>4
  <2>2. fRegisteredKeys'[d] = fRegisteredKeys[d]
                                \union {<<"channel", c>>, <<"peer", c>>}
    BY <2>1 DEF TypeOK
  <2> QED
    BY <2>2
<1> QED
    BY <1>1, <1>6, <1>9, <1>10, <1>11, <1>12, <1>13, <1>14, <1>15, <1>16

\* Every step keeps that.
LEMMA FreshStep ==
    ASSUME TypeInv, Todo, Fresh, [Next]_vars
    PROVE  Fresh'
<1> USE DEF TypeInv
<1>0. \A d, m : ChannelsOf(d, m)' = ChannelsOf(d, m)
    BY TodoStep
<1>1. ASSUME LeavesLists PROVE Fresh'
  <2> SUFFICES ASSUME NEW k \in Key
               PROVE  /\ ~ Written(k)' => numSockets'[k] = 0
                      /\ ~ Written(k)' /\ state'[k[1]] # "Aborted" =>
                            peerKey'[k] = <<>>
                      /\ peerKey'[k] # <<>> =>
                            <<"peer", k[2]>> \in fRegisteredKeys'[k[1]]
    BY DEF Fresh
  <2>1. k[1] \in Device
    BY Keys
  <2> QED
    BY <1>1, <2>1 DEF LeavesLists, Stays, Fresh
<1>2. ASSUME NEW d \in Device, Leave(d) \/ Expire(d) PROVE Fresh'
  <2>1. /\ state' = [state EXCEPT ![d] = "Down"] /\ UNCHANGED <<todo, numSockets>>
        /\ Unregister(d) /\ state[d] \in {"Idle", "Aborted"}
    BY <1>2 DEF Leave, Expire
  <2>2. \A k \in Key : k[1] = d => ~ Written(k) /\ ~ Written(k)'
    BY <2>1 DEF Written, TypeOK
  <2>3. \A k \in Key : k[1] # d => (Written(k)' <=> Written(k))
    BY <1>0, <2>1, Keys DEF Written, TypeOK
  <2>4. \A k \in Key :
          peerKey'[k] = IF k[1] = d /\ <<"peer", k[2]>> \in fRegisteredKeys[d]
                        THEN <<>> ELSE peerKey[k]
    BY <2>1 DEF Unregister
  <2>5. \A e \in Device :
          fRegisteredKeys'[e] = IF e = d THEN {} ELSE fRegisteredKeys[e]
    BY <2>1 DEF Unregister, TypeOK
  <2>6. \A e \in Device : e # d => state'[e] = state[e]
    BY <2>1 DEF TypeOK
  <2> QED
    BY <2>1, <2>2, <2>3, <2>4, <2>5, <2>6, Keys DEF Fresh
<1>3. ASSUME NEW d \in Device, ResetDevice(d) PROVE Fresh'
  <2>1. /\ state' = [state EXCEPT ![d] = "Idle"] /\ UNCHANGED todo
        /\ \A k \in Key : numSockets'[k] = IF k[1] = d THEN 0 ELSE numSockets[k]
        /\ Unregister(d)
    BY <1>3 DEF ResetDevice, Forget
  <2>2. \A k \in Key : k[1] # d => (Written(k)' <=> Written(k))
    BY <1>0, <2>1, Keys DEF Written, TypeOK
  <2>3. \A k \in Key :
          peerKey'[k] = IF k[1] = d /\ <<"peer", k[2]>> \in fRegisteredKeys[d]
                        THEN <<>> ELSE peerKey[k]
    BY <2>1 DEF Unregister
  <2>4. \A e \in Device :
          fRegisteredKeys'[e] = IF e = d THEN {} ELSE fRegisteredKeys[e]
    BY <2>1 DEF Unregister, TypeOK
  <2>5. \A e \in Device : e # d => state'[e] = state[e]
    BY <2>1 DEF TypeOK
  <2> QED
    BY <2>1, <2>2, <2>3, <2>4, <2>5, Keys DEF Fresh
<1>4. ASSUME NEW d \in Device, NEW c \in todo[d], Aborts(d, c) PROVE Fresh'
  <2>1. /\ state' = [state EXCEPT ![d] = "Aborted"]
        /\ todo' = [todo EXCEPT ![d] = {}]
        /\ \A k \in Key : numSockets'[k] = IF k[1] = d THEN 0 ELSE numSockets[k]
        /\ UNCHANGED <<peerKey, fRegisteredKeys>>
    BY <1>4 DEF Aborts, Forget, registry
  <2>2. \A k \in Key : k[1] # d => (Written(k)' <=> Written(k))
    BY <1>0, <2>1, Keys DEF Written, TypeOK
  <2>3. \A e \in Device : state'[e] = IF e = d THEN "Aborted" ELSE state[e]
    BY <2>1 DEF TypeOK
  <2> QED
    BY <2>1, <2>2, <2>3, Keys DEF Fresh
<1>5. ASSUME NEW d \in Device, NEW c \in todo[d], InitializeChannel(d, c)
      PROVE  Fresh'
  <2> SUFFICES ASSUME NEW k \in Key
               PROVE  /\ ~ Written(k)' => numSockets'[k] = 0
                      /\ ~ Written(k)' /\ state'[k[1]] # "Aborted" =>
                            peerKey'[k] = <<>>
                      /\ peerKey'[k] # <<>> =>
                            <<"peer", k[2]>> \in fRegisteredKeys'[k[1]]
    BY DEF Fresh
  <2>0. k[1] \in Device
    BY Keys
  <2>1. CASE k = <<d, c>>
    <3>1. k[1] = d /\ k[2] = c
      BY <2>1
    <3>2. Written(k)'
      BY <1>5, <2>1, InitializeStep
    <3>3. PeersOf(d, c) # {} => <<"peer", c>> \in fRegisteredKeys'[d]
      BY <1>5, InitializeStep
    <3>4. /\ PeersOf(d, c) = {} => peerKey' = peerKey
          /\ fRegisteredKeys[d] \subseteq fRegisteredKeys'[d]
      BY <1>5, InitializeStep
    <3> QED
      BY <3>1, <3>2, <3>3, <3>4 DEF Fresh
  <2>2. CASE k # <<d, c>>
    <3>1. /\ Stays(k) /\ state' = state
          /\ fRegisteredKeys[k[1]] \subseteq fRegisteredKeys'[k[1]]
      BY <1>5, <2>0, <2>2, InitializeStep
    <3> QED
      BY <3>1 DEF Fresh, Stays
  <2> QED
    BY <2>1, <2>2
<1> QED
    BY <1>1, <1>2, <1>3, <1>4, <1>5, OthersLeaveLists

\* A step that lets nobody come or go and resets nothing.
Goes ==
    /\ ~ Resetting
    /\ Up' = Up
    /\ \A d, c : /\ Found(d, c)' = Found(d, c)
                 /\ PeersOf(d, c)' = PeersOf(d, c)
                 /\ Endpoint(d, c)' = Endpoint(d, c)
    /\ \A d : Needs(d)' = Needs(d)
    /\ \A d, m : ChannelsOf(d, m)' = ChannelsOf(d, m)
    /\ ~ \E d \in Device : \/ Leave(d) \/ ResetDevice(d) \/ Expire(d)
                           \/ \E c \in todo[d] : Aborts(d, c)

\* A step is, unless it leads to a reset or to all devices being Idle.
LEMMA GoesOn ==
    ASSUME TypeInv, AllReset, Todo, AddressesFound, [Next]_vars,
           ~ Resetting', ~ Quiet'
    PROVE  Goes
<1> USE DEF TypeInv
<1>1. ~ Resetting
    BY ResetStep
<1>2. ASSUME NEW d \in Device, Leave(d) PROVE FALSE
  <2>1. Quiet'
    BY <1>2 DEF Leave, Quiet, TypeOK
  <2> QED
    BY <2>1
<1>3. ASSUME NEW d \in Device, ResetDevice(d) \/ Expire(d) PROVE FALSE
    BY <1>1, <1>3 DEF ResetDevice, Expire, Resetting
<1>4. ASSUME NEW d \in Device, NEW c \in todo[d], Aborts(d, c) PROVE FALSE
    BY <1>1, <1>4 DEF Aborts, AddressesFound, Unresolvable, Resetting, TypeOK
<1>5. \A d, m : ChannelsOf(d, m)' = ChannelsOf(d, m)
    BY TodoStep
<1> QED
    BY <1>1, <1>2, <1>3, <1>4, <1>5, UpStep DEF Goes

\* Nothing is written while all devices are Down or Idle.
LEMMA QuietWrites ==
    ASSUME NEW k \in Key, Quiet
    PROVE  ~ Written(k) /\ state[k[1]] \notin {"Bound", "DeviceReady"}
BY Keys DEF Quiet, Written

\* The registry has the peers of every channel that Initialize has gone
\* through, in order, and the number of its sockets.
Listed ==
    ~ Resetting => \A k \in Key : Written(k) =>
        /\ peerKey[k] = SortedKeys(PeersOf(k[1], k[2]))
        /\ numSockets[k] = IF Endpoint(k[1], k[2]).autoSubChannel
                           THEN Cardinality(Found(k[1], k[2])) ELSE 0
        /\ PeersOf(k[1], k[2]) # {} => channelKey[k].numSockets = numSockets[k]

\* Every step keeps that: Initialize writes each list once.
LEMMA ListedStep ==
    ASSUME TypeInv, AllReset, Todo, AddressesFound, Fresh, Listed, [Next]_vars
    PROVE  Listed'
<1> USE DEF TypeInv
<1> SUFFICES ASSUME ~ Resetting', NEW k \in Key, Written(k)'
             PROVE  /\ peerKey'[k] = SortedKeys(PeersOf(k[1], k[2])')
                    /\ numSockets'[k] =
                          IF Endpoint(k[1], k[2])'.autoSubChannel
                          THEN Cardinality(Found(k[1], k[2])') ELSE 0
                    /\ PeersOf(k[1], k[2])' # {} =>
                          channelKey'[k].numSockets = numSockets'[k]
    BY DEF Listed, SortedKeys, Before
<1>0. k[1] \in Device /\ k[2] \in Channel /\ k = <<k[1], k[2]>>
    BY Keys
<1>1. ~ Quiet'
  <2>1. ASSUME Quiet' PROVE ~ Written(k)'
    BY <1>0, <2>1 DEF Quiet, Written
  <2> QED
    BY <2>1
<1>2. Goes
    BY <1>1, GoesOn
<1>3. ASSUME Stays(k)
      PROVE  /\ peerKey'[k] = SortedKeys(PeersOf(k[1], k[2])')
             /\ numSockets'[k] =
                   IF Endpoint(k[1], k[2])'.autoSubChannel
                   THEN Cardinality(Found(k[1], k[2])') ELSE 0
             /\ PeersOf(k[1], k[2])' # {} =>
                   channelKey'[k].numSockets = numSockets'[k]
    BY <1>2, <1>3 DEF Goes, Stays, Listed
<1>4. ASSUME NEW d \in Device, NEW c \in todo[d], InitializeChannel(d, c)
      PROVE  Stays(k) \/ k = <<d, c>>
    BY <1>4, InitializeStep
<1>5. ASSUME NEW d \in Device, NEW c \in todo[d], InitializeChannel(d, c),
             k = <<d, c>>
      PROVE  /\ peerKey'[k] = SortedKeys(PeersOf(k[1], k[2])')
             /\ numSockets'[k] =
                   IF Endpoint(k[1], k[2])'.autoSubChannel
                   THEN Cardinality(Found(k[1], k[2])') ELSE 0
             /\ PeersOf(k[1], k[2])' # {} =>
                   channelKey'[k].numSockets = numSockets'[k]
  <2>1. k[1] = d /\ k[2] = c
    BY <1>5
  <2>2. ~ Written(k) /\ state[d] = "InitializingDevice"
    BY <1>5, InitializeStep
  <2>3. numSockets[k] = 0 /\ peerKey[k] = <<>>
    BY <2>1, <2>2 DEF Fresh
  <2>4. /\ numSockets'[k] = numSockets[k] +
              (IF Endpoint(d, c).autoSubChannel
               THEN Cardinality(Found(d, c)) ELSE 0)
        /\ PeersOf(d, c) = {} => peerKey' = peerKey
        /\ PeersOf(d, c) # {} =>
              /\ peerKey'[k] = peerKey[k] \o SortedKeys(PeersOf(d, c))
              /\ channelKey'[k] = [bound |-> FALSE, numSockets |-> numSockets'[k]]
    BY <1>5, InitializeStep
  <2>5. Cardinality(Found(d, c)) \in Nat /\ PeersOf(d, c) \subseteq Key
        /\ IsFiniteSet(PeersOf(d, c))
    BY <1>0, <2>1, PeerTypes DEF TypeOK
  <2>6. SortedKeys(PeersOf(d, c)) \in Seq(PeersOf(d, c))
        /\ Len(SortedKeys(PeersOf(d, c))) = Cardinality(PeersOf(d, c))
    BY <2>5, Sorts
  <2>7. peerKey'[k] = SortedKeys(PeersOf(d, c))
    <3>1. CASE PeersOf(d, c) = {}
      <4>1. Len(SortedKeys(PeersOf(d, c))) = 0
        BY <2>6, <3>1, FS_EmptySet
      <4>2. SortedKeys(PeersOf(d, c)) = <<>>
        BY <2>6, <4>1
      <4> QED
        BY <2>3, <2>4, <3>1, <4>2
    <3>2. CASE PeersOf(d, c) # {}
      BY <2>3, <2>4, <2>6, <3>2
    <3> QED
      BY <3>1, <3>2
  <2>8. numSockets'[k] = IF Endpoint(d, c).autoSubChannel
                         THEN Cardinality(Found(d, c)) ELSE 0
    BY <2>3, <2>4, <2>5
  <2>9. PeersOf(d, c) # {} => channelKey'[k].numSockets = numSockets'[k]
    BY <2>4
  <2> QED
    BY <1>2, <2>1, <2>7, <2>8, <2>9 DEF Goes
<1>6. ASSUME LeavesLists PROVE Stays(k)
    BY <1>6 DEF LeavesLists
<1>7. LeavesLists \/ \E d \in Device : \E c \in todo[d] : InitializeChannel(d, c)
    BY <1>2, OthersLeaveLists DEF Goes
<1> QED
    BY <1>3, <1>4, <1>5, <1>6, <1>7

\* A step that leaves the sockets of a bind channel.
Kept(k) ==
    /\ channelKey'[k].bound = channelKey[k].bound
    /\ socketKey'[k] = socketKey[k] /\ address'[k] = address[k]
    /\ state'[k[1]] \in {"Bound", "DeviceReady"} <=>
          state[k[1]] \in {"Bound", "DeviceReady"}

\* The steps that do not: binding, writing the address, and Initialize.
LEMMA BindChannelStep ==
    ASSUME TypeInv, Todo, Goes, [Next]_vars,
           NEW k \in Key, k[2] \in ChannelsOf(k[1], "bind")
    PROVE  \/ Kept(k)
           \/ Bind(k[1])
           \/ k[2] \in todo[k[1]] /\ WriteBindAddress(k[1], k[2])
           \/ k[2] \in todo[k[1]] /\ InitializeChannel(k[1], k[2])
<1> USE DEF TypeInv
<1>0. /\ k[1] \in Device /\ k[2] \in Channel /\ k = <<k[1], k[2]>>
      /\ k[2] \notin ChannelsOf(k[1], "connect")
    BY Keys DEF ChannelsOf
<1>1. ASSUME UNCHANGED <<address, channelKey, socketKey>>,
             state'[k[1]] \in {"Bound", "DeviceReady"} <=>
                state[k[1]] \in {"Bound", "DeviceReady"}
      PROVE  Kept(k)
    BY <1>1 DEF Kept
<1>2. ASSUME NEW d \in Device,
             Start(d) \/ InitDevice(d) \/ InitializeDone(d) \/ Connect(d)
      PROVE  Kept(k)
  <2>1. /\ UNCHANGED <<channels, registry>>
        /\ \A e \in Device \ {d} : state'[e] = state[e]
        /\ state'[d] \in {"Bound", "DeviceReady"} <=>
              state[d] \in {"Bound", "DeviceReady"}
    BY <1>2 DEF Start, InitDevice, InitializeDone, Connect, TypeOK, Phases
  <2> QED
    BY <1>0, <1>1, <2>1 DEF channels, registry
<1>3. ASSUME NEW d \in Device,
             \/ WaitBindAddress(d) \/ WaitBindAddressReturns(d)
             \/ WaitForPeerConnection(d) \/ HandshakeCanceled(d)
             \/ ReceiveReset(d) \/ \E l \in wanted[d] : BoundFound(d, l)
      PROVE  Kept(k)
  <2>1. UNCHANGED <<state, channels, registry>>
    BY <1>3 DEF WaitBindAddress, WaitBindAddressReturns, WaitForPeerConnection,
                HandshakeCanceled, BoundFound, ReceiveReset
  <2> QED
    BY <1>1, <2>1 DEF channels, registry
<1>4. ASSUME NEW cmd \in DOMAIN Accepts, Broadcast(cmd) PROVE Kept(k)
  <2>1. UNCHANGED <<state, channels, registry>>
    BY <1>4 DEF Broadcast
  <2> QED
    BY <1>1, <2>1 DEF channels, registry
<1>5. CASE UNCHANGED vars
    BY <1>1, <1>5 DEF vars, device, channels, registry
<1>6. ASSUME NEW d \in Device, WriteConnectAddress(d) PROVE Kept(k)
  <2>1. /\ UNCHANGED <<state, address, channelKey>>
        /\ socketKey' = [l \in Key |-> IF l[1] = d /\ l[2] \in ChannelsOf(d, "connect")
                                       THEN Published(address[l])
                                       ELSE socketKey[l]]
    BY <1>6 DEF WriteConnectAddress
  <2>2. socketKey'[k] = socketKey[k]
    BY <1>0, <2>1
  <2> QED
    BY <2>1, <2>2 DEF Kept
<1>7. ASSUME NEW d \in Device, NEW c \in todo[d],
             ConfigConnect(d, c) \/ ResolveConnectAddress(d, c)
      PROVE  Kept(k)
  <2>1. UNCHANGED <<state, registry>> /\ step[d] = "resolve"
    BY <1>7 DEF ConfigConnect, ResolveConnectAddress
  <2>2. c \in ChannelsOf(d, "connect")
    BY <2>1 DEF Todo
  <2>3. k # <<d, c>>
    BY <1>0, <2>2
  <2>4. address'[k] = address[k]
    BY <1>7, <2>3 DEF ConfigConnect, ResolveConnectAddress, TypeOK
  <2> QED
    BY <2>1, <2>4 DEF Kept, registry
<1>8. ASSUME NEW d \in Device, Bind(d), d # k[1] PROVE Kept(k)
  <2>1. /\ UNCHANGED registry /\ state'[k[1]] = state[k[1]]
        /\ address'[k] = address[k]
    BY <1>0, <1>8 DEF Bind, TypeOK
  <2> QED
    BY <2>1 DEF Kept, registry
<1>9. ASSUME NEW d \in Device, NEW c \in todo[d], k # <<d, c>>,
             WriteBindAddress(d, c)
      PROVE  Kept(k)
  <2>1. /\ UNCHANGED <<state, address>>
        /\ socketKey' = [socketKey EXCEPT ![<<d, c>>] =
                                                Published(address[<<d, c>>])]
        /\ channelKey' = [channelKey EXCEPT ![<<d, c>>].bound = TRUE]
    BY <1>9 DEF WriteBindAddress
  <2>2. socketKey'[k] = socketKey[k]
    BY <1>9, <2>1 DEF TypeOK
  <2>3. channelKey'[k] = channelKey[k]
    BY <1>9, <2>1 DEF TypeOK
  <2> QED
    BY <2>1, <2>2, <2>3 DEF Kept
<1>10. ASSUME NEW d \in Device, NEW c \in todo[d], k # <<d, c>>,
              InitializeChannel(d, c)
       PROVE  Kept(k)
  <2>1. UNCHANGED <<state, address, socketKey>> /\ channelKey'[k] = channelKey[k]
    BY <1>10, InitializeStep
  <2> QED
    BY <2>1 DEF Kept
<1>11. ASSUME NEW d \in Device, NEW c \in todo[d],
              WriteBindAddress(d, c) \/ InitializeChannel(d, c)
       PROVE  \/ Kept(k)
              \/ k[2] \in todo[k[1]] /\ WriteBindAddress(k[1], k[2])
              \/ k[2] \in todo[k[1]] /\ InitializeChannel(k[1], k[2])
  <2>1. CASE k = <<d, c>>
    <3>1. k[1] = d /\ k[2] = c
      BY <2>1
    <3> QED
      BY <1>11, <3>1
  <2>2. CASE k # <<d, c>>
    BY <1>9, <1>10, <1>11, <2>2
  <2> QED
    BY <2>1, <2>2
<1>12. ASSUME NEW d \in Device, DeviceStep(d)
       PROVE  \/ Kept(k)
              \/ Bind(k[1])
              \/ k[2] \in todo[k[1]] /\ WriteBindAddress(k[1], k[2])
              \/ k[2] \in todo[k[1]] /\ InitializeChannel(k[1], k[2])
    BY <1>2, <1>3, <1>6, <1>7, <1>8, <1>11, <1>12 DEF DeviceStep, Goes
<1> QED
    BY <1>2, <1>4, <1>5, <1>12 DEF Next, Goes

\* A bind channel that has peers and is marked as bound is bound in this
\* round, and its addresses are in the registry.
Marked ==
    ~ Resetting => \A k \in Key :
        ( /\ k[2] \in ChannelsOf(k[1], "bind")
          /\ Written(k) /\ PeersOf(k[1], k[2]) # {} /\ channelKey[k].bound ) =>
        /\ state[k[1]] \in {"Bound", "DeviceReady"}
        /\ socketKey[k] = Published(address[k])

\* Every step keeps that: a mark of an earlier round is overwritten by
\* Initialize.
LEMMA MarkedStep ==
    ASSUME TypeInv, AllReset, Todo, AddressesFound, Marked, [Next]_vars
    PROVE  Marked'
<1> USE DEF TypeInv
<1> SUFFICES ASSUME ~ Resetting', NEW k \in Key,
                    k[2] \in ChannelsOf(k[1], "bind")', Written(k)',
                    PeersOf(k[1], k[2])' # {}, channelKey'[k].bound
             PROVE  /\ state'[k[1]] \in {"Bound", "DeviceReady"}
                    /\ socketKey'[k] = Published(address'[k])
    BY DEF Marked, Published, Alike, Rank, TextBefore, StartsWith
<1>0. k[1] \in Device /\ k[2] \in Channel /\ k = <<k[1], k[2]>>
    BY Keys
<1>1. ~ Quiet'
  <2>1. ASSUME Quiet' PROVE ~ Written(k)'
    BY <1>0, <2>1 DEF Quiet, Written
  <2> QED
    BY <2>1
<1>2. Goes
    BY <1>1, GoesOn
<1>3. k[2] \in ChannelsOf(k[1], "bind") /\ PeersOf(k[1], k[2]) # {} /\ ~ Resetting
    BY <1>2 DEF Goes
<1>4. CASE k[2] \in todo[k[1]] /\ InitializeChannel(k[1], k[2])
  <2> DEFINE d == k[1]
             c == k[2]
  <2>1. d \in Device /\ c \in todo[d] /\ InitializeChannel(d, c)
        /\ PeersOf(d, c) # {} /\ k = <<d, c>>
    BY <1>0, <1>3, <1>4
  <2> HIDE DEF d, c
  <2>2. channelKey'[<<d, c>>] =
           [bound |-> FALSE, numSockets |-> numSockets'[<<d, c>>]]
    BY <2>1, InitializeStep
  <2> QED
    BY <2>1, <2>2
<1>5. CASE k[2] \in todo[k[1]] /\ WriteBindAddress(k[1], k[2])
  <2>1. /\ UNCHANGED <<state, address>> /\ step[k[1]] = "writeBind"
        /\ socketKey' = [socketKey EXCEPT ![k] = Published(address[k])]
    BY <1>0, <1>5 DEF WriteBindAddress
  <2>2. state[k[1]] = "Bound"
    BY <1>0, <2>1 DEF Phases
  <2>3. socketKey'[k] = Published(address[k])
    BY <2>1 DEF TypeOK
  <2> QED
    BY <2>1, <2>2, <2>3
<1>6. ASSUME ~ (k[2] \in todo[k[1]] /\ InitializeChannel(k[1], k[2]))
      PROVE  Written(k)
  <2>1. LeavesLists \/ \E d \in Device : \E c \in todo[d] : InitializeChannel(d, c)
    BY <1>2, OthersLeaveLists DEF Goes
  <2>2. ASSUME NEW d \in Device, NEW c \in todo[d], InitializeChannel(d, c)
        PROVE  Stays(k)
    <3>1. k # <<d, c>>
      BY <1>6, <2>2
    <3> QED
      BY <2>2, <3>1, InitializeStep
  <2> QED
    BY <2>1, <2>2 DEF LeavesLists, Stays
<1>7. CASE Bind(k[1])
  <2>1. state[k[1]] = "Initialized" /\ UNCHANGED channelKey
    BY <1>0, <1>7 DEF Bind, Phases, registry
  <2>2. Written(k)
    BY <1>3, <2>1 DEF Written
  <2> QED
    BY <1>3, <2>1, <2>2 DEF Marked
<1>8. CASE Kept(k) /\ Written(k)
    BY <1>3, <1>8 DEF Marked, Kept
<1> QED
    BY <1>2, <1>3, <1>4, <1>5, <1>6, <1>7, <1>8, BindChannelStep

\* A bound channel has one socket, or one for each of the peers.
Sized ==
    ~ Resetting => \A k \in Key :
        k[2] \in ChannelsOf(k[1], "bind")
          /\ state[k[1]] \in {"Bound", "DeviceReady"} =>
        /\ Len(address[k]) = IF numSockets[k] <= 1 THEN 1 ELSE numSockets[k]
        /\ \A i \in DOMAIN address[k] : IsSocket(address[k][i], k, i)

\* Every step keeps that.
LEMMA SizedStep ==
    ASSUME TypeInv, AllReset, Todo, AddressesFound, Sized, [Next]_vars
    PROVE  Sized'
<1> USE DEF TypeInv
<1> SUFFICES ASSUME ~ Resetting', NEW k \in Key,
                    k[2] \in ChannelsOf(k[1], "bind")',
                    state'[k[1]] \in {"Bound", "DeviceReady"}
             PROVE  /\ Len(address'[k]) =
                          IF numSockets'[k] <= 1 THEN 1 ELSE numSockets'[k]
                    /\ \A i \in DOMAIN address'[k] :
                          IsSocket(address'[k][i], k, i)
    BY DEF Sized, IsSocket
<1>0. k[1] \in Device /\ k[2] \in Channel /\ k = <<k[1], k[2]>>
    BY Keys
<1>1. ~ Quiet'
    BY <1>0 DEF Quiet
<1>2. Goes
    BY <1>1, GoesOn
<1>3. k[2] \in ChannelsOf(k[1], "bind") /\ ~ Resetting
    BY <1>2 DEF Goes
<1>4. ASSUME NEW d \in Device, NEW c \in todo[d], InitializeChannel(d, c)
      PROVE  k # <<d, c>>
  <2>1. state[d] = "InitializingDevice" /\ state' = state
    BY <1>4, InitializeStep
  <2> QED
    BY <2>1
<1>5. numSockets'[k] = numSockets[k]
  <2>1. LeavesLists \/ \E d \in Device : \E c \in todo[d] : InitializeChannel(d, c)
    BY <1>2, OthersLeaveLists DEF Goes
  <2>2. ASSUME NEW d \in Device, NEW c \in todo[d], InitializeChannel(d, c)
        PROVE  Stays(k)
    BY <1>4, <2>2, InitializeStep
  <2> QED
    BY <2>1, <2>2 DEF LeavesLists, Stays
<1>6. CASE Bind(k[1])
  <2>1. address'[k] = BoundSockets(k[1], k[2])
    BY <1>3, <1>6 DEF Bind
  <2> QED
    BY <1>0, <1>5, <2>1, BoundSocketTypes
<1>7. CASE Kept(k)
    BY <1>3, <1>5, <1>7 DEF Kept, Sized
<1>8. CASE k[2] \in todo[k[1]] /\ WriteBindAddress(k[1], k[2])
    BY <1>3, <1>5, <1>8 DEF WriteBindAddress, Sized
<1> QED
    BY <1>0, <1>2, <1>3, <1>4, <1>6, <1>7, <1>8, BindChannelStep

\* The channels WaitBindAddress no longer waits for are marked, and all of them
\* when it has returned.
Waits ==
    ~ Resetting => \A d \in Device :
        /\ step[d] = "waitBind" =>
              \A k \in Needs(d) \ wanted[d] : channelKey[k].bound
        /\ step[d] = "resolve" => \A k \in Needs(d) : channelKey[k].bound

\* A step that keeps the marks.
LEMMA MarksStay ==
    ASSUME TypeInv, Todo, Goes, [Next]_vars,
           ~ \E d \in Device : \E c \in todo[d] : InitializeChannel(d, c)
    PROVE  \A k \in Key : channelKey[k].bound => channelKey'[k].bound
<1> USE DEF TypeInv
<1>1. ASSUME NEW d \in Device, NEW c \in todo[d], WriteBindAddress(d, c)
      PROVE  \A k \in Key : channelKey[k].bound => channelKey'[k].bound
  <2>1. channelKey' = [channelKey EXCEPT ![<<d, c>>].bound = TRUE]
    BY <1>1 DEF WriteBindAddress
  <2> QED
    BY <2>1 DEF TypeOK
<1>2. ASSUME NEW d \in Device, DeviceStep(d),
             ~ \E c \in todo[d] : WriteBindAddress(d, c)
      PROVE  channelKey' = channelKey
    BY <1>2
    DEF Goes, DeviceStep, InitDevice, InitializeDone, Bind, WaitBindAddress,
        WaitBindAddressReturns, WriteConnectAddress, WaitForPeerConnection,
        HandshakeCanceled, Connect, ReceiveReset, ConfigConnect,
        ResolveConnectAddress, BoundFound, registry
<1>3. ASSUME \/ \E d \in Device : Start(d)
             \/ \E cmd \in DOMAIN Accepts : Broadcast(cmd)
             \/ UNCHANGED vars
      PROVE  channelKey' = channelKey
    BY <1>3 DEF Start, Broadcast, vars, registry
<1> QED
    BY <1>1, <1>2, <1>3 DEF Next, Goes

\* How a device begins to wait, waits and ends to wait.
LEMMA WaitSteps ==
    ASSUME TypeInv, Goes, [Next]_vars, NEW d \in Device
    PROVE  \/ step'[d] = step[d] /\ wanted'[d] = wanted[d]
           \/ step'[d] \notin {"waitBind", "resolve"}
           \/ WaitBindAddress(d) \/ WaitBindAddressReturns(d)
           \/ \E k \in wanted[d] : BoundFound(d, k)
<1> USE DEF TypeInv
<1> DEFINE Same(e) == step'[e] = step[e] /\ wanted'[e] = wanted[e]
           Out(e)  == step'[e] \notin {"waitBind", "resolve"}
<1>1. ASSUME NEW e \in Device,
             \/ InitDevice(e) \/ InitializeDone(e) \/ Bind(e)
             \/ WriteConnectAddress(e) \/ WaitForPeerConnection(e)
             \/ HandshakeCanceled(e)
      PROVE  (e # d => Same(d)) /\ (e = d => Out(d))
    BY <1>1 DEF InitDevice, InitializeDone, Bind, WriteConnectAddress,
                WaitForPeerConnection, HandshakeCanceled, TypeOK
<1>2. ASSUME NEW e \in Device, NEW c \in todo[e],
             \/ InitializeChannel(e, c) \/ WriteBindAddress(e, c)
             \/ ConfigConnect(e, c) \/ ResolveConnectAddress(e, c)
      PROVE  Same(d) \/ Out(d)
  <2>1. /\ wanted' = wanted
        /\ \/ step' = step
           \/ step' = [step EXCEPT ![e] = IF todo[e] = {c} THEN "written" ELSE @]
           \/ step' = [step EXCEPT ![e] = IF todo[e] = {c} THEN "resolved" ELSE @]
    BY <1>2 DEF InitializeChannel, WriteBindAddress, ConfigConnect,
                ResolveConnectAddress
  <2> QED
    BY <2>1 DEF TypeOK
<1>3. ASSUME NEW e \in Device, Start(e) \/ Connect(e) \/ ReceiveReset(e)
      PROVE  Same(d)
    BY <1>3 DEF Start, Connect, ReceiveReset
<1>4. ASSUME NEW cmd \in DOMAIN Accepts, Broadcast(cmd) PROVE Same(d)
    BY <1>4 DEF Broadcast
<1>5. UNCHANGED vars => Same(d)
    BY DEF vars, device
<1>6. ASSUME NEW e \in Device,
             \/ WaitBindAddress(e) \/ WaitBindAddressReturns(e)
             \/ \E k \in wanted[e] : BoundFound(e, k),
             e # d
      PROVE  Same(d)
    BY <1>6 DEF WaitBindAddress, WaitBindAddressReturns, BoundFound, TypeOK
<1> HIDE DEF Same, Out
<1>7. ASSUME NEW e \in Device, DeviceStep(e)
      PROVE  \/ Same(d) \/ Out(d) \/ WaitBindAddress(d)
             \/ WaitBindAddressReturns(d) \/ \E k \in wanted[d] : BoundFound(d, k)
    BY <1>1, <1>2, <1>3, <1>6, <1>7 DEF DeviceStep, Goes
<1> QED
    BY <1>3, <1>4, <1>5, <1>7 DEF Next, Goes, Same, Out

\* A device whose mark another one reads has been initialized.
MarksHold ==
    ~ Resetting =>
        \A d \in Device : state[d] = "Bound" =>
            \A k \in Needs(d) :
                channelKey[k].bound =>
                    state[k[1]] \in {"Initialized", "Bound", "DeviceReady"}

\* So it is when the devices are in step.
LEMMA InStepHolds ==
    ASSUME TypeInv, InStep
    PROVE  MarksHold
<1> SUFFICES ASSUME ~ Resetting, NEW d \in Device, state[d] = "Bound",
                    NEW k \in Needs(d)
             PROVE  state[k[1]] \in {"Initialized", "Bound", "DeviceReady"}
    BY DEF MarksHold
<1>1. d \in Up
    BY DEF Up
<1>2. k[1] \in Up
    BY DEF Needs, ChannelsAt, Present, Up
<1>3. PICK P \in PhaseSets : /\ <<state[d], order[d]>> \in P
                             /\ <<state[k[1]], order[k[1]]>> \in P
    BY <1>1, <1>2 DEF InStep
<1> QED
    BY <1>3 DEF PhaseSets

\* When no bind channel is without peers, the reset of a device deletes all its
\* marks: the hash of every bind channel has been registered.
Owned ==
    \A k \in Key :
        /\ Written(k) /\ k[2] \in ChannelsOf(k[1], "bind") =>
              <<"channel", k[2]>> \in fRegisteredKeys[k[1]]
        /\ channelKey[k].bound =>
              /\ k[2] \in ChannelsOf(k[1], "bind")
              /\ state[k[1]] \in {"Bound", "DeviceReady", "Aborted"}
              /\ <<"channel", k[2]>> \in fRegisteredKeys[k[1]]

\* So a mark is of this round.
LEMMA OwnedHolds ==
    ASSUME TypeInv, Owned
    PROVE  MarksHold
<1> SUFFICES ASSUME ~ Resetting, NEW d \in Device, state[d] = "Bound",
                    NEW k \in Needs(d), channelKey[k].bound
             PROVE  state[k[1]] \in {"Initialized", "Bound", "DeviceReady"}
    BY DEF MarksHold
<1>1. k \in Key
    BY NeedsTypes DEF TypeInv, TypeOK
<1>2. k[1] \in Device
    BY <1>1, Keys
<1>3. state[k[1]] # "Aborted"
    BY <1>2 DEF Resetting
<1> QED
    BY <1>1, <1>3 DEF Owned

\* Every step keeps that.
LEMMA OwnedStep ==
    ASSUME Populated, TypeInv, Todo, Owned, [Next]_vars
    PROVE  Owned'
<1> USE DEF TypeInv
<1>0. \A d, m : ChannelsOf(d, m)' = ChannelsOf(d, m)
    BY TodoStep
<1>1. ASSUME NEW d \in Device, NEW c \in todo[d], InitializeChannel(d, c)
      PROVE  Owned'
  <2> SUFFICES ASSUME NEW k \in Key
               PROVE  /\ Written(k)' /\ k[2] \in ChannelsOf(k[1], "bind") =>
                            <<"channel", k[2]>> \in fRegisteredKeys'[k[1]]
                      /\ channelKey'[k].bound =>
                            /\ k[2] \in ChannelsOf(k[1], "bind")
                            /\ state'[k[1]] \in {"Bound", "DeviceReady", "Aborted"}
                            /\ <<"channel", k[2]>> \in fRegisteredKeys'[k[1]]
    BY <1>0 DEF Owned
  <2>0. k[1] \in Device
    BY Keys
  <2>1. CASE k = <<d, c>>
    <3>1. k[1] = d /\ k[2] = c
      BY <2>1
    <3>2. state[d] = "InitializingDevice"
      BY <1>1, InitializeStep
    <3>3. CASE PeersOf(d, c) = {}
      <4>1. c \notin ChannelsOf(d, "bind")
        BY <3>2, <3>3 DEF Populated
      <4>2. \E n : WriteChannel(d, c, n, PeersOf(d, c))
        BY <1>1 DEF InitializeChannel
      <4>3. channelKey' = channelKey
        BY <3>3, <4>2 DEF WriteChannel, registry
      <4> QED
        BY <3>1, <4>1, <4>3 DEF Owned
    <3>4. CASE PeersOf(d, c) # {}
      <4>1. /\ channelKey'[<<d, c>>] =
                  [bound |-> FALSE, numSockets |-> numSockets'[<<d, c>>]]
            /\ {<<"channel", c>>, <<"peer", c>>} \subseteq fRegisteredKeys'[d]
        BY <1>1, <3>4, InitializeStep
      <4>2. ~ channelKey'[k].bound
        BY <2>1, <4>1
      <4> QED
        BY <3>1, <4>1, <4>2
    <3> QED
      BY <3>3, <3>4
  <2>2. CASE k # <<d, c>>
    <3>1. /\ Stays(k) /\ state' = state /\ channelKey'[k] = channelKey[k]
          /\ fRegisteredKeys[k[1]] \subseteq fRegisteredKeys'[k[1]]
      BY <1>1, <2>0, <2>2, InitializeStep
    <3> QED
      BY <3>1 DEF Owned, Stays
  <2> QED
    BY <2>1, <2>2
<1>2. ASSUME NEW d \in Device, Leave(d) \/ Expire(d) \/ ResetDevice(d)
      PROVE  Owned'
  <2>1. /\ \/ state' = [state EXCEPT ![d] = "Down"]
           \/ state' = [state EXCEPT ![d] = "Idle"]
        /\ UNCHANGED todo /\ Unregister(d)
    BY <1>2 DEF Leave, Expire, ResetDevice
  <2>2. state'[d] \in {"Down", "Idle"} /\ \A e \in Device : e # d => state'[e] = state[e]
    BY <2>1 DEF TypeOK
  <2>3. \A k \in Key : k[1] = d => ~ Written(k)'
    BY <2>2 DEF Written
  <2>4. \A k \in Key : k[1] # d => (Written(k)' <=> Written(k))
    BY <1>0, <2>1, <2>2, Keys DEF Written
  <2>5. \A e \in Device :
          fRegisteredKeys'[e] = IF e = d THEN {} ELSE fRegisteredKeys[e]
    BY <2>1 DEF Unregister, TypeOK
  <2>6. \A k \in Key :
          channelKey'[k] = IF k[1] = d /\ <<"channel", k[2]>> \in fRegisteredKeys[d]
                           THEN Absent ELSE channelKey[k]
    BY <2>1 DEF Unregister
  <2>7. \A k \in Key : k[1] = d => ~ channelKey'[k].bound
    <3> SUFFICES ASSUME NEW k \in Key, k[1] = d, channelKey'[k].bound
                 PROVE  FALSE
      OBVIOUS
    <3>1. ~ Absent.bound
      BY DEF Absent
    <3>2. CASE <<"channel", k[2]>> \in fRegisteredKeys[d]
      BY <2>6, <3>1, <3>2
    <3>3. CASE <<"channel", k[2]>> \notin fRegisteredKeys[d]
      BY <2>6, <3>3 DEF Owned
    <3> QED
      BY <3>2, <3>3
  <2> QED
    BY <1>0, <2>2, <2>3, <2>4, <2>5, <2>6, <2>7, Keys DEF Owned
<1>3. ASSUME NEW d \in Device, NEW c \in todo[d], Aborts(d, c) PROVE Owned'
  <2>1. /\ state' = [state EXCEPT ![d] = "Aborted"]
        /\ todo' = [todo EXCEPT ![d] = {}]
        /\ UNCHANGED <<channelKey, fRegisteredKeys>>
    BY <1>3 DEF Aborts, registry
  <2>2. \A k \in Key : k[1] # d => (Written(k)' <=> Written(k))
    BY <1>0, <2>1, Keys DEF Written, TypeOK
  <2>3. \A e \in Device : state'[e] = IF e = d THEN "Aborted" ELSE state[e]
    BY <2>1 DEF TypeOK
  <2>4. \A k \in Key : k[1] = d => ~ Written(k)'
    BY <2>3 DEF Written
  <2> QED
    BY <1>0, <2>1, <2>2, <2>3, <2>4, Keys DEF Owned
<1>4. ASSUME LeavesLists,
             \A k \in Key : channelKey'[k].bound =>
                /\ channelKey[k].bound
                /\ state[k[1]] \in {"Bound", "DeviceReady"} =>
                      state'[k[1]] \in {"Bound", "DeviceReady"}
      PROVE  Owned'
    BY <1>0, <1>4, Keys DEF LeavesLists, Stays, Owned
<1>5. ASSUME NEW d \in Device, NEW c \in todo[d], WriteBindAddress(d, c),
             LeavesLists
      PROVE  Owned'
  <2>1. /\ <<d, c>> \in Key /\ step[d] = "writeBind" /\ state' = state
        /\ channelKey' = [channelKey EXCEPT ![<<d, c>>].bound = TRUE]
    BY <1>5 DEF WriteBindAddress, TypeOK, Key
  <2>2. state[d] = "Bound" /\ c \in ChannelsOf(d, "bind")
    BY <2>1 DEF Phases, Todo
  <2>3. Written(<<d, c>>)
    BY <2>2 DEF Written
  <2>4. <<"channel", c>> \in fRegisteredKeys[d]
    BY <2>1, <2>2, <2>3 DEF Owned
  <2>5. \A k \in Key : k # <<d, c>> => channelKey'[k] = channelKey[k]
    BY <2>1 DEF TypeOK
  <2>6. \A k \in Key : k = <<d, c>> => k[1] = d /\ k[2] = c
    OBVIOUS
  <2>7. fRegisteredKeys[d] \subseteq fRegisteredKeys'[d]
    BY <1>5 DEF LeavesLists
  <2> SUFFICES ASSUME NEW k \in Key
               PROVE  /\ Written(k)' /\ k[2] \in ChannelsOf(k[1], "bind") =>
                            <<"channel", k[2]>> \in fRegisteredKeys'[k[1]]
                      /\ channelKey'[k].bound =>
                            /\ k[2] \in ChannelsOf(k[1], "bind")
                            /\ state'[k[1]] \in {"Bound", "DeviceReady", "Aborted"}
                            /\ <<"channel", k[2]>> \in fRegisteredKeys'[k[1]]
    BY <1>0 DEF Owned
  <2>8. /\ Written(k)' <=> Written(k)
        /\ fRegisteredKeys[k[1]] \subseteq fRegisteredKeys'[k[1]]
    BY <1>5, Keys DEF LeavesLists, Stays
  <2>9. CASE k = <<d, c>>
    BY <2>1, <2>2, <2>4, <2>6, <2>7, <2>9
  <2>10. CASE k # <<d, c>>
    BY <2>1, <2>5, <2>8, <2>10 DEF Owned
  <2> QED
    BY <2>9, <2>10
<1>6. ASSUME NEW d \in Device,
             \/ InitDevice(d) \/ InitializeDone(d) \/ Bind(d) \/ Connect(d)
             \/ Start(d)
      PROVE  \A k \in Key : channelKey'[k].bound =>
                /\ channelKey[k].bound
                /\ state[k[1]] \in {"Bound", "DeviceReady"} =>
                      state'[k[1]] \in {"Bound", "DeviceReady"}
  <2>1. /\ channelKey' = channelKey
        /\ \A e \in Device : e # d => state'[e] = state[e]
        /\ state[d] \in {"Bound", "DeviceReady"} =>
              state'[d] \in {"Bound", "DeviceReady"}
    BY <1>6 DEF InitDevice, InitializeDone, Bind, Connect, Start, registry,
                TypeOK, Phases
  <2> QED
    BY <2>1, Keys
<1>7. ASSUME UNCHANGED <<state, channelKey>>
      PROVE  \A k \in Key : channelKey'[k].bound =>
                /\ channelKey[k].bound
                /\ state[k[1]] \in {"Bound", "DeviceReady"} =>
                      state'[k[1]] \in {"Bound", "DeviceReady"}
    BY <1>7
<1>8. ASSUME NEW d \in Device, DeviceStep(d)
      PROVE  \/ InitDevice(d) \/ InitializeDone(d) \/ Bind(d) \/ Connect(d)
             \/ ResetDevice(d) \/ Expire(d)
             \/ \E c \in todo[d] : \/ Aborts(d, c) \/ InitializeChannel(d, c)
                                   \/ WriteBindAddress(d, c)
             \/ UNCHANGED <<state, channelKey>>
    BY <1>8 DEF DeviceStep, WaitBindAddress, WaitBindAddressReturns,
                WriteConnectAddress, WaitForPeerConnection, HandshakeCanceled,
                ReceiveReset, ConfigConnect, ResolveConnectAddress, BoundFound,
                registry
<1>9. ASSUME NEW cmd \in DOMAIN Accepts, Broadcast(cmd)
      PROVE  UNCHANGED <<state, channelKey>>
    BY <1>9 DEF Broadcast, registry
<1>10. UNCHANGED vars => UNCHANGED <<state, channelKey>>
    BY DEF vars, device, registry
<1>11. CASE LeavesLists
  <2>1. CASE \E d \in Device :
                \/ InitDevice(d) \/ InitializeDone(d) \/ Bind(d) \/ Connect(d)
                \/ Start(d)
    BY <1>4, <1>6, <1>11, <2>1
  <2>2. CASE UNCHANGED <<state, channelKey>>
    BY <1>4, <1>7, <1>11, <2>2
  <2> QED
    BY <1>1, <1>2, <1>3, <1>5, <1>8, <1>9, <1>10, <1>11, <2>1, <2>2 DEF Next
<1> QED
    BY <1>1, <1>2, <1>3, <1>11, OthersLeaveLists

\* What makes the marks hold: commands for one transition, or no bind channel
\* without peers.
Steady  == IF Stepwise THEN InStep ELSE Owned

\* They hold,
LEMMA SteadyHolds ==
    ASSUME TypeInv, Steady
    PROVE  MarksHold
BY InStepHolds, OwnedHolds DEF Steady

\* and go on to.
LEMMA SteadyStep ==
    ASSUME Orderly, TypeInv, AllReset, Todo, Steady, AddressesFound, [Next]_vars
    PROVE  Steady'
<1>1. topo' = topo
    BY TodoStep
<1>2. Stepwise' = Stepwise
    BY <1>1 DEF Stepwise
<1> QED
    BY <1>2, PhaseStep, OwnedStep DEF Orderly, Steady

\* Every step keeps Waits, because no channel that another device has found
\* marked is initialized.
LEMMA WaitsStep ==
    ASSUME TypeInv, AllReset, MarksHold, Todo, AddressesFound, Waits, [Next]_vars
    PROVE  Waits'
<1> USE DEF TypeInv
<1> SUFFICES ASSUME ~ Resetting', NEW d \in Device,
                    step'[d] \in {"waitBind", "resolve"}
             PROVE  /\ step'[d] = "waitBind" =>
                          \A k \in Needs(d)' \ wanted'[d] : channelKey'[k].bound
                    /\ step'[d] = "resolve" =>
                          \A k \in Needs(d)' : channelKey'[k].bound
    BY DEF Waits
<1>0. state'[d] = "Bound"
    BY TypeNext DEF Phases
<1>1. ~ Quiet'
    BY <1>0 DEF Quiet
<1>2. Goes
    BY <1>1, GoesOn
<1>3. /\ ~ Resetting /\ Needs(d)' = Needs(d)
      /\ Needs(d) \subseteq Key
    BY <1>2, NeedsTypes DEF Goes, TypeOK
<1>4. ASSUME NEW e \in Device, NEW c \in todo[e], InitializeChannel(e, c),
             NEW k \in Needs(d), channelKey[k].bound
      PROVE  channelKey'[k].bound
  <2>1. /\ state[e] = "InitializingDevice" /\ state' = state
        /\ \A l \in Key : l # <<e, c>> => channelKey'[l] = channelKey[l]
    BY <1>4, InitializeStep
  <2>2. state[k[1]] \in {"Initialized", "Bound", "DeviceReady"}
    BY <1>0, <1>3, <1>4, <2>1 DEF MarksHold
  <2>3. k # <<e, c>>
    BY <2>1, <2>2
  <2> QED
    BY <1>3, <1>4, <2>1, <2>3
<1>5. \A k \in Needs(d) : channelKey[k].bound => channelKey'[k].bound
    BY <1>2, <1>3, <1>4, MarksStay
<1>6. CASE step'[d] = step[d] /\ wanted'[d] = wanted[d]
    BY <1>3, <1>5, <1>6 DEF Waits
<1>7. CASE WaitBindAddress(d)
  <2>1. step'[d] = "waitBind" /\ wanted'[d] = Needs(d)
    BY <1>7 DEF WaitBindAddress, Needs, TypeOK
  <2> QED
    BY <1>3, <2>1
<1>8. CASE \E l \in wanted[d] : BoundFound(d, l)
  <2>1. PICK l \in wanted[d] : BoundFound(d, l)
    BY <1>8
  <2>2. /\ step[d] = "waitBind" /\ channelKey[l].bound /\ step' = step
        /\ wanted'[d] = wanted[d] \ {l}
    BY <2>1 DEF BoundFound, TypeOK
  <2> QED
    BY <1>3, <1>5, <2>2 DEF Waits
<1>9. CASE WaitBindAddressReturns(d)
  <2>1. ~ canceled[d]
    BY <1>3 DEF Resetting, TypeOK
  <2>2. step[d] = "waitBind" /\ wanted[d] = {} /\ step'[d] # "waitBind"
    BY <1>9, <2>1 DEF WaitBindAddressReturns, TypeOK
  <2> QED
    BY <1>3, <1>5, <2>2 DEF Waits
<1> QED
    BY <1>2, <1>6, <1>7, <1>8, <1>9, WaitSteps

\* The inductive invariant: what the registry holds, and who waits for what.
RoundInv ==
    /\ TypeInv /\ Todo /\ CurrentInv /\ Steady
    /\ Fresh /\ Listed /\ Marked /\ Sized /\ Waits

\* It holds at the start,
LEMMA RoundInit == Init => RoundInv
<1> SUFFICES ASSUME Init PROVE RoundInv
    OBVIOUS
<1>1. TypeInv /\ CurrentInv
    BY TypeInit, CurrentInit
<1>2. Quiet /\ Up = {}
    BY DEF Init, Quiet, Up
<1>3. Todo /\ InStep
    BY <1>2 DEF Init, Todo, InStep, PhaseSets
<1>8. Owned
    BY <1>2, QuietWrites DEF Init, Owned, Absent
<1>4. \A k \in Key : ~ Written(k) /\ state[k[1]] \notin {"Bound", "DeviceReady"}
    BY <1>2, QuietWrites
<1>5. Fresh
    BY DEF Init, Fresh
<1>6. Listed /\ Marked /\ Sized
    BY <1>4 DEF Listed, Marked, Sized
<1>7. Waits
    BY DEF Init, Waits
<1> QED
    BY <1>1, <1>3, <1>5, <1>6, <1>7, <1>8 DEF RoundInv, Steady

\* What a device that resolves channel c finds of a peer in its list.
LEMMA PeerReady ==
    ASSUME Crossing, RoundInv, NEW d \in Device, NEW c \in todo[d],
           step[d] = "resolve", order[d] # "RESET_DEVICE"
    PROVE  /\ ~ Resetting /\ d \in Up /\ <<d, c>> \in Key
           /\ c \in ChannelsOf(d, "connect") /\ Written(<<d, c>>)
           /\ peerKey[<<d, c>>] = SortedKeys(PeersOf(d, c))
           /\ ToSet(peerKey[<<d, c>>]) = PeersOf(d, c)
           /\ \A p \in PeersOf(d, c) :
                 /\ p \in Key /\ <<d, c>> \in PeersOf(p[1], p[2])
                 /\ peerKey[p] = SortedKeys(PeersOf(p[1], p[2]))
                 /\ channelKey[p].numSockets = numSockets[p]
                 /\ numSockets[p] = IF Endpoint(p[1], p[2]).autoSubChannel
                                    THEN Cardinality(Found(p[1], p[2])) ELSE 0
                 /\ Len(socketKey[p]) =
                       IF numSockets[p] <= 1 THEN 1 ELSE numSockets[p]
                 /\ \A i \in DOMAIN socketKey[p] : OfChannel(socketKey[p][i], p)
                 /\ numSockets[p] <= Base =>
                       \A i \in DOMAIN socketKey[p] : IsSocket(socketKey[p][i], p, i)
<1> USE DEF RoundInv, TypeInv
<1> DEFINE k == <<d, c>>
<1>1. state[d] = "Bound" /\ c \in Channel
    BY DEF Phases, TypeOK
<1>2. k \in Key /\ k[1] = d /\ k[2] = c
    BY <1>1 DEF Key
<1>3. ~ Resetting
    BY <1>1 DEF CurrentInv, AllReset
<1>4. c \in ChannelsOf(d, "connect") /\ d \in Up
    BY <1>1 DEF Todo, Up
<1>5. Written(k)
    BY <1>1, <1>2, <1>4 DEF Written
<1>6. peerKey[k] = SortedKeys(PeersOf(d, c))
    BY <1>2, <1>3, <1>5 DEF Listed
<1>7. ToSet(peerKey[k]) = PeersOf(d, c)
  <2>1. PeersOf(d, c) \in SUBSET Key /\ IsFiniteSet(PeersOf(d, c))
    BY <1>1, PeerTypes DEF TypeOK
  <2> QED
    BY <1>6, <2>1, SortsAll
<1>8. ASSUME NEW p \in PeersOf(d, c)
      PROVE  /\ p \in Key /\ k \in PeersOf(p[1], p[2])
             /\ peerKey[p] = SortedKeys(PeersOf(p[1], p[2]))
             /\ channelKey[p].numSockets = numSockets[p]
             /\ numSockets[p] = IF Endpoint(p[1], p[2]).autoSubChannel
                                THEN Cardinality(Found(p[1], p[2])) ELSE 0
             /\ Len(socketKey[p]) =
                   IF numSockets[p] <= 1 THEN 1 ELSE numSockets[p]
             /\ \A i \in DOMAIN socketKey[p] : OfChannel(socketKey[p][i], p)
             /\ numSockets[p] <= Base =>
                   \A i \in DOMAIN socketKey[p] : IsSocket(socketKey[p][i], p, i)
  <2>1. /\ p \in Key /\ p \in Needs(d) /\ p[2] \in ChannelsOf(p[1], "bind")
        /\ p[1] \in Up /\ k \in PeersOf(p[1], p[2])
    BY <1>1, <1>4, PeersLinked, PeersBind DEF TypeOK
  <2>2. channelKey[p].bound
    BY <1>3, <2>1 DEF Waits
  <2>4. state[p[1]] \in {"Initialized", "Bound", "DeviceReady"}
    BY <1>1, <1>3, <2>1, <2>2, SteadyHolds DEF MarksHold
  <2>5. Written(p)
    BY <2>1, <2>4 DEF Written
  <2>6. /\ state[p[1]] \in {"Bound", "DeviceReady"}
        /\ socketKey[p] = Published(address[p])
    BY <1>3, <2>1, <2>2, <2>5 DEF Marked
  <2>7. /\ Len(socketKey[p]) = IF numSockets[p] <= 1 THEN 1 ELSE numSockets[p]
        /\ \A i \in DOMAIN socketKey[p] : OfChannel(socketKey[p][i], p)
        /\ numSockets[p] <= Base =>
              \A i \in DOMAIN socketKey[p] : IsSocket(socketKey[p][i], p, i)
    <3>1. /\ Len(address[p]) = IF numSockets[p] <= 1 THEN 1 ELSE numSockets[p]
          /\ \A i \in DOMAIN address[p] : IsSocket(address[p][i], p, i)
      BY <1>3, <2>1, <2>6 DEF Sized
    <3>2. address[p] \in Seq(SocketAddress) /\ numSockets[p] \in Nat
      BY <2>1 DEF TypeOK
    <3>3. /\ Len(Published(address[p])) = Len(address[p])
          /\ Published(address[p]) \in Seq(SocketAddress)
          /\ ToSet(Published(address[p])) \subseteq ToSet(address[p])
          /\ Len(address[p]) <= Base => Published(address[p]) = address[p]
      BY <3>2, PublishedList
    <3>4. Base \in Nat /\ Base >= 2
      BY TopologyAssumption
    <3>5. numSockets[p] <= Base => Len(address[p]) <= Base
      BY <3>1, <3>2, <3>4
    <3>6. ASSUME NEW i \in DOMAIN socketKey[p] PROVE OfChannel(socketKey[p][i], p)
      <4>1. socketKey[p][i] \in ToSet(address[p])
        BY <2>6, <3>3 DEF ToSet
      <4>2. PICK j \in DOMAIN address[p] : socketKey[p][i] = address[p][j]
        BY <4>1, <3>2 DEF ToSet
      <4> QED
        BY <3>1, <4>2 DEF IsSocket, OfChannel
    <3> QED
      BY <2>6, <3>1, <3>3, <3>5, <3>6
  <2>8. /\ peerKey[p] = SortedKeys(PeersOf(p[1], p[2]))
        /\ channelKey[p].numSockets = numSockets[p]
        /\ numSockets[p] = IF Endpoint(p[1], p[2]).autoSubChannel
                           THEN Cardinality(Found(p[1], p[2])) ELSE 0
    BY <1>3, <2>1, <2>5 DEF Listed
  <2> QED
    BY <2>1, <2>7, <2>8
<1> HIDE DEF RoundInv, TypeInv
<1> QED
    BY <1>2, <1>3, <1>4, <1>5, <1>6, <1>7, <1>8

\* That is what ResolveConnectAddress takes for granted.
LEMMA RoundFound ==
    ASSUME Crossing, RoundInv
    PROVE  AddressesFound
<1> SUFFICES ASSUME NEW d \in Device, NEW c \in Channel, Unresolvable(d, c),
                    order[d] # "RESET_DEVICE"
             PROVE  FALSE
    BY DEF AddressesFound
<1> DEFINE k == <<d, c>>
<1>0. TypeOK
    BY DEF RoundInv, TypeInv
<1>1. step[d] = "resolve" /\ c \in todo[d] /\ Resolution(k).undefined
    BY DEF Unresolvable
<1>2. k \in Key /\ ToSet(peerKey[k]) = PeersOf(d, c)
    BY <1>1, PeerReady
<1>3. PICK p \in PeersOf(d, c) : Missing(k, p)
    BY <1>0, <1>1, <1>2, ListsTyped, ResolutionResult
<1> DEFINE n == numSockets[p]
           Q == PeersOf(p[1], p[2])
<1>4. /\ p \in Key /\ k \in Q
      /\ peerKey[p] = SortedKeys(Q) /\ channelKey[p].numSockets = n
      /\ n = IF Endpoint(p[1], p[2]).autoSubChannel
             THEN Cardinality(Found(p[1], p[2])) ELSE 0
      /\ Len(socketKey[p]) = IF n <= 1 THEN 1 ELSE n
    BY <1>1, PeerReady
<1>5. n \in Nat /\ peerKey[p] \in Seq(Key)
    BY <1>0, <1>4 DEF TypeOK
<1>6. n > 1 => PlaceIn(peerKey[p], k) < n
  <2> SUFFICES ASSUME n > 1 PROVE PlaceIn(peerKey[p], k) < n
    OBVIOUS
  <2>1. p[1] \in Device /\ p[2] \in Channel
    BY <1>4, Keys
  <2>2. n = Cardinality(Q)
    BY <1>0, <1>4, <2>1, OneLinkPerPeer DEF TypeOK
  <2>3. Q \subseteq Key /\ IsFiniteSet(Q)
    BY <1>0, <2>1, PeerTypes DEF TypeOK
  <2>4. Len(peerKey[p]) = n
    BY <1>4, <2>2, <2>3, Sorts
  <2>5. k \in ToSet(peerKey[p])
    BY <1>4, <2>3, SortsAll
  <2> QED
    BY <1>5, <2>4, <2>5, Places
<1>7. PlaceIn(peerKey[p], k) \in Nat
    BY <1>5, Places
<1> HIDE DEF n
<1> QED
    BY <1>3, <1>4, <1>5, <1>6, <1>7 DEF Missing

\* and every step keeps it.
LEMMA RoundStep ==
    ASSUME Crossing, Orderly, RoundInv, [Next]_vars
    PROVE  RoundInv'
<1>1. AddressesFound
    BY RoundFound
<1>2. TypeInv /\ Todo /\ CurrentInv /\ AllReset /\ Steady
      /\ Fresh /\ Listed /\ Marked /\ Sized /\ Waits
    BY DEF RoundInv, CurrentInv
<1>3. TypeInv' /\ Todo' /\ CurrentInv'
    BY <1>1, <1>2, TypeNext, TodoStep, CurrentStep
<1>4. Steady' /\ Fresh'
    BY <1>1, <1>2, SteadyStep, FreshStep
<1>5. Listed' /\ Marked'
    BY <1>1, <1>2, ListedStep, MarkedStep
<1>6. Sized' /\ Waits'
    BY <1>1, <1>2, SizedStep, WaitsStep, SteadyHolds
<1> QED
    BY <1>3, <1>4, <1>5, <1>6 DEF RoundInv

\* When every link joins a bind channel and a connect channel of another
\* service, ResolveConnectAddress finds what it takes for granted in the lists
\* and addresses it reads, unless the device is being reset: if each command
\* asks for one transition, or if devices may carry out several at their own
\* pace and no bind channel is without peers.
THEOREM AllAddressesFound ==
    ASSUME Crossing
    PROVE  Spec => FindsAddresses
<1>1. RoundInv /\ Orderly /\ [Next]_vars => RoundInv'
    BY RoundStep
<1>2. RoundInv => AddressesFound
    BY RoundFound
<1> QED
    BY RoundInit, <1>1, <1>2, PTL DEF Spec, FindsAddresses

\* Then a device connects only to sockets that are bound now, devices that each
\* go from Idle to DeviceReady at their own pace included.
THEOREM CrossingCurrent ==
    ASSUME Crossing
    PROVE  Spec => ConnectsToCurrent
BY AllAddressesFound, CurrentAddresses, PTL DEF FindsAddresses, ConnectsToCurrent

-----------------------------------------------------------------------------
(* Which peer a device connects to.                                        *)

\* There is one ordering only: where two differ first, each would have to come
\* before the other.
LEMMA OneOrdering ==
    ASSUME NEW S \in SUBSET Key, IsFiniteSet(S), NEW s, NEW t,
           Ordering(s, S), Ordering(t, S)
    PROVE  s = t
<1> DEFINE n == Cardinality(S)
           D == {i \in 1..n : s[i] # t[i]}
<1>1. /\ s \in [1..n -> S] /\ \A i, j \in 1..n : i # j => s[i] # s[j]
      /\ t \in [1..n -> S] /\ \A i, j \in 1..n : i # j => t[i] # t[j]
      /\ \A i, j \in 1..n : i < j => Before(s[i], s[j]) /\ Before(t[i], t[j])
    BY DEF Ordering, SetToSeqs
<1>2. n \in Nat
    BY FS_CardinalityType
<1>3. ASSUME NEW u \in [1..n -> S],
             \A i, j \in 1..n : i # j => u[i] # u[j],
             NEW x \in S
      PROVE  \E i \in 1..n : u[i] = x
  <2>1. u \in Injection(1..n, S)
    BY <1>3 DEF Injection, IsInjective
  <2>2. Cardinality(1..n) = n
    <3>1. IsFiniteSet(1..n)
            /\ Cardinality(1..n) = IF 1 > n THEN 0 ELSE n - 1 + 1
      BY <1>2, FS_Interval
    <3> QED
      BY <1>2, <3>1
  <2>3. u \in Surjection(1..n, S)
    BY <2>1, <2>2, FS_Injection
  <2> QED
    BY <2>3 DEF Surjection
<1>4. SUFFICES ASSUME D # {} PROVE FALSE
  <2>1. ASSUME D = {} PROVE s = t
    <3>1. \A i \in 1..n : s[i] = t[i]
      BY <2>1
    <3> HIDE DEF n
    <3>2. s \in [1..n -> S] /\ t \in [1..n -> S]
      BY <1>1
    <3>3. s = [i \in 1..n |-> s[i]] /\ t = [i \in 1..n |-> t[i]]
      BY <3>2
    <3>4. [i \in 1..n |-> s[i]] = [i \in 1..n |-> t[i]]
      BY <3>1
    <3> QED
      BY <3>3, <3>4
  <2> QED
    BY <2>1
<1>5. PICK i \in D : \A j \in D : i <= j
  <2>1. D \in SUBSET Nat
    OBVIOUS
  <2> QED
    BY <1>4, <2>1, Least
<1>6. /\ i \in 1..n /\ s[i] \in S /\ t[i] \in S /\ s[i] # t[i]
      /\ \A j \in 1..n : j < i => s[j] = t[j]
    BY <1>1, <1>2, <1>5
<1>7. PICK j \in 1..n : t[j] = s[i]
    BY <1>1, <1>3, <1>6
<1>8. PICK l \in 1..n : s[l] = t[i]
    BY <1>1, <1>3, <1>6
<1>9. i < j /\ i < l
    BY <1>1, <1>2, <1>6, <1>7, <1>8
<1>10. Before(t[i], s[i]) /\ Before(s[i], t[i])
    BY <1>1, <1>6, <1>7, <1>8, <1>9
<1> QED
    BY <1>6, <1>10, Keys DEF Before

\* The channels c of the instances of one service.
Row(D, c) == {<<d, c>> : d \in D}

\* Instances D of service x and E of service y with the same indices.
Matching(D, x, E, y) ==
    /\ \A d \in D : d.service = x
    /\ \A e \in E : e.service = y
    /\ \A d \in D : \E e \in E : e.index = d.index
    /\ \A e \in E : \E d \in D : e.index = d.index

\* The sorted list of the instances of a service is a list of their indices: two
\* services with the same indices have instances of the same index in each
\* place.
LEMMA Aligned ==
    ASSUME NEW D \in SUBSET Device, NEW E \in SUBSET Device,
           NEW x, NEW y, Matching(D, x, E, y),
           NEW b \in Channel, NEW c \in Channel,
           IsFiniteSet(D), IsFiniteSet(E)
    PROVE  /\ Row(D, b) \in SUBSET Key /\ IsFiniteSet(Row(D, b))
           /\ Row(E, c) \in SUBSET Key /\ IsFiniteSet(Row(E, c))
           /\ Cardinality(Row(E, c)) = Cardinality(Row(D, b))
           /\ \A i \in 1..Cardinality(Row(D, b)) :
                 SortedKeys(Row(E, c))[i] =
                    <<[service |-> y, index |-> SortedKeys(Row(D, b))[i][1].index],
                      c>>
<1> DEFINE A == Row(D, b)
           B == Row(E, c)
           g(d) == [service |-> y, index |-> d.index]
           h == [k \in A |-> <<g(k[1]), c>>]
<1>0. Device \subseteq [service : Nat, index : Nat] /\ Channel \subseteq Nat
    BY TopologyAssumption
<1>1. A \in SUBSET Key /\ B \in SUBSET Key
    BY DEF Row, Key
<1>2. IsFiniteSet(A) /\ IsFiniteSet(B)
  <2>1. IsFiniteSet(Device) /\ IsFiniteSet(Channel)
    BY TopologyAssumption
  <2>2. IsFiniteSet(Key)
    BY <2>1, FS_Product DEF Key
  <2> QED
    BY <1>1, <2>2, FS_Subset
<1>3. \A d \in D : g(d) \in E
  <2> SUFFICES ASSUME NEW d \in D PROVE g(d) \in E
    OBVIOUS
  <2>1. PICK e \in E : e.index = d.index
    BY DEF Matching
  <2>2. e = g(d)
    BY <1>0, <2>1 DEF Matching
  <2> QED
    BY <2>2
<1>4. \A e \in E : \E d \in D : g(d) = e
  <2> SUFFICES ASSUME NEW e \in E PROVE \E d \in D : g(d) = e
    OBVIOUS
  <2>1. PICK d \in D : e.index = d.index
    BY DEF Matching
  <2>2. e = g(d)
    BY <1>0, <2>1 DEF Matching
  <2> QED
    BY <2>2
<1>5. \A d, e \in D : g(d) = g(e) => d = e
  <2> SUFFICES ASSUME NEW d \in D, NEW e \in D, g(d) = g(e) PROVE d = e
    OBVIOUS
  <2>1. d.index = e.index /\ d.service = e.service
    BY DEF Matching
  <2> QED
    BY <1>0, <2>1
<1> HIDE DEF g
<1>6. /\ h \in [A -> B]
      /\ \A k \in A : k[1] \in D /\ k = <<k[1], b>> /\ h[k] = <<g(k[1]), c>>
    BY <1>3 DEF Row
<1>7. h \in Surjection(A, B) /\ h \in Injection(A, B)
  <2>1. ASSUME NEW l \in B PROVE \E k \in A : h[k] = l
    <3>1. PICK e \in E : l = <<e, c>>
      BY DEF Row
    <3>2. PICK d \in D : g(d) = e
      BY <1>4
    <3>3. <<d, b>> \in A /\ h[<<d, b>>] = l
      BY <3>1, <3>2 DEF Row
    <3> QED
      BY <3>3
  <2>2. ASSUME NEW k \in A, NEW l \in A, h[k] = h[l] PROVE k = l
    <3>1. g(k[1]) = g(l[1])
      BY <1>6, <2>2
    <3>2. k[1] \in D /\ l[1] \in D /\ k = <<k[1], b>> /\ l = <<l[1], b>>
      BY <1>6, <2>2
    <3>3. k[1] = l[1]
      BY <1>5, <3>1, <3>2
    <3> QED
      BY <3>2, <3>3
  <2> HIDE DEF h, A, B
  <2> QED
    BY <1>6, <2>1, <2>2 DEF Surjection, Injection, IsInjective
<1>8. Cardinality(B) = Cardinality(A) /\ Cardinality(A) \in Nat
    BY <1>2, <1>7, FS_Surjection, FS_CardinalityType
<1> DEFINE n == Cardinality(A)
           s == SortedKeys(A)
           t == [i \in 1..n |-> h[s[i]]]
<1> HIDE DEF h, A, B
<1>9. /\ s \in [1..n -> A] /\ \A i, j \in 1..n : i # j => s[i] # s[j]
      /\ \A i, j \in 1..n : i < j => Before(s[i], s[j])
    BY <1>1, <1>2, Sorts DEF Ordering, SetToSeqs
<1> HIDE DEF s, n
<1>10. Ordering(t, B)
  <2>1. t \in [1..n -> B]
    BY <1>6, <1>9
  <2>2. \A i, j \in 1..n : i # j => t[i] # t[j]
    BY <1>7, <1>9 DEF Injection, IsInjective
  <2>3. ASSUME NEW i \in 1..n, NEW j \in 1..n, i < j PROVE Before(t[i], t[j])
    <3>1. Before(s[i], s[j]) /\ s[i] \in A /\ s[j] \in A
      BY <1>9, <2>3
    <3>2. /\ t[i] = <<g(s[i][1]), c>> /\ t[j] = <<g(s[j][1]), c>>
          /\ s[i][1] \in D /\ s[j][1] \in D
          /\ s[i] = <<s[i][1], b>> /\ s[j] = <<s[j][1], b>>
      BY <1>6, <3>1
    <3>3. s[i][1].index < s[j][1].index
      <4>1. s[i][2] = b /\ s[j][2] = b /\ b \in Nat
        BY <1>0, <3>2
      <4>2. s[i][1].service = s[j][1].service /\ s[i][1].service \in Nat
        BY <1>0, <3>2 DEF Matching
      <4> QED
        BY <3>1, <4>1, <4>2 DEF Before
    <3> QED
      BY <3>2, <3>3 DEF Before, g
  <2>4. n = Cardinality(B)
    BY <1>8 DEF n
  <2> QED
    BY <2>1, <2>2, <2>3, <2>4 DEF Ordering, SetToSeqs
<1>11. SortedKeys(B) = t
    BY <1>1, <1>2, <1>10, Sorts, OneOrdering
<1>12. \A i \in 1..n : SortedKeys(B)[i] = <<g(s[i][1]), c>>
    BY <1>6, <1>9, <1>11
<1> QED
    BY <1>1, <1>2, <1>8, <1>12 DEF A, B, n, s, g

\* A channel without autoSubChannel has one link, possibly written in both
\* directions, as in all topologies of scripts/.
OneLinkEach ==
    \A t \in Topologies : \A l, m \in t.link :
        \A e \in {l.L, l.R} \intersect {m.L, m.R} :
            \/ t.endpoint[e].autoSubChannel
            \/ {l.L, l.R} = {m.L, m.R}

\* For such a channel Initialize finds the instances of one service.
LEMMA OnlyLink ==
    ASSUME Crossing, OneLinkEach, topo \in Topologies,
           NEW d \in Device, NEW c \in Channel, NEW l \in LinksOf(d, c),
           ~ Endpoint(d, c).autoSubChannel
    PROVE  /\ LinksOf(d, c) = {l}
           /\ PeersOf(d, c) = Row(Present(l.peer[1]), l.peer[2])
<1>1. ASSUME NEW m \in LinksOf(d, c)
      PROVE  /\ m.my = <<d.service, c>> /\ FarEnd(m, c) = m.peer
             /\ m \in [my : End, peer : End]
             /\ \E k \in topo.link : {k.L, k.R} = {m.my, m.peer}
             /\ m.my # m.peer
  <2>1. /\ m.my = <<d.service, c>> /\ FarEnd(m, c) = m.peer
        /\ m \in [my : End, peer : End] /\ m \in Links(d)
        /\ topo.endpoint[m.my].method # topo.endpoint[m.peer].method
    BY CrossingLinks
  <2>2. PICK k \in topo.link : m = IF k.L[1] = d.service
                                   THEN [my |-> k.L, peer |-> k.R]
                                   ELSE [my |-> k.R, peer |-> k.L]
    BY <2>1 DEF Links
  <2>3. {k.L, k.R} = {m.my, m.peer}
    BY <2>2
  <2> QED
    BY <2>1, <2>3
<1>2. ASSUME NEW m \in LinksOf(d, c) PROVE m = l
  <2>1. PICK j \in topo.link : {j.L, j.R} = {l.my, l.peer}
    BY <1>1
  <2>2. PICK k \in topo.link : {k.L, k.R} = {m.my, m.peer}
    BY <1>1
  <2>3. l.my = m.my /\ l.my # l.peer /\ m.my # m.peer
    BY <1>1
  <2>4. {j.L, j.R} = {k.L, k.R}
    <3>1. /\ l.my \in {j.L, j.R} \intersect {k.L, k.R}
          /\ ~ topo.endpoint[l.my].autoSubChannel
      BY <1>1, <2>1, <2>2, <2>3 DEF Endpoint
    <3> QED
      BY <3>1 DEF OneLinkEach
  <2>5. l.peer = m.peer
    BY <2>1, <2>2, <2>3, <2>4
  <2> QED
    BY <1>1, <2>3, <2>5
<1>3. LinksOf(d, c) = {l}
    BY <1>2
<1>4. FarEnd(l, c) = l.peer
    BY <1>1
<1>5. Found(d, c) = {l} \X Present(l.peer[1])
    BY <1>3, <1>4 DEF Found, Present
<1>6. PeersOf(d, c) = Row(Present(l.peer[1]), l.peer[2])
  <2>1. ASSUME NEW f \in Found(d, c)
        PROVE  <<f[2], FarEnd(f[1], c)[2]>> \in Row(Present(l.peer[1]), l.peer[2])
    <3>1. f[1] = l /\ f[2] \in Present(l.peer[1])
      BY <1>5
    <3> QED
      BY <1>4, <3>1 DEF Row
  <2>2. ASSUME NEW x \in Present(l.peer[1])
        PROVE  <<x, l.peer[2]>> \in PeersOf(d, c)
    <3> DEFINE f == <<l, x>>
    <3>1. f \in Found(d, c) /\ f[1] = l /\ f[2] = x
      BY <1>5
    <3> HIDE DEF f
    <3> QED
      BY <1>4, <3>1 DEF PeersOf
  <2> QED
    BY <2>1, <2>2 DEF PeersOf, Row
<1> QED
    BY <1>3, <1>6

\* The channels at both ends of a link list each other.
LEMMA PairedEnds ==
    ASSUME Crossing, OneLinkEach, topo \in Topologies, NEW d \in Device,
           NEW c \in Channel, NEW e \in OtherEnds(d, c),
           ~ Endpoint(d, c).autoSubChannel, ~ topo.endpoint[e].autoSubChannel
    PROVE  /\ e \in End
           /\ PeersOf(d, c) = Row(Present(e[1]), e[2])
           /\ \A x \in Present(e[1]) :
                 PeersOf(x, e[2]) = Row(Present(d.service), c)
<1>1. PICK l \in Links(d) : /\ <<d.service, c>> \in {l.my, l.peer}
                            /\ e = IF l.my = <<d.service, c>> THEN l.peer
                                                              ELSE l.my
    BY DEF OtherEnds
<1>2. l.my[1] = d.service /\ l.my[1] # l.peer[1]
  <2>1. PICK k \in topo.link : /\ d.service \in {k.L[1], k.R[1]}
                               /\ l = IF k.L[1] = d.service
                                      THEN [my |-> k.L, peer |-> k.R]
                                      ELSE [my |-> k.R, peer |-> k.L]
    BY DEF Links
  <2>2. k.L[1] # k.R[1]
    BY DEF Crossing
  <2> QED
    BY <2>1, <2>2
<1>3. l.my = <<d.service, c>> /\ e = l.peer /\ e[1] # d.service
    BY <1>1, <1>2
<1>4. l \in LinksOf(d, c)
    BY <1>3 DEF LinksOf
<1>5. l \in [my : End, peer : End] /\ e \in End /\ e = <<e[1], e[2]>>
      /\ e[2] \in Channel
    BY <1>3, LinkTypes DEF End
<1>6. ASSUME NEW x \in Present(e[1])
      PROVE  PeersOf(x, e[2]) = Row(Present(d.service), c)
  <2> DEFINE b == [my |-> l.peer, peer |-> l.my]
  <2>1. x \in Device /\ x.service = l.peer[1]
    BY <1>3 DEF Present
  <2>2. b \in Links(x)
    BY <1>4, <2>1, CrossingLinks
  <2>3. b \in LinksOf(x, e[2])
    BY <1>3, <2>2 DEF LinksOf
  <2>4. b.peer[1] = d.service /\ b.peer[2] = c
    BY <1>3
  <2>5. ~ Endpoint(x, e[2]).autoSubChannel
    BY <1>3, <1>5, <2>1 DEF Endpoint
  <2> HIDE DEF b
  <2> QED
    BY <1>5, <2>1, <2>3, <2>4, <2>5, OnlyLink
<1> QED
    BY <1>3, <1>4, <1>5, <1>6, OnlyLink

\* Without sub-channels ResolveConnectAddress takes the peer that stands where
\* the channel stands in the peers' lists.
LEMMA SamePlace ==
    ASSUME Lists, NEW k \in Key, NEW m \in Nat, m < Len(peerKey[k]),
           numSockets[k] <= 1,
           \A p \in ToSet(peerKey[k]) : /\ channelKey[p].numSockets <= 1
                                        /\ PlaceIn(peerKey[p], k) = m,
           ~ Resolution(k).undefined
    PROVE  /\ Resolution(k).found = <<socketKey[peerKey[k][m + 1]][1]>>
           /\ Len(socketKey[peerKey[k][m + 1]]) > 0
<1> DEFINE s == peerKey[k]
           n == Len(s)
           r == ResolvedUpTo(k)
           Take(v, p) == IF 0 < Len(socketKey[p])
                         THEN [[v EXCEPT !.peerIndex = @ + 1]
                                  EXCEPT !.found = <<socketKey[p][1]>>]
                         ELSE [[v EXCEPT !.peerIndex = @ + 1]
                                  EXCEPT !.undefined = TRUE]
<1>1. s \in Seq(Key) /\ n \in Nat
    BY DEF Lists
<1>2. /\ r[0] = NothingFound /\ \A i \in 0..n : r[i] \in Results
      /\ \A i \in 1..n : r[i] = ResolvePeer(k, s, r[i - 1], s[i])
    BY ResolvedSteps
<1>3. ASSUME NEW i \in 1..n
      PROVE  r[i] = IF r[i - 1].stop \/ r[i - 1].undefined THEN r[i - 1]
                    ELSE IF r[i - 1].is1to1 /\ m # r[i - 1].peerIndex
                    THEN [r[i - 1] EXCEPT !.peerIndex = @ + 1]
                    ELSE IF m = r[i - 1].peerIndex \/ n = 1
                    THEN [Take(r[i - 1], s[i]) EXCEPT !.stop = TRUE]
                    ELSE [[r[i - 1] EXCEPT !.peerIndex = @ + 1]
                             EXCEPT !.is1to1 = TRUE]
  <2>1. s[i] \in ToSet(peerKey[k]) /\ s[i] \in Key
    BY <1>1 DEF ToSet
  <2>2. /\ channelKey[s[i]].numSockets <= 1 /\ PlaceIn(peerKey[s[i]], k) = m
        /\ channelKey[s[i]].numSockets \in Nat /\ numSockets[k] \in Nat
    BY <2>1 DEF Lists
  <2>3. ~ (numSockets[k] > 1) /\ ~ (channelKey[s[i]].numSockets > 1)
    BY <2>2
  <2>4. r[i] = ResolvePeer(k, s, r[i - 1], s[i])
    BY <1>2
  <2> QED
    BY <2>2, <2>3, <2>4 DEF ResolvePeer, ReadPeerAddress
<1> HIDE DEF r, s, n
<1> DEFINE Before0(i) == /\ r[i].peerIndex = i /\ ~ r[i].stop /\ ~ r[i].undefined
           S == {i \in 0..m : Before0(i)}
<1>4. m < n
    BY DEF n, s
<1>5. 0 \in S
    BY <1>2 DEF NothingFound
<1>6. ASSUME NEW i \in 1..m, i - 1 \in S PROVE i \in S
  <2>1. i \in 1..n /\ i - 1 \in 0..n /\ m # i - 1 /\ n # 1
    BY <1>1, <1>4
  <2>2. r[i - 1] \in Results /\ r[i - 1].peerIndex = i - 1
        /\ ~ r[i - 1].stop /\ ~ r[i - 1].undefined
    BY <1>2, <1>6, <2>1
  <2>3. \/ r[i] = [r[i - 1] EXCEPT !.peerIndex = @ + 1]
        \/ r[i] = [[r[i - 1] EXCEPT !.peerIndex = @ + 1] EXCEPT !.is1to1 = TRUE]
    BY <1>3, <2>1, <2>2
  <2>4. ASSUME NEW v \in Results
        PROVE  LET w == [v EXCEPT !.peerIndex = @ + 1]
                   u == [w EXCEPT !.is1to1 = TRUE]
               IN  /\ w.peerIndex = v.peerIndex + 1 /\ w.stop = v.stop
                   /\ w.undefined = v.undefined
                   /\ u.peerIndex = v.peerIndex + 1 /\ u.stop = v.stop
                   /\ u.undefined = v.undefined
    BY DEF Results
  <2>5. r[i].peerIndex = (i - 1) + 1 /\ r[i].stop = r[i - 1].stop
        /\ r[i].undefined = r[i - 1].undefined
    BY <2>2, <2>3, <2>4
  <2> QED
    BY <2>2, <2>5
<1>7. Before0(m)
  <2> HIDE DEF S
  <2>1. 0..m \subseteq S
    BY <1>5, <1>6, UpTo
  <2> QED
    BY <2>1 DEF S
<1>8. m + 1 \in 1..n /\ (m + 1) - 1 = m /\ m \in 0..n
    BY <1>1, <1>4
<1>9. r[m + 1] = [Take(r[m], s[m + 1]) EXCEPT !.stop = TRUE]
  <2>1. r[m].peerIndex = m /\ ~ r[m].stop /\ ~ r[m].undefined
    BY <1>7
  <2> QED
    BY <1>3, <1>8, <2>1
<1>10. /\ r[m + 1].stop
       /\ Len(socketKey[s[m + 1]]) > 0 =>
             r[m + 1].found = <<socketKey[s[m + 1]][1]>>
       /\ ~ (Len(socketKey[s[m + 1]]) > 0) => r[m + 1].undefined
  <2>1. r[m] \in Results
    BY <1>2, <1>8
  <2>2. Len(socketKey[s[m + 1]]) \in Nat
    <3>1. s[m + 1] \in Key
      BY <1>1, <1>8 DEF n
    <3>2. socketKey[s[m + 1]] \in Seq(Addresses)
      BY <3>1 DEF Lists
    <3> QED
      BY <3>2
  <2> QED
    BY <1>9, <2>1, <2>2 DEF Results
<1> DEFINE T == {i \in 0..(n - (m + 1)) : r[m + 1 + i] = r[m + 1]}
<1>11. 0 \in T
    BY <1>1, <1>8
<1>12. ASSUME NEW i \in 1..(n - (m + 1)), i - 1 \in T PROVE i \in T
  <2>1. m + 1 + i \in 1..n /\ (m + 1 + i) - 1 = m + 1 + (i - 1)
    BY <1>1, <1>8
  <2>2. r[m + 1 + i - 1] = r[m + 1] /\ r[m + 1].stop
    BY <1>10, <1>12, <2>1
  <2>3. r[m + 1 + i] = r[m + 1 + i - 1]
    BY <1>3, <2>1, <2>2
  <2> QED
    BY <2>2, <2>3
<1>13. r[n] = r[m + 1]
  <2>1. n - (m + 1) \in Nat
    BY <1>1, <1>8
  <2> HIDE DEF T
  <2>2. 0..(n - (m + 1)) \subseteq T
    BY <1>11, <1>12, <2>1, UpTo
  <2>3. n - (m + 1) \in T
    BY <2>1, <2>2
  <2>4. m + 1 + (n - (m + 1)) = n
    BY <1>1
  <2> QED
    BY <2>3, <2>4 DEF T
<1>14. Resolution(k) = r[n]
    BY DEF Resolution, r, n, s
<1> QED
    BY <1>10, <1>13, <1>14 DEF s

\* What PairedByIndex says of a channel, its other end and some addresses.
SameIndices(d, c, e) ==
    /\ ~ Endpoint(d, c).autoSubChannel /\ ~ topo.endpoint[e].autoSubChannel
    /\ Indices(e[1]) = Indices(d.service)

PairOf(d, e, list) ==
    Len(list) = 1 /\ list[1].owner = [service |-> e[1], index |-> d.index]

\* ResolveConnectAddress pairs a device with the peer of the same index.
LEMMA ResolvesPair ==
    ASSUME Crossing, OneLinkEach, RoundInv, NEW d \in Device, NEW c \in todo[d],
           step[d] = "resolve", order[d] # "RESET_DEVICE",
           ~ Resolution(<<d, c>>).undefined,
           NEW e \in OtherEnds(d, c), SameIndices(d, c, e)
    PROVE  PairOf(d, e, Resolution(<<d, c>>).found)
<1> DEFINE k == <<d, c>>
           D == Present(d.service)
           E == Present(e[1])
           s == SortedKeys(Row(D, c))
           t == SortedKeys(Row(E, e[2]))
           m == PlaceIn(s, k)
           q == [service |-> e[1], index |-> d.index]
<1>0. TypeOK /\ topo \in Topologies
    BY DEF RoundInv, TypeInv, TypeOK
<1>1. /\ ~ Resetting /\ d \in Up /\ k \in Key /\ Written(k)
      /\ peerKey[k] = SortedKeys(PeersOf(d, c))
      /\ ToSet(peerKey[k]) = PeersOf(d, c)
      /\ \A p \in PeersOf(d, c) :
            /\ p \in Key
            /\ peerKey[p] = SortedKeys(PeersOf(p[1], p[2]))
            /\ channelKey[p].numSockets = numSockets[p]
            /\ numSockets[p] = IF Endpoint(p[1], p[2]).autoSubChannel
                               THEN Cardinality(Found(p[1], p[2])) ELSE 0
            /\ \A i \in DOMAIN socketKey[p] : OfChannel(socketKey[p][i], p)
    BY PeerReady
<1>2. c \in Channel /\ k[1] = d /\ k[2] = c
    BY <1>0 DEF TypeOK
<1>3. /\ e \in End /\ e = <<e[1], e[2]>> /\ e[2] \in Channel
      /\ PeersOf(d, c) = Row(E, e[2])
      /\ \A x \in E : PeersOf(x, e[2]) = Row(D, c)
  <2>1. ~ Endpoint(d, c).autoSubChannel /\ ~ topo.endpoint[e].autoSubChannel
    BY DEF SameIndices
  <2>2. /\ e \in End /\ PeersOf(d, c) = Row(E, e[2])
        /\ \A x \in E : PeersOf(x, e[2]) = Row(D, c)
    BY <1>0, <1>2, <2>1, PairedEnds
  <2> QED
    BY <2>2 DEF End
<1>4. D \in SUBSET Device /\ E \in SUBSET Device /\ d \in D
      /\ IsFiniteSet(D) /\ IsFiniteSet(E)
  <2>1. D \in SUBSET Device /\ E \in SUBSET Device /\ d \in D
    BY <1>1 DEF Present, Up
  <2> QED
    BY <2>1, TopologyAssumption, FS_Subset
<1>5. /\ \A x \in D : x.service = d.service
      /\ \A x \in E : x.service = e[1]
      /\ \A x \in D : \E y \in E : y.index = x.index
      /\ \A y \in E : \E x \in D : y.index = x.index
    BY DEF Present, SameIndices, Indices
<1> HIDE DEF D, E
<1>6. /\ Row(D, c) \in SUBSET Key /\ IsFiniteSet(Row(D, c))
      /\ Row(E, e[2]) \in SUBSET Key /\ IsFiniteSet(Row(E, e[2]))
      /\ Cardinality(Row(E, e[2])) = Cardinality(Row(D, c))
      /\ \A i \in 1..Cardinality(Row(D, c)) :
            t[i] = <<[service |-> e[1], index |-> s[i][1].index], e[2]>>
  <2> DEFINE x == d.service
             y == e[1]
             f == e[2]
  <2>1. Matching(D, x, E, y) /\ f \in Channel
    BY <1>3, <1>5 DEF Matching
  <2> HIDE DEF x, y, f
  <2>2. /\ Row(D, c) \in SUBSET Key /\ IsFiniteSet(Row(D, c))
        /\ Row(E, f) \in SUBSET Key /\ IsFiniteSet(Row(E, f))
        /\ Cardinality(Row(E, f)) = Cardinality(Row(D, c))
        /\ \A i \in 1..Cardinality(Row(D, c)) :
              SortedKeys(Row(E, f))[i] =
                 <<[service |-> y, index |-> SortedKeys(Row(D, c))[i][1].index],
                   f>>
    BY <1>2, <1>4, <2>1, Aligned
  <2> QED
    BY <2>2 DEF y, f
<1>7. /\ s \in Seq(Key) /\ Len(s) = Cardinality(Row(D, c)) /\ k \in ToSet(s)
      /\ Len(t) = Len(s)
  <2>1. s \in Seq(Row(D, c)) /\ Len(s) = Cardinality(Row(D, c))
        /\ Len(t) = Cardinality(Row(E, e[2]))
    BY <1>6, Sorts
  <2>2. ToSet(s) = Row(D, c)
    BY <1>6, SortsAll
  <2>3. k \in Row(D, c)
    BY <1>4 DEF Row
  <2>4. s \in Seq(Key)
    BY <1>6, <2>1
  <2> QED
    BY <1>6, <2>1, <2>2, <2>3, <2>4
<1>8. m \in Nat /\ m < Len(s) /\ s[m + 1] = k
    BY <1>7, Places
<1>9. peerKey[k] = t /\ m < Len(peerKey[k])
    BY <1>1, <1>3, <1>7, <1>8
<1>10. peerKey[k][m + 1] = <<q, e[2]>>
  <2>1. m + 1 \in 1..Cardinality(Row(D, c))
    BY <1>7, <1>8
  <2> QED
    BY <1>2, <1>6, <1>8, <1>9, <2>1
<1>11. numSockets[k] = 0
    BY <1>1, <1>2 DEF RoundInv, Listed, SameIndices
<1>12. ASSUME NEW p \in PeersOf(d, c)
       PROVE  channelKey[p].numSockets = 0 /\ PlaceIn(peerKey[p], k) = m
  <2>1. p[1] \in E /\ p[2] = e[2]
    BY <1>3 DEF Row
  <2>2. Endpoint(p[1], p[2]) = topo.endpoint[e]
    BY <1>3, <1>5, <2>1 DEF Endpoint
  <2>3. PeersOf(p[1], p[2]) = Row(D, c)
    BY <1>3, <2>1
  <2> QED
    BY <1>1, <2>2, <2>3 DEF SameIndices
<1>13. Lists
    BY <1>0, ListsTyped
<1> HIDE DEF m, s, t
<1>14. /\ Resolution(k).found = <<socketKey[peerKey[k][m + 1]][1]>>
       /\ Len(socketKey[peerKey[k][m + 1]]) > 0
  <2>1. \A p \in ToSet(peerKey[k]) : channelKey[p].numSockets <= 1
                                     /\ PlaceIn(peerKey[p], k) = m
    BY <1>1, <1>12
  <2>2. numSockets[k] <= 1
    BY <1>11
  <2> QED
    BY <1>1, <1>8, <1>9, <1>13, <2>1, <2>2, SamePlace
<1> DEFINE p == <<q, e[2]>>
<1>15. p \in PeersOf(d, c) /\ p \in Key
  <2>1. peerKey[k] \in Seq(Key)
    BY <1>1, <1>13 DEF Lists
  <2>2. m + 1 \in 1..Len(peerKey[k])
    BY <1>8, <1>9, <2>1
  <2>3. peerKey[k][m + 1] \in ToSet(peerKey[k])
    BY <2>2 DEF ToSet
  <2> QED
    BY <1>1, <1>10, <2>3
<1>16. socketKey[p][1].owner = q
  <2>1. socketKey[p] \in Seq(SocketAddress) /\ Len(socketKey[p]) > 0
    BY <1>0, <1>10, <1>14, <1>15 DEF TypeOK
  <2>2. 1 \in DOMAIN socketKey[p]
    BY <2>1
  <2>3. p[1] = q
    OBVIOUS
  <2> QED
    BY <1>1, <1>15, <2>2, <2>3 DEF OfChannel
<1> HIDE DEF p, q
<1>17. /\ Resolution(k).found = <<socketKey[p][1]>>
       /\ socketKey[p][1].owner = q
  <2>1. peerKey[k][m + 1] = p
    BY <1>10 DEF p
  <2> QED
    BY <1>14, <1>16, <2>1
<1>18. /\ Len(Resolution(k).found) = 1
       /\ Resolution(k).found[1].owner = q
    BY <1>17
<1> QED
    BY <1>18 DEF PairOf, q

\* A device has gone through channel c in ResolveConnectAddress.
Resolved(d, c) ==
    /\ state[d] \in {"Bound", "DeviceReady"}
    /\ step[d] \notin {"writeBind", "written", "waitBind"}
    /\ step[d] = "resolve" => c \notin todo[d]

\* Such a channel stays so, with its addresses, until the next reset.
LEMMA ConnectChannelStep ==
    ASSUME TypeInv, Todo, Goes, [Next]_vars, NEW d \in Device,
           NEW c \in ChannelsOf(d, "connect"), ~ HasConnectConfig(d),
           Resolved(d, c)'
    PROVE  \/ c \in todo[d] /\ ResolveConnectAddress(d, c)
           \/ Resolved(d, c) /\ address'[<<d, c>>] = address[<<d, c>>]
<1> USE DEF TypeInv
<1> DEFINE k == <<d, c>>
           Same == Resolved(d, c) /\ address'[k] = address[k]
<1>0. k \in Key /\ k[1] = d /\ k[2] = c /\ c \notin ChannelsOf(d, "bind")
    BY DEF Key, ChannelsOf
<1>1. ~ canceled[d] /\ order[d] # "RESET_DEVICE"
    BY DEF Goes, Resetting, TypeOK
<1>2. ASSUME state'[d] = state[d], step'[d] = step[d], todo'[d] = todo[d],
             address'[k] = address[k]
      PROVE  Same
    BY <1>2 DEF Resolved
<1>3. ASSUME NEW x \in Device,
             Start(x) \/ InitDevice(x) \/ InitializeDone(x)
      PROVE  Same
  <2>1. x # d
    BY <1>3 DEF Start, InitDevice, InitializeDone, Resolved, TypeOK
  <2> QED
    BY <1>2, <1>3, <2>1
    DEF Start, InitDevice, InitializeDone, TypeOK, channels
<1>4. ASSUME NEW x \in Device, Bind(x) PROVE Same
  <2>1. x # d
    BY <1>4 DEF Bind, Resolved, TypeOK
  <2> QED
    BY <1>0, <1>2, <1>4, <2>1 DEF Bind, TypeOK
<1>5. ASSUME NEW x \in Device, NEW b \in todo[x], WriteBindAddress(x, b)
      PROVE  Same
  <2>1. x # d
    BY <1>5 DEF WriteBindAddress, Resolved, TypeOK
  <2> QED
    BY <1>2, <1>5, <2>1 DEF WriteBindAddress, TypeOK
<1>6. ASSUME NEW x \in Device, NEW b \in todo[x], InitializeChannel(x, b)
      PROVE  Same
  <2>1. state[x] = "InitializingDevice" /\ UNCHANGED <<state, step, address>>
    BY <1>6, InitializeStep
  <2>2. x # d
    BY <2>1 DEF Resolved
  <2> QED
    BY <1>2, <1>6, <2>1, <2>2 DEF InitializeChannel, TypeOK
<1>7. ASSUME NEW x \in Device,
             WaitBindAddress(x) \/ \E l \in wanted[x] : BoundFound(x, l)
      PROVE  Same
  <2>1. x # d
    BY <1>7 DEF WaitBindAddress, BoundFound, Resolved, TypeOK
  <2> QED
    BY <1>2, <1>7, <2>1 DEF WaitBindAddress, BoundFound, TypeOK, channels
<1>8. ASSUME NEW x \in Device, WaitBindAddressReturns(x) PROVE Same
  <2>1. x # d
    BY <1>1, <1>8 DEF WaitBindAddressReturns, Resolved, TypeOK
  <2> QED
    BY <1>2, <1>8, <2>1 DEF WaitBindAddressReturns, TypeOK, channels
<1>9. ASSUME NEW x \in Device,
             \/ WriteConnectAddress(x) \/ WaitForPeerConnection(x)
             \/ HandshakeCanceled(x)
      PROVE  Same
  <2>1. /\ UNCHANGED <<state, todo, address>>
        /\ step[x] \in {"resolved", "waitPeers", "written"}
        /\ step[x] = "written" => canceled[x]
        /\ \A y \in Device \ {x} : step'[y] = step[y]
    BY <1>9 DEF WriteConnectAddress, WaitForPeerConnection, HandshakeCanceled,
                TypeOK, channels
  <2>2. CASE x # d
    BY <1>2, <2>1, <2>2
  <2>3. CASE x = d
    BY <1>1, <2>1, <2>3 DEF Resolved
  <2> QED
    BY <2>2, <2>3
<1>10. ASSUME NEW x \in Device, Connect(x) PROVE Same
  <2>1. CASE x # d
    BY <1>2, <1>10, <2>1 DEF Connect, TypeOK, channels
  <2>2. CASE x = d
    BY <1>10, <2>2 DEF Connect, Resolved, TypeOK, Phases, channels
  <2> QED
    BY <2>1, <2>2
<1>11. ASSUME NEW x \in Device, ReceiveReset(x) PROVE Same
    BY <1>2, <1>11 DEF ReceiveReset, channels
<1>12. ASSUME NEW x \in Device, NEW b \in todo[x], ConfigConnect(x, b)
       PROVE  Same
  <2>1. x # d
    BY <1>12 DEF ConfigConnect
  <2>2. k # <<x, b>>
    BY <2>1
  <2>3. address'[k] = address[k]
    BY <1>0, <1>12, <2>2 DEF ConfigConnect, TypeOK
  <2> QED
    BY <1>2, <1>12, <2>1, <2>3 DEF ConfigConnect, TypeOK
<1>13. ASSUME NEW x \in Device, NEW b \in todo[x], ResolveConnectAddress(x, b),
              <<x, b>> # k
       PROVE  Same
  <2>1. address'[k] = address[k] /\ state' = state /\ step[x] = "resolve"
    BY <1>0, <1>13 DEF ResolveConnectAddress, TypeOK
  <2>2. CASE x # d
    BY <1>2, <1>13, <2>1, <2>2 DEF ResolveConnectAddress, TypeOK
  <2>3. CASE x = d
    <3>1. b # c
      BY <1>13, <2>3
    <3>2. /\ todo'[d] = todo[d] \ {b}
          /\ step'[d] = IF todo[d] = {b} THEN "resolved" ELSE "resolve"
      BY <1>13, <2>1, <2>3 DEF ResolveConnectAddress, TypeOK
    <3> QED
      BY <2>1, <2>3, <3>1, <3>2 DEF Resolved
  <2> QED
    BY <2>2, <2>3
<1>14. ASSUME NEW cmd \in DOMAIN Accepts, Broadcast(cmd) PROVE Same
    BY <1>2, <1>14 DEF Broadcast, channels
<1>15. UNCHANGED vars => Same
    BY <1>2 DEF vars, device, channels
<1> HIDE DEF Same
<1>16. ASSUME NEW x \in Device, NEW b \in todo[x], ResolveConnectAddress(x, b)
       PROVE  Same \/ (c \in todo[d] /\ ResolveConnectAddress(d, c))
  <2>1. CASE <<x, b>> = k
    <3>1. x = d /\ b = c
      BY <2>1
    <3> QED
      BY <1>16, <3>1
  <2> QED
    BY <1>13, <1>16, <2>1
<1>17. ASSUME NEW x \in Device, DeviceStep(x)
       PROVE  Same \/ (c \in todo[d] /\ ResolveConnectAddress(d, c))
    BY <1>3, <1>4, <1>5, <1>6, <1>7, <1>8, <1>9, <1>10, <1>11, <1>12, <1>16,
       <1>17 DEF DeviceStep, Goes
<1>18. Same \/ (c \in todo[d] /\ ResolveConnectAddress(d, c))
    BY <1>3, <1>14, <1>15, <1>17 DEF Next, Goes
<1> QED
    BY <1>18 DEF Same

\* A step after which a channel has been resolved resolves it, or leaves it.
LEMMA ResolvedStep ==
    ASSUME Crossing, RoundInv, [Next]_vars, ~ Resetting', NEW d \in Device,
           NEW c \in ChannelsOf(d, "connect")',
           ~ HasConnectConfig(d)', Resolved(d, c)'
    PROVE  /\ Goes /\ ~ Resetting /\ topo' = topo
           /\ c \in ChannelsOf(d, "connect") /\ ~ HasConnectConfig(d)
           /\ \/ Resolved(d, c) /\ address'[<<d, c>>] = address[<<d, c>>]
              \/ /\ c \in todo[d] /\ step[d] = "resolve"
                 /\ order[d] # "RESET_DEVICE" /\ ~ Resolution(<<d, c>>).undefined
                 /\ address'[<<d, c>>] = Resolution(<<d, c>>).found
<1>1. TypeInv /\ Todo /\ AllReset /\ TypeOK
    BY DEF RoundInv, CurrentInv, TypeInv
<1>2. ~ Quiet'
    BY DEF Quiet, Resolved
<1>3. Goes
    BY <1>1, <1>2, RoundFound, GoesOn
<1>4. topo' = topo /\ c \in ChannelsOf(d, "connect") /\ ~ Resetting
    BY <1>1, <1>3, TodoStep DEF Goes
<1>5. ~ HasConnectConfig(d)
    BY <1>4 DEF HasConnectConfig
<1>6. CASE c \in todo[d] /\ ResolveConnectAddress(d, c)
  <2>1. order[d] # "RESET_DEVICE"
    BY <1>4 DEF Resetting
  <2>2. step[d] = "resolve" /\ ~ Resolution(<<d, c>>).undefined
        /\ address' = [address EXCEPT ![<<d, c>>] = Resolution(<<d, c>>).found]
    BY <1>6 DEF ResolveConnectAddress
  <2>3. <<d, c>> \in Key
    BY <1>4 DEF Key, ChannelsOf
  <2>4. address'[<<d, c>>] = Resolution(<<d, c>>).found
    BY <1>1, <2>2, <2>3 DEF TypeOK
  <2> QED
    BY <1>3, <1>4, <1>5, <1>6, <2>1, <2>2, <2>4
<1> QED
    BY <1>1, <1>3, <1>4, <1>5, <1>6, ConnectChannelStep

\* Every such channel leads to the peer of the same index.
Pairs ==
    ~ Resetting =>
        \A d \in Device : \A c \in ChannelsOf(d, "connect") :
            ~ HasConnectConfig(d) /\ Resolved(d, c) =>
                \A e \in OtherEnds(d, c) :
                    SameIndices(d, c, e) => PairOf(d, e, address[<<d, c>>])

\* It holds when nothing has been resolved,
LEMMA PairsInit == Init => Pairs
BY DEF Init, Pairs, Resolved

\* and every step keeps it.
LEMMA PairsStep ==
    ASSUME Crossing, OneLinkEach, RoundInv, Pairs, [Next]_vars
    PROVE  Pairs'
<1> SUFFICES ASSUME ~ Resetting', NEW d \in Device,
                    NEW c \in ChannelsOf(d, "connect")',
                    ~ HasConnectConfig(d)', Resolved(d, c)',
                    NEW e \in OtherEnds(d, c)', SameIndices(d, c, e)'
             PROVE  PairOf(d, e, address[<<d, c>>])'
    BY DEF Pairs
<1>1. /\ Goes /\ ~ Resetting /\ topo' = topo
      /\ c \in ChannelsOf(d, "connect") /\ ~ HasConnectConfig(d)
      /\ \/ Resolved(d, c) /\ address'[<<d, c>>] = address[<<d, c>>]
         \/ /\ c \in todo[d] /\ step[d] = "resolve"
            /\ order[d] # "RESET_DEVICE" /\ ~ Resolution(<<d, c>>).undefined
            /\ address'[<<d, c>>] = Resolution(<<d, c>>).found
    BY ResolvedStep
<1>2. e \in OtherEnds(d, c)
    BY <1>1 DEF OtherEnds, Links
<1>3. SameIndices(d, c, e)
  <2>1. Up' = Up
    BY <1>1 DEF Goes
  <2>2. \A x : Present(x)' = Present(x)
    BY <2>1 DEF Present, Up
  <2> QED
    BY <1>1, <2>2 DEF SameIndices, Endpoint, Indices
<1>4. PairOf(d, e, address'[<<d, c>>])
    BY <1>1, <1>2, <1>3, ResolvesPair DEF Pairs
<1> QED
    BY <1>4 DEF PairOf

\* When every link joins a bind channel and a connect channel of another
\* service and a channel without autoSubChannel has one link, a device is
\* connected to the peer of its own index wherever neither side has
\* autoSubChannel and the two services have instances of the same indices, also
\* if the devices are not in step.
THEOREM PairsByIndex ==
    ASSUME Crossing, OneLinkEach
    PROVE  Spec /\ []Orderly => []PairedByIndex
<1> DEFINE I == RoundInv /\ Pairs
<1>1. Init => I
    BY RoundInit, PairsInit
<1>2. I /\ Orderly /\ [Next]_vars => I'
    BY RoundStep, PairsStep
<1>3. I => PairedByIndex
  <2> SUFFICES ASSUME I, NEW d \in Device, Connected(d), ~ HasConnectConfig(d),
                      NEW c \in ChannelsOf(d, "connect"),
                      NEW e \in OtherEnds(d, c), SameIndices(d, c, e)
               PROVE  PairOf(d, e, address[<<d, c>>])
    BY DEF PairedByIndex, SameIndices, PairOf
  <2>1. AllReset /\ Phases
    BY DEF RoundInv, CurrentInv, TypeInv
  <2>2. ~ Resetting
    BY <2>1 DEF AllReset, Connected
  <2>3. Resolved(d, c)
    BY <2>1 DEF Phases, Connected, Resolved
  <2> QED
    BY <2>2, <2>3 DEF Pairs
<1> QED
    BY <1>1, <1>2, <1>3, PTL DEF Spec

\* The socket of peer p that a channel k with sub-channels takes.
Slot(p, k) == socketKey[p][PlaceIn(peerKey[p], k) + 1]

\* With sub-channels at both ends ResolveConnectAddress takes from each peer the
\* socket at its own place in the peer's list.
LEMMA Slots ==
    ASSUME Lists, NEW k \in Key, numSockets[k] = Len(peerKey[k]),
           \A p \in ToSet(peerKey[k]) :
              /\ PlaceIn(peerKey[p], k) < channelKey[p].numSockets
              /\ Len(socketKey[p]) = channelKey[p].numSockets
    PROVE  /\ Len(Resolution(k).found) = Len(peerKey[k])
           /\ \A j \in 1..Len(peerKey[k]) :
                 Resolution(k).found[j] = Slot(peerKey[k][j], k)
<1> DEFINE s == peerKey[k]
           n == Len(s)
           r == ResolvedUpTo(k)
<1>1. s \in Seq(Key) /\ n \in Nat
    BY DEF Lists
<1>2. /\ r[0] = NothingFound /\ \A i \in 0..n : r[i] \in Results
      /\ \A i \in 1..n : r[i] = ResolvePeer(k, s, r[i - 1], s[i])
    BY ResolvedSteps
<1> DEFINE Good(i) == /\ Len(r[i].found) = i
                      /\ \A j \in 1..i : r[i].found[j] = Slot(s[j], k)
                      /\ ~ r[i].is1to1 /\ ~ r[i].undefined
                      /\ i < n => ~ r[i].stop
           S == {i \in 0..n : Good(i)}
<1>3. ASSUME NEW i \in 1..n, ~ r[i - 1].stop, ~ r[i - 1].undefined,
             ~ r[i - 1].is1to1, Len(r[i - 1].found) = i - 1
      PROVE  /\ r[i].found = Append(r[i - 1].found, Slot(s[i], k))
             /\ ~ r[i].is1to1 /\ ~ r[i].undefined /\ (n > 1 => ~ r[i].stop)
  <2> DEFINE p == s[i]
             v == r[i - 1]
             m == PlaceIn(peerKey[p], k)
             f == socketKey[p]
             w == channelKey[p].numSockets
             next == [v EXCEPT !.peerIndex = @ + 1]
             Take(x, y) == IF x < Len(f) THEN [next EXCEPT !.found = y]
                                         ELSE [next EXCEPT !.undefined = TRUE]
  <2>1. p \in Key /\ p \in ToSet(peerKey[k]) /\ v \in Results /\ i - 1 \in 0..n
    BY <1>1, <1>2 DEF ToSet
  <2>2. m \in Nat /\ w \in Nat /\ m < w /\ Len(f) = w /\ f \in Seq(Addresses)
    <3>1. peerKey[p] \in Seq(Key) /\ w \in Nat /\ f \in Seq(Addresses)
      BY <2>1 DEF Lists
    <3>2. m \in Nat
      BY <3>1, Places
    <3>3. m < w /\ Len(f) = w
      BY <2>1
    <3> QED
      BY <3>1, <3>2, <3>3
  <2>3. r[i] = IF v.stop \/ v.undefined THEN v
               ELSE IF v.is1to1 /\ m # v.peerIndex THEN next
               ELSE CASE n <= 1 /\ w <= 1 ->
                           IF m = v.peerIndex \/ n = 1
                           THEN [Take(0, <<f[1]>>) EXCEPT !.stop = TRUE]
                           ELSE [next EXCEPT !.is1to1 = TRUE]
                      [] n <= 1 /\ w > 1 -> Take(m, <<f[m + 1]>>)
                      [] n > 1 /\ w <= 1 ->
                           IF Len(f) = 1 THEN [next EXCEPT !.found = @ \o f]
                                    ELSE [next EXCEPT !.undefined = TRUE]
                      [] n > 1 /\ w > 1 ->
                           Take(m, Append(v.found, f[m + 1]))
    <3>1. r[i] = ResolvePeer(k, s, r[i - 1], s[i])
      BY <1>2
    <3> QED
      BY <3>1 DEF ResolvePeer, ReadPeerAddress
  <2>4. Slot(p, k) = f[m + 1]
    BY DEF Slot
  <2> HIDE DEF p, v, m, f, w, n, r, s
  <2>5. /\ next \in Results /\ next.found = v.found /\ next.stop = v.stop
        /\ next.is1to1 = v.is1to1 /\ next.undefined = v.undefined
    BY <2>1 DEF Results
  <2>6. ASSUME NEW x
        PROVE  /\ [next EXCEPT !.found = x].found = x
               /\ [next EXCEPT !.found = x].stop = v.stop
               /\ [next EXCEPT !.found = x].is1to1 = v.is1to1
               /\ [next EXCEPT !.found = x].undefined = v.undefined
               /\ [[next EXCEPT !.found = x] EXCEPT !.stop = TRUE].found = x
               /\ [[next EXCEPT !.found = x] EXCEPT !.stop = TRUE].is1to1
                    = v.is1to1
               /\ [[next EXCEPT !.found = x] EXCEPT !.stop = TRUE].undefined
                    = v.undefined
    <3> HIDE DEF next
    <3> QED
      BY <2>5 DEF Results
  <2>7. v.found \in Seq(Addresses) /\ Len(v.found) = i - 1
    BY <1>3, <2>1 DEF Results, v
  <2>8. ~ v.stop /\ ~ v.undefined /\ ~ v.is1to1
    BY <1>3 DEF v
  <2> HIDE DEF next
  <2>9. CASE n <= 1 /\ w <= 1
    <3>1. m = 0 /\ n = 1 /\ i = 1 /\ v.found = <<>>
      BY <1>1, <2>2, <2>7, <2>9
    <3>2. r[i] = [[next EXCEPT !.found = <<f[1]>>] EXCEPT !.stop = TRUE]
      BY <2>2, <2>3, <2>8, <2>9, <3>1
    <3>3. <<f[1]>> = Append(v.found, f[m + 1])
      BY <3>1
    <3> QED
      BY <2>4, <2>6, <2>8, <3>1, <3>2, <3>3 DEF p, v
  <2>10. CASE n <= 1 /\ w > 1
    <3>1. n = 1 /\ i = 1 /\ v.found = <<>>
      BY <1>1, <2>7, <2>10
    <3>2. r[i] = [next EXCEPT !.found = <<f[m + 1]>>]
      BY <2>2, <2>3, <2>8, <2>10, <3>1
    <3>3. <<f[m + 1]>> = Append(v.found, f[m + 1])
      BY <3>1
    <3> QED
      BY <2>4, <2>6, <2>8, <3>1, <3>2, <3>3 DEF p, v
  <2>11. CASE n > 1 /\ w <= 1
    <3>1. m = 0 /\ Len(f) = 1
      BY <2>2, <2>11
    <3>2. r[i] = [next EXCEPT !.found = next.found \o f]
      BY <2>2, <2>3, <2>8, <2>11, <3>1
    <3>3. next.found \o f = Append(v.found, f[m + 1])
      BY <2>2, <2>5, <2>7, <3>1, OneMore
    <3> QED
      BY <2>4, <2>6, <2>8, <3>2, <3>3 DEF p, v
  <2>12. CASE n > 1 /\ w > 1
    <3>1. r[i] = [next EXCEPT !.found = Append(v.found, f[m + 1])]
      BY <2>2, <2>3, <2>8, <2>12
    <3> QED
      BY <2>4, <2>6, <2>8, <3>1 DEF p, v
  <2> QED
    BY <1>1, <2>2, <2>9, <2>10, <2>11, <2>12
<1> HIDE DEF r, s, n
<1>4. 0 \in S
    BY <1>1, <1>2 DEF NothingFound
<1>5. ASSUME NEW i \in 1..n, i - 1 \in S PROVE i \in S
  <2>1. Good(i - 1) /\ i - 1 \in 0..n /\ i - 1 < n
    BY <1>1, <1>5
  <2>2. /\ r[i].found = Append(r[i - 1].found, Slot(s[i], k))
        /\ ~ r[i].is1to1 /\ ~ r[i].undefined /\ (n > 1 => ~ r[i].stop)
    BY <1>3, <2>1
  <2>3. r[i - 1].found \in Seq(Addresses) /\ Len(r[i - 1].found) = i - 1
    BY <1>2, <2>1 DEF Results
  <2>4. Len(r[i].found) = i
    BY <2>2, <2>3
  <2>5. ASSUME NEW j \in 1..i PROVE r[i].found[j] = Slot(s[j], k)
    <3>1. CASE j = i
      BY <2>2, <2>3, <3>1
    <3>2. CASE j # i
      <4>1. j \in 1..(i - 1)
        BY <3>2
      <4>2. r[i].found[j] = r[i - 1].found[j]
        BY <2>2, <2>3, <4>1
      <4> QED
        BY <2>1, <4>1, <4>2
    <3> QED
      BY <3>1, <3>2
  <2>6. i < n => n > 1
    BY <1>1
  <2>7. Good(i)
    BY <2>2, <2>4, <2>5, <2>6
  <2> HIDE DEF Good
  <2> QED
    BY <1>1, <2>7
<1>6. n \in S
  <2> HIDE DEF S
  <2>1. 0..n \subseteq S
    BY <1>1, <1>4, <1>5, UpTo
  <2> QED
    BY <1>1, <2>1
<1>7. Resolution(k) = r[n]
    BY DEF Resolution, r, n, s
<1> QED
    BY <1>6, <1>7 DEF s, n

\* Without sub-channels it takes the socket of a peer, or none.
LEMMA SomePeer ==
    ASSUME Lists, NEW k \in Key, numSockets[k] <= 1,
           \A p \in ToSet(peerKey[k]) : channelKey[p].numSockets <= 1
    PROVE  \/ Resolution(k).found = <<>>
           \/ \E p \in ToSet(peerKey[k]) : /\ 0 < Len(socketKey[p])
                                           /\ Resolution(k).found = <<socketKey[p][1]>>
<1> DEFINE s == peerKey[k]
           n == Len(s)
           r == ResolvedUpTo(k)
           Good(x) == x = <<>> \/ \E j \in 1..n : /\ 0 < Len(socketKey[s[j]])
                                                  /\ x = <<socketKey[s[j]][1]>>
           S == {i \in 0..n : Good(r[i].found)}
<1>1. s \in Seq(Key) /\ n \in Nat
    BY DEF Lists
<1>2. /\ r[0] = NothingFound /\ \A i \in 0..n : r[i] \in Results
      /\ \A i \in 1..n : r[i] = ResolvePeer(k, s, r[i - 1], s[i])
    BY ResolvedSteps
<1>3. ASSUME NEW i \in 1..n
      PROVE  \/ r[i].found = r[i - 1].found
             \/ 0 < Len(socketKey[s[i]]) /\ r[i].found = <<socketKey[s[i]][1]>>
  <2> DEFINE v == r[i - 1]
             m == PlaceIn(peerKey[s[i]], k)
             f == socketKey[s[i]]
             next == [v EXCEPT !.peerIndex = @ + 1]
  <2>1. s[i] \in ToSet(peerKey[k]) /\ s[i] \in Key /\ v \in Results
    BY <1>1, <1>2 DEF ToSet
  <2>2. ~ (numSockets[k] > 1) /\ ~ (channelKey[s[i]].numSockets > 1)
        /\ numSockets[k] <= 1 /\ channelKey[s[i]].numSockets <= 1
    BY <2>1 DEF Lists
  <2>3. r[i] = ResolvePeer(k, s, v, s[i])
    BY <1>2
  <2>4. \/ r[i] = v \/ r[i] = next \/ r[i] = [next EXCEPT !.is1to1 = TRUE]
        \/ r[i] = [[next EXCEPT !.undefined = TRUE] EXCEPT !.stop = TRUE]
        \/ /\ 0 < Len(f)
           /\ r[i] = [[next EXCEPT !.found = <<f[1]>>] EXCEPT !.stop = TRUE]
    BY <2>2, <2>3 DEF ResolvePeer, ReadPeerAddress
  <2>5. next \in Results /\ next.found = v.found
    BY <2>1 DEF Results
  <2> HIDE DEF next, v, f, r
  <2>6. /\ [next EXCEPT !.is1to1 = TRUE].found = v.found
        /\ [[next EXCEPT !.undefined = TRUE] EXCEPT !.stop = TRUE].found = v.found
        /\ [[next EXCEPT !.found = <<f[1]>>] EXCEPT !.stop = TRUE].found
              = <<f[1]>>
    BY <2>5 DEF Results
  <2>7. r[i].found = v.found \/ (0 < Len(f) /\ r[i].found = <<f[1]>>)
    BY <2>4, <2>5, <2>6
  <2> QED
    BY <2>7 DEF v, f
<1> HIDE DEF s, n, r
<1>4. 0 \in S
    BY <1>1, <1>2 DEF NothingFound
<1>5. ASSUME NEW i \in 1..n, i - 1 \in S PROVE i \in S
  <2>1. Good(r[i - 1].found) /\ i \in 0..n
    BY <1>1, <1>5
  <2>2. CASE r[i].found = r[i - 1].found
    BY <2>1, <2>2
  <2>3. CASE 0 < Len(socketKey[s[i]]) /\ r[i].found = <<socketKey[s[i]][1]>>
    <3>1. Good(r[i].found)
      BY <2>3
    <3> HIDE DEF Good
    <3> QED
      BY <2>1, <3>1
  <2> QED
    BY <1>3, <2>2, <2>3
<1>6. n \in S
  <2> HIDE DEF S
  <2>1. 0..n \subseteq S
    BY <1>1, <1>4, <1>5, UpTo
  <2> QED
    BY <1>1, <2>1
<1>7. Resolution(k) = r[n]
    BY DEF Resolution, r, n, s
<1>8. \A j \in 1..n : s[j] \in ToSet(peerKey[k])
    BY <1>1 DEF s, n, ToSet
<1> QED
    BY <1>6, <1>7, <1>8

\* Both ends of a link have sub-channels or neither has, and connect-config is
\* not used in a topology with sub-channels, as in all topologies of scripts/.
AutoAtBothEnds ==
    \A t \in Topologies :
        /\ \A l \in t.link :
              t.endpoint[l.L].autoSubChannel = t.endpoint[l.R].autoSubChannel
        /\ (\E e \in DOMAIN t.endpoint : t.endpoint[e].autoSubChannel) =>
              DOMAIN t.connectConfig = {}

\* Then a channel has sub-channels as its peers have.
LEMMA PeersAuto ==
    ASSUME Crossing, AutoAtBothEnds, topo \in Topologies, NEW d \in Up,
           NEW c \in Channel, NEW p \in PeersOf(d, c)
    PROVE  Endpoint(p[1], p[2]).autoSubChannel = Endpoint(d, c).autoSubChannel
<1>1. PICK l \in LinksOf(d, c) : l.peer = <<p[1].service, p[2]>>
    BY PeersLinked
<1>2. l.my = <<d.service, c>> /\ l \in Links(d)
    BY CrossingLinks DEF Up
<1>3. PICK k \in topo.link : l = IF k.L[1] = d.service
                                 THEN [my |-> k.L, peer |-> k.R]
                                 ELSE [my |-> k.R, peer |-> k.L]
    BY <1>2 DEF Links
<1>4. topo.endpoint[k.L].autoSubChannel = topo.endpoint[k.R].autoSubChannel
    BY DEF AutoAtBothEnds
<1>5. topo.endpoint[l.peer].autoSubChannel = topo.endpoint[l.my].autoSubChannel
    BY <1>3, <1>4
<1> QED
    BY <1>1, <1>2, <1>5 DEF Endpoint

\* What the peers of a channel are, in order, and how many.
LEMMA PeerList ==
    ASSUME Crossing, topo \in Topologies, NEW d \in Device, NEW c \in Channel
    PROVE  LET s == SortedKeys(PeersOf(d, c)) IN
           /\ s \in Seq(Key) /\ ToSet(s) = PeersOf(d, c)
           /\ Len(s) = Cardinality(Found(d, c)) /\ Len(s) \in Nat
           /\ \A i \in 1..Len(s) : s[i] \in PeersOf(d, c)
           /\ \A i, j \in 1..Len(s) : s[i] = s[j] => i = j
<1> DEFINE P == PeersOf(d, c)
           s == SortedKeys(P)
<1>1. P \in SUBSET Key /\ IsFiniteSet(P) /\ Cardinality(Found(d, c)) = Cardinality(P)
    BY PeerTypes, OneLinkPerPeer
<1> HIDE DEF P
<1>2. s \in Seq(P) /\ Len(s) = Cardinality(P) /\ Ordering(s, P)
    BY <1>1, Sorts
<1>3. ToSet(s) = P
    BY <1>1, SortsAll
<1>4. \A i, j \in 1..Cardinality(P) : i # j => s[i] # s[j]
    BY <1>2 DEF Ordering, SetToSeqs
<1> HIDE DEF s
<1>5. s \in Seq(Key) /\ Len(s) \in Nat /\ \A i \in 1..Len(s) : s[i] \in P
    BY <1>1, <1>2
<1> QED
    BY <1>1, <1>2, <1>3, <1>4, <1>5 DEF s, P

\* The addresses are those of peers;
FromPeers(d, c, list) ==
    \A i \in DOMAIN list : <<list[i].owner, list[i].channel>> \in PeersOf(d, c)

\* of each peer in turn a socket, and if the numbers of the peer's sockets have
\* one digit, the one that belongs to the channel.
OneOfEach(d, c, list) ==
    LET s == SortedKeys(PeersOf(d, c)) IN
    /\ Len(list) = Len(s)
    /\ \A i \in 1..Len(s) :
          /\ <<list[i].owner, list[i].channel>> = s[i]
          /\ LET t == SortedKeys(PeersOf(s[i][1], s[i][2])) IN
             Len(t) <= Base => list[i].sub = PlaceIn(t, <<d, c>>)

\* With sub-channels it is the latter, without them the former.
Chosen(d, c, list) ==
    IF Endpoint(d, c).autoSubChannel THEN OneOfEach(d, c, list)
                                     ELSE FromPeers(d, c, list)

\* ResolveConnectAddress chooses such addresses.
LEMMA ResolvesChosen ==
    ASSUME Crossing, AutoAtBothEnds, RoundInv, NEW d \in Device,
           NEW c \in todo[d], step[d] = "resolve", order[d] # "RESET_DEVICE"
    PROVE  Chosen(d, c, Resolution(<<d, c>>).found)
<1> DEFINE k == <<d, c>>
           f == Resolution(k).found
           s == SortedKeys(PeersOf(d, c))
<1>0. TypeOK /\ topo \in Topologies /\ c \in Channel
    BY DEF RoundInv, TypeInv, TypeOK
<1>1. /\ ~ Resetting /\ d \in Up /\ k \in Key /\ Written(k)
      /\ peerKey[k] = s /\ ToSet(peerKey[k]) = PeersOf(d, c)
      /\ \A p \in PeersOf(d, c) :
            /\ p \in Key /\ k \in PeersOf(p[1], p[2])
            /\ peerKey[p] = SortedKeys(PeersOf(p[1], p[2]))
            /\ channelKey[p].numSockets = numSockets[p]
            /\ numSockets[p] = IF Endpoint(p[1], p[2]).autoSubChannel
                               THEN Cardinality(Found(p[1], p[2])) ELSE 0
            /\ Len(socketKey[p]) =
                  IF numSockets[p] <= 1 THEN 1 ELSE numSockets[p]
            /\ \A i \in DOMAIN socketKey[p] : OfChannel(socketKey[p][i], p)
            /\ numSockets[p] <= Base =>
                  \A i \in DOMAIN socketKey[p] : IsSocket(socketKey[p][i], p, i)
    BY PeerReady
<1>2. Lists
    BY <1>0, ListsTyped
<1>3. numSockets[k] = IF Endpoint(d, c).autoSubChannel
                      THEN Cardinality(Found(d, c)) ELSE 0
    BY <1>1 DEF RoundInv, Listed
<1>4. \A p \in PeersOf(d, c) :
          Endpoint(p[1], p[2]).autoSubChannel = Endpoint(d, c).autoSubChannel
    BY <1>0, <1>1, PeersAuto
<1>5. /\ s \in Seq(Key) /\ ToSet(s) = PeersOf(d, c)
      /\ Len(s) = Cardinality(Found(d, c)) /\ Len(s) \in Nat
      /\ \A i \in 1..Len(s) : s[i] \in PeersOf(d, c)
    BY <1>0, PeerList
<1> HIDE DEF s, f
<1>6. CASE Endpoint(d, c).autoSubChannel
  <2>1. ASSUME NEW p \in PeersOf(d, c)
        PROVE  /\ PlaceIn(peerKey[p], k) \in Nat
               /\ PlaceIn(peerKey[p], k) < channelKey[p].numSockets
               /\ Len(socketKey[p]) = channelKey[p].numSockets
               /\ numSockets[p] = Len(SortedKeys(PeersOf(p[1], p[2])))
    <3> DEFINE t == SortedKeys(PeersOf(p[1], p[2]))
    <3>1. p[1] \in Device /\ p[2] \in Channel
      BY <1>1, Keys
    <3>2. /\ t \in Seq(Key) /\ ToSet(t) = PeersOf(p[1], p[2])
          /\ Len(t) = Cardinality(Found(p[1], p[2])) /\ Len(t) \in Nat
      BY <1>0, <3>1, PeerList
    <3> HIDE DEF t
    <3>3. k \in ToSet(t) /\ peerKey[p] = t
      BY <1>1, <3>2 DEF t
    <3>4. PlaceIn(t, k) \in Nat /\ PlaceIn(t, k) < Len(t)
      BY <3>2, <3>3, Places
    <3>5. numSockets[p] = Len(t) /\ channelKey[p].numSockets = Len(t)
      BY <1>1, <1>4, <1>6, <3>2
    <3>6. Len(socketKey[p]) = IF Len(t) <= 1 THEN 1 ELSE Len(t)
      BY <1>1, <3>5
    <3> QED
      BY <3>2, <3>3, <3>4, <3>5, <3>6 DEF t
  <2>2. /\ Len(f) = Len(s)
        /\ \A i \in 1..Len(s) : f[i] = Slot(s[i], k)
    <3>1. numSockets[k] = Len(peerKey[k])
      BY <1>1, <1>3, <1>5, <1>6
    <3>2. \A p \in ToSet(peerKey[k]) :
              /\ PlaceIn(peerKey[p], k) < channelKey[p].numSockets
              /\ Len(socketKey[p]) = channelKey[p].numSockets
      BY <1>1, <2>1
    <3>3. /\ Len(Resolution(k).found) = Len(peerKey[k])
          /\ \A j \in 1..Len(peerKey[k]) :
                Resolution(k).found[j] = Slot(peerKey[k][j], k)
      BY <1>1, <1>2, <3>1, <3>2, Slots
    <3> QED
      BY <1>1, <3>3 DEF f
  <2>3. ASSUME NEW i \in 1..Len(s)
        PROVE  /\ <<f[i].owner, f[i].channel>> = s[i]
               /\ Len(SortedKeys(PeersOf(s[i][1], s[i][2]))) <= Base =>
                     f[i].sub = PlaceIn(SortedKeys(PeersOf(s[i][1], s[i][2])), k)
    <3> DEFINE p == s[i]
               t == SortedKeys(PeersOf(p[1], p[2]))
               m == PlaceIn(peerKey[p], k)
    <3>1. p \in PeersOf(d, c) /\ p \in Key /\ p = <<p[1], p[2]>>
      BY <1>1, <1>5, Keys
    <3>2. m \in Nat /\ m < Len(socketKey[p]) /\ (m + 1) - 1 = m
      BY <2>1, <3>1
    <3>3. socketKey[p] \in Seq(SocketAddress)
      BY <1>0, <3>1 DEF TypeOK
    <3>4. f[i] = socketKey[p][m + 1]
      BY <2>2 DEF Slot
    <3> HIDE DEF p, m
    <3>5. m + 1 \in DOMAIN socketKey[p]
      BY <3>2, <3>3
    <3>6. OfChannel(f[i], p)
      BY <1>1, <3>1, <3>4, <3>5
    <3>7. ASSUME Len(t) <= Base PROVE f[i].sub = m
      <4>1. numSockets[p] <= Base
        BY <2>1, <3>1, <3>7
      <4>2. IsSocket(f[i], p, m + 1)
        BY <1>1, <3>1, <3>4, <3>5, <4>1
      <4> QED
        BY <3>2, <4>2 DEF IsSocket
    <3>8. m = PlaceIn(t, k)
      BY <1>1, <3>1 DEF m
    <3>9. <<f[i].owner, f[i].channel>> = p
      BY <3>1, <3>6 DEF OfChannel
    <3> HIDE DEF t
    <3>10. Len(t) <= Base => f[i].sub = PlaceIn(t, k)
      BY <3>7, <3>8
    <3> QED
      BY <3>9, <3>10 DEF p, t
  <2> QED
    BY <1>6, <2>2, <2>3 DEF Chosen, OneOfEach, s, f
<1>7. CASE ~ Endpoint(d, c).autoSubChannel
  <2>1. numSockets[k] <= 1
    BY <1>3, <1>7
  <2>2. \A p \in ToSet(peerKey[k]) : channelKey[p].numSockets <= 1
    BY <1>1, <1>4, <1>7
  <2>3. \/ f = <<>>
        \/ \E p \in PeersOf(d, c) : /\ 0 < Len(socketKey[p])
                                     /\ f = <<socketKey[p][1]>>
    BY <1>1, <1>2, <2>1, <2>2, SomePeer DEF f
  <2>4. ASSUME NEW p \in PeersOf(d, c), 0 < Len(socketKey[p])
        PROVE  <<socketKey[p][1].owner, socketKey[p][1].channel>> = p
    <3>1. p \in Key /\ p = <<p[1], p[2]>>
      BY <1>1, Keys
    <3>2. socketKey[p] \in Seq(SocketAddress)
      BY <1>0, <3>1 DEF TypeOK
    <3>3. 1 \in DOMAIN socketKey[p]
      BY <2>4, <3>2
    <3>4. OfChannel(socketKey[p][1], p)
      BY <1>1, <3>3
    <3> QED
      BY <3>1, <3>4 DEF OfChannel
  <2>5. ASSUME NEW i \in DOMAIN f
        PROVE  <<f[i].owner, f[i].channel>> \in PeersOf(d, c)
    <3>1. PICK p \in PeersOf(d, c) : 0 < Len(socketKey[p])
                                     /\ f = <<socketKey[p][1]>>
      BY <2>3
    <3>2. f[i] = socketKey[p][1]
      BY <3>1
    <3> QED
      BY <2>4, <3>1, <3>2
  <2> QED
    BY <1>7, <2>5 DEF Chosen, FromPeers, f
<1> QED
    BY <1>6, <1>7 DEF f

\* Every resolved channel has the addresses ResolveConnectAddress chose.
AllChosen ==
    ~ Resetting =>
        \A d \in Device : \A c \in ChannelsOf(d, "connect") :
            ~ HasConnectConfig(d) /\ Resolved(d, c) =>
                Chosen(d, c, address[<<d, c>>])

\* It holds when nothing has been resolved,
LEMMA AllChosenInit == Init => AllChosen
BY DEF Init, AllChosen, Resolved

\* and every step keeps it.
LEMMA AllChosenStep ==
    ASSUME Crossing, AutoAtBothEnds, RoundInv, AllChosen, [Next]_vars
    PROVE  AllChosen'
<1> SUFFICES ASSUME ~ Resetting', NEW d \in Device,
                    NEW c \in ChannelsOf(d, "connect")',
                    ~ HasConnectConfig(d)', Resolved(d, c)'
             PROVE  Chosen(d, c, address[<<d, c>>])'
    BY DEF AllChosen
<1>1. /\ Goes /\ ~ Resetting /\ topo' = topo
      /\ c \in ChannelsOf(d, "connect") /\ ~ HasConnectConfig(d)
      /\ \/ Resolved(d, c) /\ address'[<<d, c>>] = address[<<d, c>>]
         \/ /\ c \in todo[d] /\ step[d] = "resolve"
            /\ order[d] # "RESET_DEVICE" /\ ~ Resolution(<<d, c>>).undefined
            /\ address'[<<d, c>>] = Resolution(<<d, c>>).found
    BY ResolvedStep
<1>2. Chosen(d, c, address'[<<d, c>>])
    BY <1>1, ResolvesChosen DEF AllChosen
<1>3. \A x, y : PeersOf(x, y)' = PeersOf(x, y) /\ Endpoint(x, y)' = Endpoint(x, y)
    BY <1>1 DEF Goes
<1> QED
    BY <1>2, <1>3 DEF Chosen, OneOfEach, FromPeers

\* A bind channel with instances at its other ends has peers.
LEMMA HasPeers ==
    ASSUME Crossing, topo \in Topologies, NEW d \in Device, NEW c \in Channel,
           ChannelsAt(OtherEnds(d, c)) # {}
    PROVE  PeersOf(d, c) # {}
<1>1. PICK e \in OtherEnds(d, c) : Present(e[1]) # {}
    BY DEF ChannelsAt
<1>2. PICK l \in Links(d) : /\ <<d.service, c>> \in {l.my, l.peer}
                            /\ e = IF l.my = <<d.service, c>> THEN l.peer
                                                              ELSE l.my
    BY DEF OtherEnds
<1>3. l.my[1] = d.service /\ l.my[1] # l.peer[1]
  <2>1. PICK k \in topo.link : /\ d.service \in {k.L[1], k.R[1]}
                               /\ l = IF k.L[1] = d.service
                                      THEN [my |-> k.L, peer |-> k.R]
                                      ELSE [my |-> k.R, peer |-> k.L]
    BY DEF Links
  <2>2. k.L[1] # k.R[1]
    BY DEF Crossing
  <2> QED
    BY <2>1, <2>2
<1>4. l.my = <<d.service, c>> /\ e = l.peer
    BY <1>2, <1>3
<1>5. l \in LinksOf(d, c)
    BY <1>4 DEF LinksOf
<1>6. FarEnd(l, c) = e
    BY <1>4, <1>5, CrossingLinks
<1>7. PICK x \in Present(e[1]) : TRUE
    BY <1>1
<1>8. <<l, x>> \in Found(d, c)
    BY <1>5, <1>6, <1>7 DEF Found, Present
<1> QED
    BY <1>8 DEF PeersOf

\* The channels and places where an address is used.
UsersOf(a) ==
    {u \in UNION {{k} \X DOMAIN address[k] : k \in Key} :
        /\ u[1][2] \in ChannelsOf(u[1][1], "connect")
        /\ address[u[1]][u[2]] = a}

\* When all are connected, a sub-socket is used by the peer that stands at its
\* place in the channel's list, and there once.
LEMMA OneUser ==
    ASSUME Crossing, AutoAtBothEnds, RoundInv, AllChosen,
           \A d \in Up : Connected(d),
           NEW d \in Up, NEW c \in ChannelsOf(d, "bind"),
           Endpoint(d, c).autoSubChannel, PeersOf(d, c) # {},
           Len(address[<<d, c>>]) <= Base,
           NEW i \in DOMAIN address[<<d, c>>]
    PROVE  \E u : UsersOf(address[<<d, c>>][i]) = {u}
<1> DEFINE p == <<d, c>>
           t == SortedKeys(PeersOf(d, c))
           a == address[p][i]
           k == t[i]
           s == SortedKeys(PeersOf(k[1], k[2]))
           m == PlaceIn(s, p)
<1>0. /\ TypeOK /\ topo \in Topologies /\ d \in Device /\ c \in Channel
      /\ p \in Key /\ p[1] = d /\ p[2] = c
    BY DEF RoundInv, TypeInv, TypeOK, Up, ChannelsOf, Key
<1>1. ~ Resetting
    BY <1>0 DEF RoundInv, CurrentInv, AllReset, Connected
<1>2. ASSUME NEW x \in Up, NEW y \in ChannelsOf(x, "connect")
      PROVE  Chosen(x, y, address[<<x, y>>])
  <2>1. Connected(x) /\ x \in Device
    BY DEF Up
  <2>2. Resolved(x, y)
    BY <2>1 DEF RoundInv, TypeInv, Phases, Connected, Resolved
  <2>3. ~ HasConnectConfig(x)
    <3>1. <<d.service, c>> \in DOMAIN topo.endpoint
          /\ topo.endpoint[<<d.service, c>>].autoSubChannel
      BY DEF ChannelsOf, Endpoint
    <3>2. DOMAIN topo.connectConfig = {}
      BY <1>0, <3>1 DEF AutoAtBothEnds
    <3> QED
      BY <3>2 DEF HasConnectConfig
  <2> QED
    BY <1>1, <2>1, <2>2, <2>3 DEF AllChosen
<1>3. /\ t \in Seq(Key) /\ ToSet(t) = PeersOf(d, c) /\ Len(t) \in Nat
      /\ Len(t) = Cardinality(Found(d, c))
      /\ \A j \in 1..Len(t) : t[j] \in PeersOf(d, c)
      /\ \A j, l \in 1..Len(t) : t[j] = t[l] => j = l
    BY <1>0, PeerList
<1>4. /\ i \in 1..Len(t) /\ DOMAIN address[p] = 1..Len(t) /\ Len(t) <= Base
      /\ \A j \in DOMAIN address[p] : IsSocket(address[p][j], p, j)
  <2>1. state[d] = "DeviceReady"
    BY DEF Connected
  <2>2. Written(p)
    BY <1>0, <2>1 DEF Written
  <2>3. numSockets[p] = Len(t)
    BY <1>0, <1>1, <1>3, <2>2 DEF RoundInv, Listed
  <2>4. Len(t) # 0
    BY <1>3 DEF ToSet
  <2>5. /\ Len(address[p]) = IF numSockets[p] <= 1 THEN 1 ELSE numSockets[p]
        /\ \A j \in DOMAIN address[p] : IsSocket(address[p][j], p, j)
    BY <1>0, <1>1, <2>1 DEF RoundInv, Sized
  <2>6. Len(address[p]) = Len(t)
    BY <1>3, <2>3, <2>4, <2>5
  <2>7. address[p] \in Seq(SocketAddress)
    BY <1>0 DEF TypeOK
  <2> QED
    BY <2>5, <2>6, <2>7
<1> HIDE DEF t
<1>5. /\ k \in PeersOf(d, c) /\ k \in Key /\ k[1] \in Up
      /\ k[1] \in Device /\ k[2] \in Channel /\ k = <<k[1], k[2]>>
      /\ p \in PeersOf(k[1], k[2]) /\ k[2] \in ChannelsOf(k[1], "connect")
      /\ Endpoint(k[1], k[2]).autoSubChannel
    BY <1>0, <1>3, <1>4, PeersLinked, PeersBind, PeersAuto, Keys
<1> HIDE DEF k
<1>6. /\ s \in Seq(Key) /\ ToSet(s) = PeersOf(k[1], k[2]) /\ Len(s) \in Nat
      /\ \A j \in 1..Len(s) : s[j] \in PeersOf(k[1], k[2])
      /\ \A j, l \in 1..Len(s) : s[j] = s[l] => j = l
    BY <1>0, <1>5, PeerList
<1>7. OneOfEach(k[1], k[2], address[k])
    BY <1>2, <1>5 DEF Chosen
<1>8. m \in Nat /\ m + 1 \in 1..Len(s) /\ s[m + 1] = p
  <2>1. s \in Seq(Key) /\ p \in ToSet(s) /\ Len(s) \in Nat
    BY <1>5, <1>6
  <2> HIDE DEF s, p
  <2>2. m \in 0..Len(s) /\ m < Len(s) /\ s[m + 1] = p
    BY <2>1, Places
  <2> QED
    BY <2>1, <2>2
<1> HIDE DEF s, m
\* The address is used,
<1>9. address[k][m + 1] = a /\ m + 1 \in DOMAIN address[k]
  <2> DEFINE b == address[k][m + 1]
  <2>1. /\ Len(address[k]) = Len(s)
        /\ <<b.owner, b.channel>> = s[m + 1]
        /\ Len(SortedKeys(PeersOf(s[m + 1][1], s[m + 1][2]))) <= Base =>
              b.sub = PlaceIn(SortedKeys(PeersOf(s[m + 1][1], s[m + 1][2])),
                              <<k[1], k[2]>>)
    BY <1>7, <1>8 DEF OneOfEach, s
  <2>2. b.owner = d /\ b.channel = c /\ b.sub = PlaceIn(t, k)
    <3>1. SortedKeys(PeersOf(s[m + 1][1], s[m + 1][2])) = t
      BY <1>0, <1>8 DEF t
    <3> QED
      BY <1>0, <1>4, <1>5, <1>8, <2>1, <3>1
  <2>3. m + 1 \in DOMAIN address[k]
    <3>1. address[k] \in Seq(SocketAddress)
      BY <1>0, <1>5 DEF TypeOK
    <3> QED
      BY <1>8, <2>1, <3>1
  <2>4. b \in ToSet(address[p])
    <3>1. b \in ToSet(address[k])
      BY <2>3 DEF ToSet
    <3>2. Current(b)
      BY <1>1, <1>5, <3>1 DEF RoundInv, CurrentInv, AllCurrent
    <3> QED
      BY <2>2, <3>2 DEF Current
  <2>5. PICK j \in 1..Len(t) : b = address[p][j]
    BY <1>4, <2>4 DEF ToSet
  <2>6. b.sub = j - 1
    BY <1>4, <2>5 DEF IsSocket
  <2>7. PlaceIn(t, k) \in Nat /\ t[PlaceIn(t, k) + 1] = k
        /\ PlaceIn(t, k) + 1 \in 1..Len(t)
    BY <1>3, <1>5, Places
  <2>8. PlaceIn(t, k) + 1 = i
    BY <1>3, <1>4, <2>7 DEF k
  <2>9. j = i
    BY <2>2, <2>6, <2>7, <2>8
  <2> QED
    BY <2>3, <2>5, <2>9
<1> DEFINE u == <<k, m + 1>>
<1>10. u \in UsersOf(a)
    BY <1>5, <1>9 DEF UsersOf
\* and used by this channel only, in this place only.
<1>11. ASSUME NEW w \in UsersOf(a) PROVE w = u
  <2> DEFINE x == w[1][1]
             y == w[1][2]
             j == w[2]
             r == SortedKeys(PeersOf(x, y))
  <2>1. /\ w[1] \in Key /\ j \in DOMAIN address[w[1]] /\ w = <<w[1], j>>
        /\ y \in ChannelsOf(x, "connect") /\ address[w[1]][j] = a
    BY DEF UsersOf
  <2>2. w[1] = <<x, y>> /\ x \in Device /\ y \in Channel
    BY <2>1, Keys
  <2>3. a.owner = d /\ a.channel = c /\ a.sub = i - 1
    BY <1>0, <1>4 DEF IsSocket
  <2> HIDE DEF x, y, j
  <2>4. x \in Up
    <3>1. address[w[1]] # <<>>
      BY <2>1
    <3>2. state[w[1][1]] \in {"Bound", "DeviceReady"}
      BY <2>1, <3>1 DEF RoundInv, CurrentInv, Cleared
    <3> QED
      BY <2>2, <3>2 DEF Up, x
  <2>5. Chosen(x, y, address[<<x, y>>])
    BY <1>2, <2>1, <2>4
  <2>6. /\ r \in Seq(Key) /\ ToSet(r) = PeersOf(x, y) /\ Len(r) \in Nat
        /\ \A l \in 1..Len(r) : r[l] \in PeersOf(x, y)
        /\ \A l, n \in 1..Len(r) : r[l] = r[n] => l = n
    BY <1>0, <2>2, PeerList
  <2>7. address[<<x, y>>] \in Seq(SocketAddress) /\ j \in DOMAIN address[<<x, y>>]
        /\ address[<<x, y>>][j] = a
    BY <1>0, <2>1, <2>2 DEF TypeOK
  <2> HIDE DEF r
  <2>8. ASSUME OneOfEach(x, y, address[<<x, y>>])
        PROVE  /\ j \in 1..Len(r) /\ r[j] = p
               /\ a.sub = PlaceIn(t, <<x, y>>)
    <3>1. Len(address[<<x, y>>]) = Len(r)
      BY <2>8 DEF OneOfEach, r
    <3>2. j \in 1..Len(r)
      BY <2>7, <3>1
    <3>3. /\ <<a.owner, a.channel>> = r[j]
          /\ Len(SortedKeys(PeersOf(r[j][1], r[j][2]))) <= Base =>
                a.sub = PlaceIn(SortedKeys(PeersOf(r[j][1], r[j][2])), <<x, y>>)
      BY <2>7, <2>8, <3>2 DEF OneOfEach, r
    <3>4. r[j] = p
      BY <2>3, <3>3
    <3>5. SortedKeys(PeersOf(r[j][1], r[j][2])) = t
      BY <1>0, <3>4 DEF t
    <3> QED
      BY <1>4, <3>2, <3>3, <3>4, <3>5
  <2>9. p \in PeersOf(x, y)
    <3>1. CASE Endpoint(x, y).autoSubChannel
      BY <2>5, <2>6, <2>8, <3>1 DEF Chosen
    <3>2. CASE ~ Endpoint(x, y).autoSubChannel
      <4>1. FromPeers(x, y, address[<<x, y>>])
        BY <2>5, <3>2 DEF Chosen
      <4>2. <<a.owner, a.channel>> \in PeersOf(x, y)
        BY <2>7, <4>1 DEF FromPeers
      <4> QED
        BY <2>3, <4>2
    <3> QED
      BY <3>1, <3>2
  <2>10. Endpoint(x, y).autoSubChannel /\ <<x, y>> \in PeersOf(d, c)
    <3>1. Endpoint(p[1], p[2]).autoSubChannel = Endpoint(x, y).autoSubChannel
      BY <1>0, <2>2, <2>4, <2>9, PeersAuto
    <3>2. <<x, y>> \in PeersOf(p[1], p[2])
      BY <1>0, <2>2, <2>4, <2>9, PeersLinked
    <3>3. Endpoint(p[1], p[2]) = Endpoint(d, c)
          /\ PeersOf(p[1], p[2]) = PeersOf(d, c)
      BY <1>0
    <3> QED
      BY <3>1, <3>2, <3>3
  <2>11. j \in 1..Len(r) /\ r[j] = p /\ a.sub = PlaceIn(t, <<x, y>>)
    BY <2>5, <2>8, <2>10 DEF Chosen
  <2>12. <<x, y>> = k
    <3> DEFINE z == <<x, y>>
    <3>1. z \in ToSet(t) /\ a.sub = PlaceIn(t, z)
      BY <1>3, <2>10, <2>11
    <3> HIDE DEF z
    <3>2. PlaceIn(t, z) \in Nat /\ t[PlaceIn(t, z) + 1] = z
      BY <1>3, <3>1, Places
    <3>3. PlaceIn(t, z) + 1 = i
      BY <1>4, <2>3, <3>1, <3>2
    <3>4. z = k
      BY <3>2, <3>3 DEF k
    <3> QED
      BY <3>4 DEF z
  <2>13. r = s
    <3>1. x = k[1] /\ y = k[2]
      BY <2>12
    <3> QED
      BY <3>1 DEF r, s
  <2>14. j = m + 1
    BY <1>6, <1>8, <2>11, <2>13
  <2> QED
    BY <2>1, <2>2, <2>12, <2>14
<1> HIDE DEF u, a
<1>12. UsersOf(a) = {u}
    BY <1>10, <1>11
<1> QED
    BY <1>12 DEF a

\* When every link joins a bind channel and a connect channel of another
\* service and both or neither have sub-channels, then, once all devices are
\* connected, every sub-socket of a channel has one peer, which has it once in
\* its list, as long as the numbers of the channel's sub-sockets have one digit.
THEOREM OnePeerEach ==
    ASSUME Crossing, AutoAtBothEnds
    PROVE  Spec /\ []Orderly => []OnePeerPerSubSocket
<1> DEFINE I == RoundInv /\ AllChosen
<1>1. Init => I
    BY RoundInit, AllChosenInit
<1>2. I /\ Orderly /\ [Next]_vars => I'
    BY RoundStep, AllChosenStep
<1>3. I => OnePeerPerSubSocket
  <2> SUFFICES ASSUME I, \A d \in Up : Connected(d),
                      NEW d \in Up, NEW c \in ChannelsOf(d, "bind"),
                      Endpoint(d, c).autoSubChannel,
                      ChannelsAt(OtherEnds(d, c)) # {},
                      Len(address[<<d, c>>]) <= Base,
                      NEW i \in DOMAIN address[<<d, c>>]
               PROVE  Cardinality(UsersOf(address[<<d, c>>][i])) = 1
    BY DEF OnePeerPerSubSocket, UsersOf
  <2>1. topo \in Topologies /\ d \in Device /\ c \in Channel
    BY DEF RoundInv, TypeInv, TypeOK, Up, ChannelsOf
  <2>2. PeersOf(d, c) # {}
    BY <2>1, HasPeers
  <2>3. PICK u : UsersOf(address[<<d, c>>][i]) = {u}
    BY <2>2, OneUser
  <2> QED
    BY <2>3, FS_Singleton
<1> QED
    BY <1>1, <1>2, <1>3, PTL DEF Spec
=============================================================================
